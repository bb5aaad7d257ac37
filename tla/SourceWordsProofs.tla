------------------------- MODULE SourceWordsProofs -------------------------
(***************************************************************************)
(* Theorems about the words and phrases of a source, for every finite set  *)
(* of words, every set of texts and analyses and every bound.              *)
(*                                                                         *)
(* Everything rests on one fact: the phrases of a word are such that the   *)
(* selection can choose among them (Selectable): no two phrases of the     *)
(* analysis stand at one key, and one phrase at most is marked.  First the *)
(* parts of a plan: the selection, the stray phrases that find a place     *)
(* again, the fates, the new phrases.  Then the write: its statements, one *)
(* after the other, make of each row what the plan took it to be.  Then    *)
(* what a rebuild therefore leaves, and what users do to the rows in       *)
(* between.                                                                *)
(***************************************************************************)
EXTENDS SourceWords, FiniteSetTheorems, FunctionTheorems, WellFoundedInduction, TLAPS

-----------------------------------------------------------------------------
(* Rows and their fields.                                                  *)

(* The fields of a phrase.                                                 *)
Fields == {"word", "key", "origin", "shown", "choice", "edited", "removed", "replaces",
           "made", "job", "text", "facts", "score", "polish", "reverted", "section"}

(* What an analysis finds at a place.                                      *)
Found == [text : Texts, facts : Nat, score : Nat]

(* The sections of a phrase.                                               *)
SectionNames == {"ready", "extra", "probably known"}

(* The fields a rewrite of a phrase changes.                               *)
Written == {"text", "facts", "score", "section", "polish", "reverted", "made"}

(* The types of the fields.                                                *)
RowTypes(r) ==
    /\ r.word \in Words /\ r.key \in Keys \cup {Unplaced}
    /\ r.origin \in {"auto", "manual", "example"} /\ r.shown \in {"none", "selection", "user"}
    /\ r.choice \in {"none", "learn", "skip"}
    /\ r.edited \in BOOLEAN /\ r.removed \in BOOLEAN /\ r.replaces \in BOOLEAN
    /\ r.made \in SUBSET {"meaning", "speech"} /\ r.job \in {"none", "queued", "running"}
    /\ r.text \in Texts /\ r.facts \in Nat /\ r.score \in Nat
    /\ r.polish \in Texts \cup {NoText} /\ r.reverted \in BOOLEAN
    /\ r.section \in SectionNames

(* Sixteen fields of the right types are a row.                            *)
LEMMA RowFrom ==
  ASSUME NEW r, r = [f \in Fields |-> r[f]], RowTypes(r)
  PROVE  r \in PhraseRow
<1>1. r = [word |-> r.word, key |-> r.key, origin |-> r.origin, shown |-> r.shown,
           choice |-> r.choice, edited |-> r.edited, removed |-> r.removed,
           replaces |-> r.replaces, made |-> r.made, job |-> r.job, text |-> r.text,
           facts |-> r.facts, score |-> r.score, polish |-> r.polish,
           reverted |-> r.reverted, section |-> r.section]
  BY DEF Fields
<1> QED BY <1>1 DEF RowTypes, PhraseRow, SectionNames

(* A row is its sixteen fields, each of its type.                          *)
LEMMA RowsAre ==
  ASSUME NEW o \in PhraseRow
  PROVE  o = [f \in Fields |-> o[f]] /\ RowTypes(o)
BY DEF PhraseRow, Fields, RowTypes, SectionNames

(* A phrase written anew.                                                  *)
IsRewritten(r, o, occ, section, drop) ==
    /\ r \in PhraseRow
    /\ r.text = occ.text /\ r.facts = occ.facts /\ r.score = occ.score
    /\ r.section = section
    /\ r.polish = IF drop THEN NoText ELSE o.polish
    /\ r.reverted = IF drop THEN FALSE ELSE o.reverted
    /\ r.made = IF drop THEN o.made \ {"speech"} ELSE o.made
    /\ \A f \in Fields \ Written : r[f] = o[f]

(* A phrase written anew: what the analysis found, and without the polish  *)
(* if that is dropped.                                                     *)
LEMMA RewrittenIs ==
  ASSUME NEW o \in PhraseRow, NEW occ \in Found,
         NEW section \in SectionNames, NEW drop \in BOOLEAN,
         NEW r, r = Rewritten(o, occ, section, drop)
  PROVE  IsRewritten(r, o, occ, section, drop)
<1> DEFINE polish == IF drop THEN NoText ELSE o.polish
           reverted == IF drop THEN FALSE ELSE o.reverted
           made == IF drop THEN o.made \ {"speech"} ELSE o.made
<1>1. /\ occ.text \in Texts /\ occ.facts \in Nat /\ occ.score \in Nat
  BY DEF Found
<1>2. polish \in Texts \cup {NoText} /\ reverted \in BOOLEAN
      /\ made \in SUBSET {"meaning", "speech"}
  BY DEF PhraseRow
<1>3. r = [o EXCEPT !.text = occ.text, !.facts = occ.facts, !.score = occ.score,
                    !.section = section, !.polish = polish, !.reverted = reverted, !.made = made]
  <2>1. o.polish = o.polish
    OBVIOUS
  <2> QED BY DEF Rewritten
<1> HIDE DEF polish, reverted, made
<1>5. /\ r.text = occ.text /\ r.facts = occ.facts /\ r.score = occ.score
      /\ r.section = section /\ r.polish = polish /\ r.reverted = reverted /\ r.made = made
  BY <1>3 DEF PhraseRow
<1>6. \A f \in Fields \ Written : r[f] = o[f]
  BY <1>3 DEF PhraseRow, Fields, Written
<1>7. r \in PhraseRow
  <2>1. o = [f \in Fields |-> o[f]] /\ RowTypes(o)
    BY RowsAre
  <2>2. r = [f \in Fields |-> r[f]]
    BY <1>3, <2>1 DEF Fields
  <2>3. RowTypes(r)
    BY <1>1, <1>2, <1>5, <1>6, <2>1 DEF RowTypes, Fields, Written
  <2> QED BY <2>2, <2>3, RowFrom
<1> QED BY <1>7, <1>5, <1>6 DEF polish, reverted, made, IsRewritten

-----------------------------------------------------------------------------
(* The selection.                                                          *)

(* A non-empty finite set of naturals has a greatest member: of the sets   *)
(* "what lies above n", one has no smaller one beside it, and it is empty. *)
LEMMA MaxExists ==
  ASSUME NEW S \in SUBSET Nat, IsFiniteSet(S), S # {}
  PROVE  \E m \in S : \A k \in S : k <= m
<1> DEFINE Above(n) == {k \in S : k > n}
           Aboves == {Above(n) : n \in S}
<1>1. Aboves \subseteq FiniteSubsetsOf(S) /\ Aboves # {}
  <2>1. ASSUME NEW n \in S PROVE Above(n) \in FiniteSubsetsOf(S)
    <3>1. Above(n) \in SUBSET S
      OBVIOUS
    <3>2. IsFiniteSet(Above(n))
      BY <3>1, FS_Subset
    <3> QED BY <3>1, <3>2 DEF FiniteSubsetsOf
  <2> HIDE DEF Above
  <2> QED BY <2>1
<1>2. PICK U \in Aboves : \A V \in Aboves : <<V, U>> \notin StrictSubsetOrdering(S)
  <2> HIDE DEF Aboves
  <2> QED BY <1>1, FS_StrictSubsetOrderingWellFounded, WFMin
<1>3. PICK m \in S : U = Above(m)
  <2> HIDE DEF Above
  <2> QED OBVIOUS
<1>4. ASSUME NEW k \in S, k > m PROVE FALSE
  <2>0. k \in Nat /\ m \in Nat /\ S \subseteq Nat
    OBVIOUS
  <2>1. \A j \in Nat : j > k => j > m
    BY <2>0, <1>4
  <2>2. Above(k) \subseteq Above(m)
    BY <2>0, <2>1
  <2>3. k \in Above(m) /\ k \notin Above(k)
    BY <1>4, <2>0
  <2>4. <<Above(k), Above(m)>> \in StrictSubsetOrdering(S)
    <3>1. Above(k) \in SUBSET S /\ Above(m) \in SUBSET S
      OBVIOUS
    <3> HIDE DEF Above
    <3> QED BY <2>2, <2>3, <3>1 DEF StrictSubsetOrdering
  <2>5. Above(k) \in Aboves
    OBVIOUS
  <2> HIDE DEF Above, Aboves
  <2> QED BY <2>4, <2>5, <1>2, <1>3
<1>5. \A k \in S : ~(k > m)
  BY <1>4
<1> QED BY <1>5

(* A non-empty finite set of naturals has a least member: its mirror image *)
(* below its greatest member has a greatest one.                           *)
LEMMA MinExists ==
  ASSUME NEW S \in SUBSET Nat, IsFiniteSet(S), S # {}
  PROVE  \E m \in S : \A k \in S : m <= k
<1>1. PICK top \in S : \A k \in S : k <= top
  BY MaxExists
<1> DEFINE Mirror == {n \in 0 .. top : top - n \in S}
<1>2. Mirror \in SUBSET Nat /\ IsFiniteSet(Mirror)
  <2>1. IsFiniteSet(0 .. top)
    BY FS_Interval
  <2> QED BY <2>1, FS_Subset
<1>3. \A k \in S : top - k \in Mirror /\ top - (top - k) = k
  BY <1>1
<1>4. PICK n \in Mirror : \A j \in Mirror : j <= n
  <2>1. Mirror # {}
    BY <1>3
  <2> HIDE DEF Mirror
  <2> QED BY <1>2, <2>1, MaxExists
<1>5. \A k \in S : top - n <= k
  BY <1>3, <1>4, <1>1
<1> QED BY <1>4, <1>5

(* Of three numbers before three others.                                   *)
LEMMA ReadFirstIs ==
  ASSUME NEW a1 \in Int, NEW a2 \in Int, NEW a3 \in Int,
         NEW b1 \in Int, NEW b2 \in Int, NEW b3 \in Int
  PROVE  ReadFirst(<<a1, a2, a3>>, <<b1, b2, b3>>) <=>
            a1 < b1 \/ (a1 = b1 /\ (a2 < b2 \/ (a2 = b2 /\ a3 < b3)))
<1> DEFINE a == <<a1, a2, a3>>
           b == <<b1, b2, b3>>
<1>1. /\ DOMAIN a = {1, 2, 3}
      /\ a[1] = a1 /\ a[2] = a2 /\ a[3] = a3 /\ b[1] = b1 /\ b[2] = b2 /\ b[3] = b3
  <2>1. 1 .. 3 = {1, 2, 3}
    OBVIOUS
  <2> QED BY <2>1
<1> HIDE DEF a, b
<1>2. ReadFirst(a, b) <=> \E i \in {1, 2, 3} : a[i] < b[i] /\ \A j \in 1 .. i - 1 : a[j] = b[j]
  BY <1>1 DEF ReadFirst
<1>3. (\A j \in 1 .. 1 - 1 : a[j] = b[j]) <=> TRUE
  OBVIOUS
<1>4. (\A j \in 1 .. 2 - 1 : a[j] = b[j]) <=> a[1] = b[1]
  <2>1. 1 .. 2 - 1 = {1}
    OBVIOUS
  <2> QED BY <2>1
<1>5. (\A j \in 1 .. 3 - 1 : a[j] = b[j]) <=> a[1] = b[1] /\ a[2] = b[2]
  <2>1. 1 .. 3 - 1 = {1, 2}
    OBVIOUS
  <2> QED BY <2>1
<1>6. ReadFirst(a, b) <=> a[1] < b[1] \/ (a[2] < b[2] /\ a[1] = b[1])
                          \/ (a[3] < b[3] /\ a[1] = b[1] /\ a[2] = b[2])
  BY <1>2, <1>3, <1>4, <1>5
<1>7. ReadFirst(a, b) <=> a1 < b1 \/ (a1 = b1 /\ (a2 < b2 \/ (a2 = b2 /\ a3 < b3)))
  BY <1>1, <1>6
<1> QED BY <1>7 DEF a, b

(* Phrases the selection can choose among.                                 *)
Selectable(rows) ==
    /\ \A i \in DOMAIN rows : /\ rows[i] \in PhraseRow
                              /\ rows[i].origin = "auto" => rows[i].key \in Keys
    /\ \A i, j \in DOMAIN rows :
          rows[i].origin = "auto" /\ rows[j].origin = "auto" /\ rows[i].key = rows[j].key => i = j
    /\ \A i, j \in DOMAIN rows :
          rows[i].shown = "selection" /\ rows[j].shown = "selection" => i = j

(* A key is a line and a character, and is not the lack of a place.        *)
LEMMA KeysAre ==
  ASSUME NEW k \in Keys
  PROVE  k[1] \in 1 .. 9 /\ k[2] \in 1 .. 9 /\ k = <<k[1], k[2]>> /\ k # Unplaced
<1>1. k \in Lines \X Chars
  BY DEF Keys
<1>2. k[1] \in Lines /\ k[2] \in Chars /\ k = <<k[1], k[2]>>
  BY <1>1
<1>3. k[1] \in 1 .. 9 /\ k[2] \in 1 .. 9
  BY <1>2, SourceWordsAssumption
<1>4. k # Unplaced
  <2>1. \A a, b : <<a, b>> # <<>>
    <3> TAKE a, b
    <3>1. 1 \in DOMAIN <<a, b>> /\ 1 \notin DOMAIN <<>>
      OBVIOUS
    <3> QED BY <3>1
  <2> QED BY <1>2, <2>1, Zenon DEF Unplaced
<1> QED BY <1>2, <1>3, <1>4

(* The best of some phrases: there is one, and no other.                   *)
LEMMA BestIs ==
  ASSUME NEW rows, NEW ids, ids \subseteq DOMAIN rows, NEW known,
         \A i \in ids : rows[i] \in PhraseRow /\ rows[i].key \in Keys,
         \A i, j \in ids : rows[i].key = rows[j].key => i = j
  PROVE  /\ Best(rows, ids, known) \subseteq ids
         /\ \A i, j \in Best(rows, ids, known) : i = j
         /\ IsFiniteSet(ids) /\ ids # {} => Best(rows, ids, known) # {}
<1> DEFINE s(i) == ScoreNow(rows[i], known)
           x(i) == rows[i].key[1]
           y(i) == rows[i].key[2]
           Before(i, j) == s(i) < s(j) \/ (s(i) = s(j) /\ (x(i) < x(j) \/ (x(i) = x(j) /\ y(i) < y(j))))
<1>1. \A i \in ids : s(i) \in Nat /\ x(i) \in 1 .. 9 /\ y(i) \in 1 .. 9
  <2> TAKE i \in ids
  <2>1. rows[i].score \in Nat
    BY RowsAre DEF RowTypes
  <2>2. s(i) \in Nat
    BY <2>1 DEF ScoreNow
  <2> QED BY <2>2, KeysAre
<1>2. \A i, j \in ids : ReadFirst(Rank(rows[i], known), Rank(rows[j], known)) <=> Before(i, j)
  <2> TAKE i, j \in ids
  <2>1. /\ Rank(rows[i], known) = <<s(i), x(i), y(i)>>
        /\ Rank(rows[j], known) = <<s(j), x(j), y(j)>>
    BY DEF Rank
  <2>2. /\ s(i) \in Int /\ x(i) \in Int /\ y(i) \in Int
        /\ s(j) \in Int /\ x(j) \in Int /\ y(j) \in Int
    BY <1>1
  <2> HIDE DEF s, x, y
  <2> QED BY <2>1, <2>2, ReadFirstIs
<1>3. \A i, j \in ids : x(i) = x(j) /\ y(i) = y(j) => i = j
  BY KeysAre
<1> DEFINE B == Best(rows, ids, known)
<1>4. B = {i \in ids : \A j \in ids \ {i} : ~Before(j, i)}
  BY <1>2 DEF Best
<1> HIDE DEF s, x, y, B
<1>5. \A i, j \in B : i = j
  <2> SUFFICES ASSUME NEW i \in B, NEW j \in B, i # j PROVE FALSE
    OBVIOUS
  <2>1. i \in ids /\ j \in ids /\ ~Before(j, i) /\ ~Before(i, j)
    BY <1>4
  <2>2. x(i) = x(j) /\ y(i) = y(j)
    BY <1>1, <2>1
  <2> QED BY <1>3, <2>1, <2>2
<1>6. ASSUME IsFiniteSet(ids), ids # {} PROVE B # {}
  <2> DEFINE m(i) == 100 * s(i) + 10 * x(i) + y(i)
             f == [i \in ids |-> m(i)]
             M == {m(i) : i \in ids}
  <2>1. \A i \in ids : m(i) \in Nat
    BY <1>1
  <2>2. IsFiniteSet(M)
    <3>1. f \in [ids -> M] /\ \A b \in M : \E d \in ids : f[d] = b
      OBVIOUS
    <3> HIDE DEF f, M
    <3>2. f \in Surjection(ids, M)
      BY <3>1, Fun_IsSurj
    <3> QED BY <1>6, <3>2, FS_Surjection
  <2>3. M \in SUBSET Nat /\ M # {}
    BY <1>6, <2>1
  <2>4. \E n \in M : \A k \in M : n <= k
    <3> HIDE DEF M
    <3> QED BY <2>2, <2>3, MinExists
  <2>5. PICK i \in ids : \A j \in ids : m(i) <= m(j)
    BY <2>4
  <2>6. \A j \in ids : ~Before(j, i)
    <3> TAKE j \in ids
    <3>1. m(i) <= m(j)
      BY <2>5
    <3> QED BY <1>1, <3>1
  <2>7. i \in B
    <3> HIDE DEF m, Before
    <3> QED BY <1>4, <2>6
  <2> QED BY <2>7
<1> QED BY <1>4, <1>5, <1>6 DEF B

(* The phrases marked as the selection.                                    *)
Marked(rows) == {i \in DOMAIN rows : rows[i].shown = "selection"}

(* What the selection makes of the marks of a word (select_phrases).       *)
SelectionFits(rows, decided, c, kept) ==
    /\ c.clear \subseteq Marked(rows) /\ c.set \cap Marked(rows) = {}
    /\ c.set \subseteq DOMAIN rows /\ \A i \in c.set : MaySelect(rows[i])
    /\ \A i, j \in kept \cup c.set : i = j
    /\ decided => c.set = {} /\ c.clear = {}
    /\ ~decided /\ (\E i \in DOMAIN rows : rows[i].shown = "user" /\ rows[i].replaces)
          => c.set = {} /\ \A i \in kept : IsFrozen(rows[i])
    /\ \A i \in c.clear : ~IsFrozen(rows[i])
    /\ IsFiniteSet(DOMAIN rows) /\ ~decided /\ kept \cup c.set = {}
          => \/ \E i \in DOMAIN rows : rows[i].shown = "user"
             \/ \E i \in c.clear : rows[i].replaces
             \/ \A i \in DOMAIN rows : ~MaySelect(rows[i])

(* The selection leaves one mark at most, on the best phrase it may        *)
(* choose, and none beside a card that stands for it.                      *)
LEMMA SelectionIs ==
  ASSUME NEW rows, Selectable(rows), NEW decided \in BOOLEAN, NEW known,
         NEW c, c = Selection(rows, decided, known),
         NEW kept, kept = Marked(rows) \ c.clear
  PROVE  SelectionFits(rows, decided, c, kept)
<1> DEFINE marked == Marked(rows)
           frozen == {i \in marked : IsFrozen(rows[i])}
           replaced == \E i \in DOMAIN rows : IsShown(rows[i]) /\ rows[i].replaces
           may == {i \in DOMAIN rows : MaySelect(rows[i])}
           best == Best(rows, may, known)
           chosen == CASE frozen # {}             -> frozen
                       [] frozen = {} /\ replaced -> {}
                       [] OTHER -> best
<1>1. c = IF decided THEN [set |-> {}, clear |-> {}]
          ELSE [set |-> chosen \ marked, clear |-> marked \ chosen]
  BY DEF Selection, Marked
<1>2. /\ best \subseteq may /\ \A i, j \in best : i = j
      /\ IsFiniteSet(may) /\ may # {} => best # {}
  <2>1. /\ may \subseteq DOMAIN rows
        /\ \A i \in may : rows[i] \in PhraseRow /\ rows[i].key \in Keys
        /\ \A i, j \in may : rows[i].key = rows[j].key => i = j
    BY DEF Selectable, MaySelect
  <2> HIDE DEF may
  <2> QED BY <2>1, BestIs
<1>3. may \subseteq DOMAIN rows /\ marked \subseteq DOMAIN rows /\ frozen \subseteq marked
      /\ \A i, j \in marked : i = j
  BY DEF Selectable, Marked
<1>4. \A i \in DOMAIN rows : rows[i].shown \in {"none", "selection", "user"}
  BY RowsAre DEF Selectable, RowTypes
<1>5. CASE decided
  <2>1. c.set = {} /\ c.clear = {}
    BY <1>1, <1>5
  <2> QED BY <1>3, <1>5, <2>1 DEF SelectionFits
<1>6. CASE ~decided
  <2>1. c.set = chosen \ marked /\ c.clear = marked \ chosen
    BY <1>1, <1>6
  <2>2. kept = marked \cap chosen
    BY <2>1
  <2> HIDE DEF best
  <2>3. CASE frozen # {}
    <3>1. chosen = frozen
      BY <2>3
    <3>2. c.set = {} /\ kept = frozen /\ c.clear = marked \ frozen
      BY <1>3, <2>1, <2>2, <3>1
    <3> QED BY <1>3, <1>6, <2>3, <3>2 DEF SelectionFits
  <2>4. CASE frozen = {} /\ replaced
    <3>1. c.set = {} /\ kept = {} /\ c.clear = marked
      BY <2>1, <2>2, <2>4
    <3>2. \/ \E i \in DOMAIN rows : rows[i].shown = "user"
          \/ \E i \in marked : rows[i].replaces
      BY <1>4, <2>4 DEF IsShown, Marked
    <3> QED BY <1>3, <1>6, <2>4, <3>1, <3>2 DEF SelectionFits
  <2>5. CASE frozen = {} /\ ~replaced
    <3>1. chosen = best
      BY <2>5
    <3>2. /\ ~\E i \in DOMAIN rows : rows[i].shown = "user" /\ rows[i].replaces
      BY <2>5 DEF IsShown
    <3>3. kept \cup c.set = best
      BY <1>3, <2>1, <2>2, <3>1
    <3>4. \A i \in best : MaySelect(rows[i])
      BY <1>2
    <3>5. IsFiniteSet(DOMAIN rows) /\ best = {} => \A i \in DOMAIN rows : ~MaySelect(rows[i])
      <4>1. IsFiniteSet(DOMAIN rows) => IsFiniteSet(may)
        BY <1>3, FS_Subset
      <4> QED BY <1>2, <4>1
    <3>6. \A i \in c.clear : ~IsFrozen(rows[i])
      BY <2>1, <2>5
    <3> HIDE DEF marked, may, frozen, replaced
    <3> QED BY <1>2, <1>3, <1>6, <2>1, <3>1, <3>2, <3>3, <3>4, <3>5, <3>6 DEF marked, SelectionFits
  <2> QED BY <2>3, <2>4, <2>5
<1> QED BY <1>5, <1>6

-----------------------------------------------------------------------------
(* Stray phrases find their places again.                                  *)

(* A stray phrase is found again at one free place at most.                *)
LEMMA FoundAgainIs ==
  ASSUME NEW o, o.key \in Keys, NEW at, NEW free, free \subseteq Keys
  PROVE  /\ FoundAgain(o, at, free) \subseteq free
         /\ \A k, l \in FoundAgain(o, at, free) : k = l
<1> DEFINE same == {k \in free : k[1] = o.key[1] /\ at[k].text = o.text}
           a(k) == IF at[k].facts = o.facts THEN 0 ELSE 1
           b(k) == Apart(k[2], o.key[2])
           far(k) == <<a(k), b(k), k[2]>>
           F == FoundAgain(o, at, free)
<1>1. F = {k \in same : \A l \in same \ {k} : ReadFirst(far(k), far(l))}
  BY DEF FoundAgain
<1>2. \A k \in same : a(k) \in Int /\ b(k) \in Int /\ k[2] \in Int
  <2> TAKE k \in same
  <2>1. k[2] \in 1 .. 9 /\ o.key[2] \in 1 .. 9
    BY KeysAre
  <2>2. a(k) \in Int
    OBVIOUS
  <2>3. \A x, y \in Int : Apart(x, y) \in Int
    BY DEF Apart
  <2>4. k[2] \in Int /\ o.key[2] \in Int
    BY <2>1
  <2>5. b(k) \in Int
    BY <2>3, <2>4
  <2> HIDE DEF a, b
  <2> QED BY <2>2, <2>4, <2>5
<1> HIDE DEF F
<1>3. ASSUME NEW k \in F, NEW l \in F, k # l PROVE FALSE
  <2>1. k \in same /\ l \in same /\ ReadFirst(far(k), far(l)) /\ ReadFirst(far(l), far(k))
    <3> HIDE DEF far, same
    <3> QED BY <1>1, <1>3
  <2>2. /\ a(k) \in Int /\ b(k) \in Int /\ k[2] \in Int
        /\ a(l) \in Int /\ b(l) \in Int /\ l[2] \in Int
    BY <1>2, <2>1
  <2> HIDE DEF a, b, same
  <2>3. /\ a(k) < a(l) \/ (a(k) = a(l) /\ (b(k) < b(l) \/ (b(k) = b(l) /\ k[2] < l[2])))
        /\ a(l) < a(k) \/ (a(l) = a(k) /\ (b(l) < b(k) \/ (b(l) = b(k) /\ l[2] < k[2])))
    BY <2>1, <2>2, ReadFirstIs
  <2> QED BY <2>2, <2>3
<1> QED BY <1>1, <1>3 DEF F

(* The keys phrases stand at.                                              *)
Held(rows) == {rows[i].key : i \in DOMAIN rows}

(* The phrases whose places are gone.                                      *)
Strays(rows, at) == {i \in DOMAIN rows : /\ rows[i].origin = "auto"
                                         /\ rows[i].key # Unplaced
                                         /\ rows[i].key \notin DOMAIN at}

(* The moves of the phrases older than one.                                *)
Older(moves, i) == {m[2] : m \in {n \in moves : n[1] < i}}

(* The places these leave to it.                                           *)
LeftTo(rows, at, moves, i) == DOMAIN at \ (Held(rows) \cup Older(moves, i))

(* The moves of one phrase.                                                *)
MovesOf(rows, at, moves, i) ==
    {<<i, k>> : k \in FoundAgain(rows[i], at, LeftTo(rows, at, moves, i))}

(* The moves of the phrases older than n.                                  *)
MovesTo(rows, at, moves, n) ==
    /\ moves \in SUBSET (Strays(rows, at) \X (DOMAIN at \ Held(rows)))
    /\ \A m \in moves : m[1] < n
    /\ \A i \in Strays(rows, at) :
          i < n => {m \in moves : m[1] = i} = MovesOf(rows, at, moves, i)

(* The oldest one first, each phrase finds its place: there are such moves.*)
LEMMA MovesExist ==
  ASSUME NEW N \in Nat, NEW rows, DOMAIN rows \subseteq 1 .. N, NEW at,
         DOMAIN at \subseteq Keys, \A i \in Strays(rows, at) : rows[i].key \in Keys
  PROVE  \E moves : MovesTo(rows, at, moves, N + 1)
<1> DEFINE S == {n \in 0 .. N + 1 : ~\E moves : MovesTo(rows, at, moves, n)}
           strays == Strays(rows, at)
           D == DOMAIN at \ Held(rows)
<1>1. \A i \in strays : i \in 1 .. N
  BY DEF Strays
<1>2. MovesTo(rows, at, {}, 0)
  BY <1>1 DEF MovesTo
<1>3. ASSUME NEW n \in 0 .. N, NEW moves, MovesTo(rows, at, moves, n)
      PROVE  \E more : MovesTo(rows, at, more, n + 1)
  <2>1. /\ moves \in SUBSET (strays \X D) /\ \A m \in moves : m[1] < n
        /\ \A i \in strays : i < n => {m \in moves : m[1] = i} = MovesOf(rows, at, moves, i)
    BY <1>3 DEF MovesTo
  <2>2. CASE n \notin strays
    <3>1. MovesTo(rows, at, moves, n + 1)
      <4>1. \A m \in moves : m[1] \in 1 .. N /\ m[1] < n + 1
        BY <1>1, <2>1
      <4>2. \A i \in strays : i < n + 1 => i < n
        BY <1>1, <2>2
      <4> QED BY <2>1, <4>1, <4>2 DEF MovesTo
    <3> QED BY <3>1
  <2>3. CASE n \in strays
    <3> DEFINE new == MovesOf(rows, at, moves, n)
               more == moves \cup new
    <3>1. FoundAgain(rows[n], at, LeftTo(rows, at, moves, n)) \subseteq LeftTo(rows, at, moves, n)
      <4>1. LeftTo(rows, at, moves, n) \subseteq Keys
        BY DEF LeftTo
      <4> QED BY <2>3, <4>1, FoundAgainIs
    <3>2. \A m \in new : m \in strays \X D /\ m[1] = n
      BY <2>3, <3>1 DEF MovesOf, LeftTo
    <3>3. more \in SUBSET (strays \X D)
      BY <2>1, <3>2
    <3> HIDE DEF new
    <3>4. \A m \in more : m[1] \in 1 .. N /\ m[1] < n + 1
      BY <1>1, <2>1, <3>2
    <3>5. ASSUME NEW i \in strays, i < n + 1
          PROVE  {m \in more : m[1] = i} = MovesOf(rows, at, more, i)
      <4>1. i \in 1 .. N /\ i <= n
        BY <1>1, <3>5
      <4>2. {m \in more : m[1] < i} = {m \in moves : m[1] < i}
        BY <3>2, <4>1
      <4>3. MovesOf(rows, at, more, i) = MovesOf(rows, at, moves, i)
        <5>1. Older(more, i) = Older(moves, i)
          BY <4>2, Zenon DEF Older
        <5> QED BY <5>1, Zenon DEF MovesOf, LeftTo
      <4>4. CASE i = n
        <5>1. {m \in more : m[1] = i} = new
          BY <2>1, <3>2, <4>1, <4>4
        <5> QED BY <4>3, <4>4, <5>1 DEF new
      <4>5. CASE i # n
        <5>1. {m \in more : m[1] = i} = {m \in moves : m[1] = i}
          BY <3>2, <4>5
        <5>2. i < n
          BY <4>1, <4>5
        <5> QED BY <2>1, <4>3, <5>1, <5>2
      <4> QED BY <4>4, <4>5
    <3>6. MovesTo(rows, at, more, n + 1)
      <4> HIDE DEF more
      <4> QED BY <3>3, <3>4, <3>5 DEF MovesTo
    <3> QED BY <3>6
  <2> QED BY <2>2, <2>3
<1>4. ASSUME N + 1 \in S PROVE FALSE
  <2>1. PICK n \in S : \A k \in S : n <= k
    <3>1. S \in SUBSET Nat /\ IsFiniteSet(S) /\ S # {}
      <4>1. IsFiniteSet(0 .. N + 1)
        BY FS_Interval
      <4> QED BY <1>4, <4>1, FS_Subset
    <3> HIDE DEF S
    <3> QED BY <3>1, MinExists
  <2>2. n \in 0 .. N + 1 /\ ~\E moves : MovesTo(rows, at, moves, n)
    BY <2>1
  <2>3. n # 0
    BY <1>2, <2>2
  <2>4. n - 1 \in 0 .. N /\ n - 1 \notin S /\ (n - 1) + 1 = n
    BY <2>1, <2>2, <2>3
  <2>5. PICK moves : MovesTo(rows, at, moves, n - 1)
    <3>1. n - 1 \in 0 .. N + 1
      BY <2>4
    <3> QED BY <2>4, <3>1
  <2>6. \E more : MovesTo(rows, at, more, (n - 1) + 1)
    <3> HIDE DEF S
    <3> QED BY <1>3, <2>4, <2>5
  <2> QED BY <2>2, <2>4, <2>6
<1>5. N + 1 \in 0 .. N + 1
  OBVIOUS
<1> QED BY <1>4, <1>5

(* The keys phrases move to: a stray phrase moves to one place at most, a  *)
(* free one, and no two to the same.                                       *)
LEMMA MovedAre ==
  ASSUME NEW N \in Nat, NEW rows, DOMAIN rows \subseteq 1 .. N, NEW at,
         DOMAIN at \subseteq Keys, \A i \in Strays(rows, at) : rows[i].key \in Keys,
         NEW moved, moved = MovedKeys(rows, at)
  PROVE  /\ moved \subseteq Strays(rows, at) \X (DOMAIN at \ Held(rows))
         /\ \A m, n \in moved : m[1] = n[1] \/ m[2] = n[2] => m = n
<1> DEFINE strays == Strays(rows, at)
           D == DOMAIN at \ Held(rows)
           Moves(moves) == \A i \in strays : {m \in moves : m[1] = i} = MovesOf(rows, at, moves, i)
<1>1. moved = CHOOSE moves \in SUBSET (strays \X D) : Moves(moves)
  BY Zenon DEF MovedKeys, Strays, Held, MovesOf, LeftTo, Older
<1>2. \A i \in strays : i \in 1 .. N
  BY DEF Strays
<1>3. \E moves \in SUBSET (strays \X D) : Moves(moves)
  <2>1. PICK moves : MovesTo(rows, at, moves, N + 1)
    BY MovesExist
  <2>2. \A i \in strays : i < N + 1
    BY <1>2
  <2> QED BY <2>1, <2>2 DEF MovesTo
<1>4. moved \in SUBSET (strays \X D) /\ Moves(moved)
  <2> HIDE DEF Moves, strays, D
  <2> QED BY <1>1, <1>3
<1>5. ASSUME NEW m \in moved
      PROVE  /\ m[1] \in strays /\ m[2] \in D /\ m = <<m[1], m[2]>>
             /\ m[2] \in FoundAgain(rows[m[1]], at, LeftTo(rows, at, moved, m[1]))
  <2>1. m[1] \in strays /\ m[2] \in D /\ m = <<m[1], m[2]>>
    BY <1>4
  <2>2. m \in MovesOf(rows, at, moved, m[1])
    BY <1>4, <2>1
  <2>3. m[2] \in FoundAgain(rows[m[1]], at, LeftTo(rows, at, moved, m[1]))
    BY <2>1, <2>2 DEF MovesOf
  <2> QED BY <2>1, <2>3
<1>6. \A i \in strays : LET F == FoundAgain(rows[i], at, LeftTo(rows, at, moved, i))
                        IN  F \subseteq LeftTo(rows, at, moved, i) /\ \A k, l \in F : k = l
  <2> TAKE i \in strays
  <2>1. LeftTo(rows, at, moved, i) \subseteq Keys
    BY DEF LeftTo
  <2> QED BY <2>1, FoundAgainIs
<1>7. ASSUME NEW m \in moved, NEW n \in moved, m[1] = n[1] PROVE m = n
  BY <1>5, <1>6, <1>7
<1>8. ASSUME NEW m \in moved, NEW n \in moved, m[1] < n[1] PROVE m[2] # n[2]
  <2>1. n[2] \in LeftTo(rows, at, moved, n[1])
    BY <1>5, <1>6
  <2>2. m[2] \in Older(moved, n[1])
    BY <1>8 DEF Older
  <2> QED BY <2>1, <2>2 DEF LeftTo
<1>9. ASSUME NEW m \in moved, NEW n \in moved, m[2] = n[2] PROVE m = n
  <2>1. m[1] \in 1 .. N /\ n[1] \in 1 .. N
    BY <1>2, <1>5
  <2>2. ~(m[1] < n[1]) /\ ~(n[1] < m[1])
    BY <1>8, <1>9
  <2>3. m[1] = n[1]
    BY <2>1, <2>2
  <2> QED BY <1>7, <2>3
<1> QED BY <1>4, <1>7, <1>9

-----------------------------------------------------------------------------
(* The phrases of a word as a plan leaves them.                            *)

(* The rows of a word as they are stored.                                  *)
RowsFit(rows, N) == Selectable(rows) /\ DOMAIN rows \subseteq 1 .. N

(* The rows of a word with the stray ones found again.                     *)
PlacedFits(placed, rows, at, moved) ==
    /\ DOMAIN placed = DOMAIN rows
    /\ \A i \in DOMAIN rows :
          /\ placed[i] \in PhraseRow /\ \A f \in Fields \ {"key"} : placed[i][f] = rows[i][f]
          /\ i \in Ids(moved) =>
                /\ placed[i].key = To(moved, i) /\ To(moved, i) \in DOMAIN at \ Held(rows)
                /\ placed[i] = [rows[i] EXCEPT !.key = To(moved, i)]
          /\ i \notin Ids(moved) => placed[i] = rows[i]
    /\ Selectable(placed)

(* The moves keep the phrases apart: no two phrases of a word come to      *)
(* stand at one key.                                                       *)
LEMMA PlacedAre ==
  ASSUME NEW N \in Nat, NEW rows, RowsFit(rows, N), NEW at, DOMAIN at \subseteq Keys,
         NEW moved, moved = MovedKeys(rows, at), NEW placed, placed = Rekey(rows, moved)
  PROVE  PlacedFits(placed, rows, at, moved)
<1>0. \A i \in Strays(rows, at) : rows[i].key \in Keys
  BY DEF RowsFit, Selectable, Strays
<1>1. /\ moved \subseteq Strays(rows, at) \X (DOMAIN at \ Held(rows))
      /\ \A m, n \in moved : m[1] = n[1] \/ m[2] = n[2] => m = n
  BY <1>0, MovedAre DEF RowsFit
<1>2. ASSUME NEW i \in Ids(moved)
      PROVE  /\ <<i, To(moved, i)>> \in moved /\ i \in DOMAIN rows
             /\ To(moved, i) \in DOMAIN at \ Held(rows)
  <2>1. PICK m \in moved : m[1] = i
    BY DEF Ids
  <2>2. DEFINE c == CHOOSE c \in moved : c[1] = i
  <2>3. c \in moved /\ c[1] = i
    BY <2>1
  <2>4. To(moved, i) = c[2]
    BY DEF To
  <2> HIDE DEF c
  <2>5. c = <<c[1], c[2]>> /\ c[1] \in Strays(rows, at) /\ c[2] \in DOMAIN at \ Held(rows)
    BY <1>1, <2>3
  <2> QED BY <2>3, <2>4, <2>5 DEF Strays
<1>3. placed = [i \in DOMAIN rows |-> IF i \in Ids(moved)
                                      THEN [rows[i] EXCEPT !.key = To(moved, i)] ELSE rows[i]]
  BY DEF Rekey
<1>4. ASSUME NEW i \in DOMAIN rows
      PROVE  /\ placed[i] \in PhraseRow /\ \A f \in Fields \ {"key"} : placed[i][f] = rows[i][f]
             /\ i \in Ids(moved) => /\ placed[i].key = To(moved, i)
                                    /\ placed[i] = [rows[i] EXCEPT !.key = To(moved, i)]
             /\ i \notin Ids(moved) => placed[i] = rows[i]
  <2>1. rows[i] \in PhraseRow
    BY DEF RowsFit, Selectable
  <2>2. CASE i \in Ids(moved)
    <3> DEFINE k == To(moved, i)
               o == rows[i]
    <3>1. placed[i] = [o EXCEPT !.key = k]
      BY <1>3, <2>2
    <3>2. k \in Keys
      BY <1>2, <2>2
    <3> HIDE DEF k, o
    <3>3. o \in PhraseRow
      BY <2>1 DEF o
    <3>4. /\ [o EXCEPT !.key = k] \in PhraseRow
          /\ [o EXCEPT !.key = k].key = k
          /\ \A f \in Fields \ {"key"} : [o EXCEPT !.key = k][f] = o[f]
      BY <3>2, <3>3 DEF PhraseRow, Fields
    <3> QED BY <2>2, <3>1, <3>4 DEF k, o
  <2>3. CASE i \notin Ids(moved)
    BY <1>3, <2>1, <2>3
  <2> QED BY <2>2, <2>3
<1>5. Selectable(placed)
  <2>1. \A i \in DOMAIN rows : /\ placed[i].origin = rows[i].origin /\ placed[i].shown = rows[i].shown
    BY <1>4 DEF Fields
  <2>2. ASSUME NEW i \in DOMAIN rows, placed[i].origin = "auto" PROVE placed[i].key \in Keys
    <3>1. CASE i \in Ids(moved)
      <4>1. placed[i].key \in DOMAIN at
        BY <1>2, <1>4, <3>1
      <4> QED BY <4>1
    <3>2. CASE i \notin Ids(moved)
      <4>1. placed[i] = rows[i] /\ rows[i].origin = "auto"
        BY <1>4, <2>1, <2>2, <3>2
      <4> QED BY <4>1 DEF RowsFit, Selectable
    <3> QED BY <3>1, <3>2
  <2>3. ASSUME NEW i \in DOMAIN rows, NEW j \in DOMAIN rows, placed[i].origin = "auto",
               placed[j].origin = "auto", placed[i].key = placed[j].key
        PROVE  i = j
    <3>1. CASE i \notin Ids(moved) /\ j \notin Ids(moved)
      <4>1. placed[i] = rows[i] /\ placed[j] = rows[j]
        BY <1>4, <3>1
      <4> QED BY <2>3, <4>1 DEF RowsFit, Selectable
    <3>2. CASE i \in Ids(moved) /\ j \in Ids(moved)
      <4>1. <<i, To(moved, i)>> \in moved /\ <<j, To(moved, j)>> \in moved
        BY <1>2, <3>2
      <4>2. To(moved, i) = To(moved, j)
        BY <1>4, <2>3, <3>2
      <4> QED BY <1>1, <4>1, <4>2
    <3>3. CASE i \in Ids(moved) /\ j \notin Ids(moved)
      <4>1. placed[i].key \notin Held(rows) /\ placed[j].key = rows[j].key
        BY <1>2, <1>4, <3>3
      <4> QED BY <2>3, <4>1 DEF Held
    <3>4. CASE i \notin Ids(moved) /\ j \in Ids(moved)
      <4>1. placed[j].key \notin Held(rows) /\ placed[i].key = rows[i].key
        BY <1>2, <1>4, <3>4
      <4> QED BY <2>3, <4>1 DEF Held
    <3> QED BY <3>1, <3>2, <3>3, <3>4
  <2>4. DOMAIN placed = DOMAIN rows
    BY <1>3
  <2> QED BY <1>4, <2>1, <2>2, <2>3, <2>4 DEF RowsFit, Selectable
<1> QED BY <1>2, <1>3, <1>4, <1>5 DEF PlacedFits

-----------------------------------------------------------------------------
(* What the analysis and the store have of a word.                         *)
WordFits(word) ==
    /\ word.name \in Words /\ DOMAIN word.at \subseteq Keys
    /\ \A k \in DOMAIN word.at : word.at[k] \in Found
    /\ word.decided \in BOOLEAN /\ word.kept \in BOOLEAN

(* The section earned is one of the three.                                 *)
LEMMA EarnedIs == \A t, d, k : Earned(t, d, k) \in SectionNames
BY DEF Earned, SectionNames

(* What may become of a phrase.                                            *)
Fates == {"goes", "refreshed", "rescored", "recut", "stays"}

(* Only a phrase of the analysis that nothing holds is changed; it goes    *)
(* where its place is gone, and it is cut again in a recut only.           *)
LEMMA FateIs ==
  ASSUME NEW o, NEW at, NEW gone, NEW mode, NEW fate, fate = Fate(o, at, gone, mode)
  PROVE  /\ fate \in Fates
         /\ fate # "stays" => o.origin = "auto" /\ ~IsUntouchable(o)
         /\ fate = "goes" => o.key \notin DOMAIN at
         /\ fate \in {"refreshed", "rescored", "recut"} => o.key \in DOMAIN at
         /\ fate = "recut" => mode = "recut"
BY DEF Fate, Fates

(* What a fate does to a phrase that stays.                                *)
LEMMA AsPlannedIs ==
  ASSUME NEW o \in PhraseRow, NEW at, NEW data, NEW known, NEW fate \in Fates \ {"goes"},
         fate # "stays" => o.key \in DOMAIN at /\ at[o.key] \in Found,
         NEW r, r = AsPlanned(o, fate, at, data, known)
  PROVE  /\ r \in PhraseRow
         /\ \A f \in Fields \ Written : r[f] = o[f]
         /\ fate = "stays" => r = o
         /\ fate = "rescored" => /\ r.score = at[o.key].score
                                 /\ \A f \in Fields \ {"score"} : r[f] = o[f]
         /\ fate \in {"refreshed", "recut"} =>
               /\ r.section = Earned(at[o.key].text, data, known)
               /\ r = Rewritten(o, at[o.key], r.section, fate = "recut" /\ HasResultsOfText(o))
<1>1. CASE fate = "stays"
  BY <1>1 DEF AsPlanned
<1>2. CASE fate = "rescored"
  <2> DEFINE s == at[o.key].score
  <2>1. s \in Nat
    BY <1>2 DEF Found
  <2>2. r = [o EXCEPT !.score = s]
    BY <1>2 DEF AsPlanned
  <2> HIDE DEF s
  <2>3. r \in PhraseRow /\ r.score = s /\ \A f \in Fields \ {"score"} : r[f] = o[f]
    BY <2>1, <2>2 DEF PhraseRow, Fields
  <2> QED BY <1>2, <2>3 DEF s, Written
<1>3. CASE fate \in {"refreshed", "recut"}
  <2> DEFINE drop == fate = "recut" /\ HasResultsOfText(o)
             section == Earned(at[o.key].text, data, known)
             occ == at[o.key]
  <2>1. r = Rewritten(o, occ, section, drop)
    BY <1>3 DEF AsPlanned
  <2>2. drop \in BOOLEAN /\ section \in SectionNames /\ occ \in Found
    BY <1>3, EarnedIs
  <2> HIDE DEF drop, section, occ
  <2>3. r \in PhraseRow /\ r.section = section /\ \A f \in Fields \ Written : r[f] = o[f]
    <3>1. IsRewritten(r, o, occ, section, drop)
      BY <2>1, <2>2, RewrittenIs, Zenon
    <3> QED BY <3>1 DEF IsRewritten
  <2> QED BY <1>3, <2>1, <2>3 DEF drop, section, occ
<1> QED BY <1>1, <1>2, <1>3 DEF Fates

(* What becomes of the phrases of a word.                                  *)
JudgedIs(judged, rows, word) ==
    /\ judged.moved = MovedKeys(rows, word.at)
    /\ judged.placed = Rekey(rows, judged.moved)
    /\ DOMAIN judged.fate = DOMAIN rows
    /\ \A i \in DOMAIN rows :
          judged.fate[i] = IF word.kept THEN "stays"
                           ELSE Fate(judged.placed[i], word.at, word.found = {}, word.mode)

(* Every phrase of a word is placed and given its fate.                    *)
LEMMA JudgedAre ==
  ASSUME NEW rows, NEW word, NEW judged, judged = Judged(rows, word)
  PROVE  JudgedIs(judged, rows, word)
BY DEF Judged, JudgedIs

(* The phrases that stay, as planned.                                      *)
AfterFits(after, judged, rows, word) ==
    /\ DOMAIN after = DOMAIN rows \ Fated(judged, "goes")
    /\ \A i \in DOMAIN after :
          /\ judged.fate[i] \in Fates \ {"goes"}
          /\ judged.fate[i] # "stays" =>
                judged.placed[i].key \in DOMAIN word.at /\ word.at[judged.placed[i].key] \in Found
          /\ after[i] = AsPlanned(judged.placed[i], judged.fate[i], word.at, word.data, word.knows)
          /\ after[i] \in PhraseRow
          /\ \A f \in Fields \ Written : after[i][f] = judged.placed[i][f]
    /\ Selectable(after)

(* The phrases that stay keep what their fates leave alone, and the        *)
(* selection can choose among them.                                        *)
LEMMA AfterAre ==
  ASSUME NEW N \in Nat, NEW rows, RowsFit(rows, N), NEW word, WordFits(word),
         NEW judged, judged = Judged(rows, word), NEW after, after = Left(judged, word)
  PROVE  AfterFits(after, judged, rows, word)
<1>1. JudgedIs(judged, rows, word)
  BY JudgedAre
<1> DEFINE placed == judged.placed
           fate == judged.fate
<1>2. /\ DOMAIN placed = DOMAIN rows /\ Selectable(placed)
      /\ \A i \in DOMAIN rows : placed[i] \in PhraseRow
  <2>1. placed = Rekey(rows, MovedKeys(rows, word.at))
    BY <1>1 DEF JudgedIs
  <2>2. DOMAIN word.at \subseteq Keys
    BY DEF WordFits
  <2> HIDE DEF placed
  <2>3. DOMAIN placed = DOMAIN rows /\ Selectable(placed)
    BY <2>1, <2>2, PlacedAre DEF PlacedFits
  <2> QED BY <2>3 DEF Selectable
<1>3. ASSUME NEW i \in DOMAIN rows
      PROVE  /\ fate[i] \in Fates
             /\ fate[i] \in Fates \ {"goes", "stays"} => placed[i].key \in DOMAIN word.at
  <2>1. CASE word.kept
    <3>1. fate[i] = "stays"
      BY <1>1, <2>1 DEF JudgedIs
    <3> QED BY <3>1 DEF Fates
  <2>2. CASE ~word.kept
    <3>1. fate[i] = Fate(placed[i], word.at, word.found = {}, word.mode)
      BY <1>1, <2>2 DEF JudgedIs
    <3> HIDE DEF fate, placed
    <3>2. /\ fate[i] \in Fates
          /\ fate[i] \in {"refreshed", "rescored", "recut"} => placed[i].key \in DOMAIN word.at
      BY <3>1, FateIs
    <3> QED BY <3>2 DEF Fates
  <2> QED BY <2>1, <2>2
<1>4. DOMAIN fate = DOMAIN rows
  BY <1>1 DEF JudgedIs
<1>5. after = [i \in DOMAIN rows \ Fated(judged, "goes") |->
                  AsPlanned(placed[i], fate[i], word.at, word.data, word.knows)]
  BY <1>4 DEF Left
<1>6. \A i \in DOMAIN rows \ Fated(judged, "goes") : fate[i] # "goes"
  BY <1>4 DEF Fated
<1> HIDE DEF placed, fate
<1>7. ASSUME NEW i \in DOMAIN after
      PROVE  /\ fate[i] \in Fates \ {"goes"}
             /\ fate[i] # "stays" => placed[i].key \in DOMAIN word.at /\ word.at[placed[i].key] \in Found
             /\ after[i] = AsPlanned(placed[i], fate[i], word.at, word.data, word.knows)
             /\ after[i] \in PhraseRow
             /\ \A f \in Fields \ Written : after[i][f] = placed[i][f]
  <2>1. i \in DOMAIN rows /\ fate[i] \in Fates \ {"goes"}
    BY <1>3, <1>5, <1>6
  <2>2. fate[i] # "stays" => placed[i].key \in DOMAIN word.at /\ word.at[placed[i].key] \in Found
    BY <1>3, <2>1 DEF WordFits
  <2>3. after[i] = AsPlanned(placed[i], fate[i], word.at, word.data, word.knows)
    BY <1>5
  <2>4. placed[i] \in PhraseRow
    BY <1>2, <2>1
  <2>5. after[i] \in PhraseRow /\ \A f \in Fields \ Written : after[i][f] = placed[i][f]
    BY <2>1, <2>2, <2>3, <2>4, AsPlannedIs
  <2> QED BY <2>1, <2>2, <2>3, <2>5
<1>8. Selectable(after)
  <2>1. \A i \in DOMAIN after :
           /\ after[i].origin = placed[i].origin /\ after[i].key = placed[i].key
           /\ after[i].shown = placed[i].shown /\ i \in DOMAIN placed
    BY <1>2, <1>5, <1>7 DEF Fields, Written
  <2> QED BY <1>2, <1>7, <2>1 DEF Selectable
<1> QED BY <1>5, <1>7, <1>8 DEF placed, fate, AfterFits

-----------------------------------------------------------------------------
(* The new phrases.                                                        *)

(* A phrase just made.                                                     *)
IsPhrase(r, w, key, origin, shown) ==
    /\ r \in PhraseRow
    /\ r.word = w /\ r.key = key /\ r.origin = origin /\ r.shown = shown /\ r.made = {}
    /\ r.choice = "none" /\ r.removed = FALSE /\ r.replaces = FALSE /\ r.job = "none"

(* A phrase just made is a row, with nothing chosen or made for it.        *)
LEMMA PhraseIs ==
  ASSUME NEW w \in Words, NEW key \in Keys \cup {Unplaced},
         NEW origin \in {"auto", "manual", "example"}, NEW shown \in {"none", "selection", "user"},
         NEW occ \in Found, NEW section \in SectionNames,
         NEW r, r = Phrase(w, key, origin, shown, occ, section)
  PROVE  IsPhrase(r, w, key, origin, shown)
<1> DEFINE none == {}
<1>1. occ.text \in Texts /\ occ.facts \in Nat /\ occ.score \in Nat
  BY DEF Found
<1>2. none \in SUBSET {"meaning", "speech"} /\ none = {}
  OBVIOUS
<1> HIDE DEF none
<1>3. r = [word |-> w, key |-> key, origin |-> origin, shown |-> shown, choice |-> "none",
           edited |-> FALSE, removed |-> FALSE, replaces |-> FALSE, made |-> none, job |-> "none",
           text |-> occ.text, facts |-> occ.facts, score |-> occ.score,
           polish |-> NoText, reverted |-> FALSE, section |-> section]
  BY <1>2 DEF Phrase
<1>4. /\ r = [f \in Fields |-> r[f]]
      /\ r.word = w /\ r.key = key /\ r.origin = origin /\ r.shown = shown /\ r.made = none
      /\ r.choice = "none" /\ r.job = "none"
      /\ r.text = occ.text /\ r.facts = occ.facts /\ r.score = occ.score
      /\ r.polish = NoText /\ r.section = section
  BY <1>3 DEF Fields
<1>5. r.removed = FALSE /\ r.replaces = FALSE /\ r.edited = FALSE /\ r.reverted = FALSE
  BY <1>3
<1>6. RowTypes(r)
  BY <1>1, <1>2, <1>4, <1>5 DEF RowTypes
<1>7. r \in PhraseRow
  BY <1>4, <1>6, RowFrom
<1> QED BY <1>2, <1>4, <1>5, <1>7 DEF IsPhrase

(* New phrases have ids of their own until they are stored: negative, one  *)
(* for each key.                                                           *)
LEMMA PlaceholdersApart ==
  ASSUME NEW k \in Keys, NEW l \in Keys
  PROVE  /\ Placeholder(k) \in Int /\ Placeholder(k) < 0
         /\ Placeholder(k) = Placeholder(l) => k = l
<1>1. /\ k[1] \in 1 .. 9 /\ k[2] \in 1 .. 9 /\ k = <<k[1], k[2]>>
      /\ l[1] \in 1 .. 9 /\ l[2] \in 1 .. 9 /\ l = <<l[1], l[2]>>
  BY KeysAre
<1>2. /\ Placeholder(k) = -(10 * k[1] + k[2]) /\ Placeholder(l) = -(10 * l[1] + l[2])
  BY DEF Placeholder
<1>3. Placeholder(k) \in Int /\ Placeholder(k) < 0
  BY <1>1, <1>2
<1>4. Placeholder(k) = Placeholder(l) => k[1] = l[1] /\ k[2] = l[2]
  BY <1>1, <1>2
<1> QED BY <1>1, <1>3, <1>4

(* The new phrases of a word, by placeholder.                              *)
AreNew(anew, fresh, name) ==
    /\ DOMAIN anew = {Placeholder(k) : k \in fresh}
    /\ \A p \in DOMAIN anew : p \in Int /\ p < 0
    /\ \A k \in fresh : IsPhrase(anew[Placeholder(k)], name, k, "auto", "none")
    /\ IsFiniteSet(DOMAIN anew)

(* There is one new phrase for each free place.                            *)
LEMMA AnewAre ==
  ASSUME NEW word, WordFits(word), NEW fresh, fresh \subseteq DOMAIN word.at,
         NEW anew, anew = Anew(fresh, word)
  PROVE  AreNew(anew, fresh, word.name)
<1>1. fresh \subseteq Keys /\ word.name \in Words
  BY DEF WordFits
<1>2. anew = [p \in {Placeholder(k) : k \in fresh} |->
                 LET k == CHOOSE l \in fresh : Placeholder(l) = p
                 IN  Phrase(word.name, k, "auto", "none", word.at[k],
                            Earned(word.at[k].text, word.data, word.knows))]
  BY DEF Anew
<1>3. ASSUME NEW k \in fresh
      PROVE  /\ Placeholder(k) \in Int /\ Placeholder(k) < 0
             /\ anew[Placeholder(k)] = Phrase(word.name, k, "auto", "none", word.at[k],
                                              Earned(word.at[k].text, word.data, word.knows))
  <2> DEFINE c == CHOOSE l \in fresh : Placeholder(l) = Placeholder(k)
  <2>1. c \in fresh /\ Placeholder(c) = Placeholder(k)
    OBVIOUS
  <2>2. anew[Placeholder(k)] = Phrase(word.name, c, "auto", "none", word.at[c],
                                      Earned(word.at[c].text, word.data, word.knows))
    BY <1>2
  <2> HIDE DEF c
  <2>3. c = k
    BY <1>1, <2>1, PlaceholdersApart
  <2>4. Placeholder(k) \in Int /\ Placeholder(k) < 0
    BY <1>1, PlaceholdersApart
  <2> QED BY <2>2, <2>3, <2>4
<1>4. ASSUME NEW k \in fresh
      PROVE  IsPhrase(anew[Placeholder(k)], word.name, k, "auto", "none")
  <2>1. k \in Keys /\ word.at[k] \in Found
    BY <1>1 DEF WordFits
  <2> DEFINE occ == word.at[k]
             s == Earned(word.at[k].text, word.data, word.knows)
             r == anew[Placeholder(k)]
  <2>2. s \in SectionNames /\ occ \in Found
    BY <2>1, EarnedIs
  <2>3. r = Phrase(word.name, k, "auto", "none", occ, s)
    BY <1>3
  <2> HIDE DEF occ, s, r
  <2>4. k \in Keys \cup {Unplaced} /\ "auto" \in {"auto", "manual", "example"}
        /\ "none" \in {"none", "selection", "user"}
    BY <2>1
  <2>5. IsPhrase(r, word.name, k, "auto", "none")
    BY <1>1, <2>2, <2>3, <2>4, PhraseIs, Zenon
  <2> QED BY <2>5, Zenon DEF r
<1>5. IsFiniteSet(DOMAIN anew)
  <2>1. IsFiniteSet(fresh)
    <3> DEFINE I == 1 .. 9
               P == I \X I
    <3>1. fresh \subseteq P
      <4> SUFFICES ASSUME NEW k \in fresh PROVE k \in P
        OBVIOUS
      <4>1. k[1] \in I /\ k[2] \in I /\ k = <<k[1], k[2]>>
        BY <1>1, KeysAre
      <4> HIDE DEF I
      <4> QED BY <4>1
    <3>2. IsFiniteSet(I)
      <4>1. 1 \in Int /\ 9 \in Int
        OBVIOUS
      <4> QED BY <4>1, FS_Interval
    <3>3. IsFiniteSet(P)
      <4> HIDE DEF I
      <4> QED BY <3>2, FS_Product
    <3> HIDE DEF P
    <3> QED BY <3>1, <3>3, FS_Subset
  <2> DEFINE D == {Placeholder(k) : k \in fresh}
             f == [k \in fresh |-> Placeholder(k)]
  <2>2. f \in [fresh -> D] /\ \A b \in D : \E d \in fresh : f[d] = b
    OBVIOUS
  <2>3. DOMAIN anew = D
    BY <1>2
  <2> HIDE DEF f, D
  <2>4. f \in Surjection(fresh, D)
    BY <2>2, Fun_IsSurj
  <2> QED BY <2>1, <2>3, <2>4, FS_Surjection
<1>6. DOMAIN anew = {Placeholder(k) : k \in fresh}
  BY <1>2
<1>7. \A p \in DOMAIN anew : p \in Int /\ p < 0
  BY <1>3, <1>6
<1> QED BY <1>4, <1>5, <1>6, <1>7 DEF AreNew

-----------------------------------------------------------------------------
(* The plan of a word.                                                     *)

(* The marks a plan changes.                                               *)
ChangeOf(after, anew, word) == Selection(Joint(after, anew), word.decided, word.knows)

(* The phrases a plan writes anew.                                         *)
Rewrites(judged) == Fated(judged, "refreshed") \cup Fated(judged, "recut")

(* The sections a plan stamps.                                             *)
SectionsOf(judged, after, word) ==
    Sections([i \in DOMAIN after \ Rewrites(judged) |-> after[i]], word.data, word.knows)

(* Whether a rewrite drops the polish.                                     *)
Drops(judged, i) == judged.fate[i] = "recut"

(* What a plan rewrites.                                                   *)
RewrittenBy(judged, rows, after, word) ==
    {<<i, word.at[judged.placed[i].key], after[i].section, Drops(judged, i),
       Drops(judged, i) /\ HasResultsOfText(rows[i])>> : i \in Rewrites(judged)}

(* What it rescores.                                                       *)
RescoredBy(judged, rows, after) ==
    {<<i, after[i].score>> : i \in {j \in Fated(judged, "rescored") :
                                        rows[j].score # after[j].score}}

(* What it inserts.                                                        *)
InsertedBy(anew, change) ==
    {[anew[i] EXCEPT !.shown = IF i \in change.set THEN "selection" ELSE "none"]
     : i \in DOMAIN anew}

(* The plan of a word, field by field.                                     *)
PlanFits(p, rows, judged, after, anew, word) ==
    LET change == ChangeOf(after, anew, word)
        sections == SectionsOf(judged, after, word)
    IN  /\ p.moved = judged.moved /\ p.deleted = Fated(judged, "goes")
        /\ p.rewritten = RewrittenBy(judged, rows, after, word)
        /\ p.rescored = RescoredBy(judged, rows, after)
        /\ p.inserted = InsertedBy(anew, change)
        /\ p.cleared = change.clear /\ p.chosen = change.set \ DOMAIN anew
        /\ p.sections = sections /\ p.view = View(after, change, sections)
        /\ p.gone => DOMAIN after \cup DOMAIN anew = {}
        /\ p.data \in {{}, word.found}
        /\ word.stored = {} /\ DOMAIN anew # {} => p.data = word.found

(* Two functions put together.                                             *)
LEMMA JointAre ==
  ASSUME NEW after, NEW anew, NEW J, J = Joint(after, anew)
  PROVE  /\ DOMAIN J = DOMAIN after \cup DOMAIN anew
         /\ \A i \in DOMAIN after : J[i] = after[i]
         /\ \A i \in DOMAIN anew : i \notin DOMAIN after => J[i] = anew[i]
BY DEF Joint

(* The plan of a word holds what its parts say, field by field.            *)
LEMMA PlanOfIs ==
  ASSUME NEW rows, NEW judged, NEW after, NEW anew, NEW word,
         ~(word.stored = {} /\ DOMAIN anew = {}),
         NEW p, p = PlanOf(rows, judged, after, anew, word)
  PROVE  PlanFits(p, rows, judged, after, anew, word)
<1> DEFINE change == ChangeOf(after, anew, word)
           sections == SectionsOf(judged, after, word)
           gone == ~KeepsWord(rows) /\ DOMAIN after \cup DOMAIN anew = {}
           data == IF gone \/ word.stored = word.found THEN {} ELSE word.found
           rewritten == RewrittenBy(judged, rows, after, word)
           rescored == RescoredBy(judged, rows, after)
           inserted == InsertedBy(anew, change)
           view == View(after, change, sections)
           chosen == change.set \ DOMAIN anew
           goes == Fated(judged, "goes")
           cleared == change.clear
           moved == judged.moved
<1>1. p = [moved |-> moved, deleted |-> goes, rewritten |-> rewritten,
           rescored |-> rescored, inserted |-> inserted, cleared |-> cleared,
           chosen |-> chosen, sections |-> sections, data |-> data, gone |-> gone,
           view |-> view]
  BY Zenon DEF PlanOf, ChangeOf, SectionsOf, Rewrites, RewrittenBy, RescoredBy, InsertedBy, Drops
<1>2. /\ gone => DOMAIN after \cup DOMAIN anew = {}
      /\ data \in {{}, word.found}
      /\ word.stored = {} /\ DOMAIN anew # {} => data = word.found
  OBVIOUS
<1> HIDE DEF sections, gone, data, rewritten, rescored, inserted, view, chosen, goes, cleared, moved
<1>3. /\ p.moved = moved /\ p.deleted = goes /\ p.rewritten = rewritten
      /\ p.rescored = rescored /\ p.inserted = inserted /\ p.cleared = cleared
      /\ p.chosen = chosen /\ p.sections = sections /\ p.data = data
      /\ p.gone = gone /\ p.view = view
  BY <1>1, SMT
<1> QED BY <1>2, <1>3, Zenon DEF PlanFits, sections, gone, data, rewritten, rescored, inserted, view, chosen, goes, cleared, moved

(* A function of nothing is the empty sequence.                            *)
LEMMA EmptyFunction ==
  ASSUME NEW f, f = [i \in DOMAIN f |-> f[i]], DOMAIN f = {}
  PROVE  f = <<>>
<1>1. DOMAIN <<>> = {} /\ <<>> = [i \in {} |-> 0]
  <2>1. <<>> \in [1 .. 0 -> {}]
    OBVIOUS
  <2>2. 1 .. 0 = {}
    OBVIOUS
  <2> QED BY <2>1, <2>2
<1>2. f = [i \in {} |-> f[i]]
  OBVIOUS
<1>3. [i \in {} |-> f[i]] = [i \in {} |-> 0]
  OBVIOUS
<1> QED BY <1>1, <1>2, <1>3

(* Where there is nothing to plan, there is nothing in the plan.           *)
LEMMA NothingIs ==
  ASSUME NEW rows, DOMAIN rows = {}, NEW word, WordFits(word),
         NEW judged, judged = Judged(rows, word), NEW after, after = Left(judged, word),
         NEW anew, DOMAIN anew = {}
  PROVE  PlanFits(Nothing, rows, judged, after, anew, word)
<1> DEFINE change == ChangeOf(after, anew, word)
           none == {}
<1>1. JudgedIs(judged, rows, word)
  BY JudgedAre
<1>2. Selectable(rows) /\ RowsFit(rows, 0)
  BY DEF Selectable, RowsFit
<1>3. judged.moved = {}
  <2>1. Strays(rows, word.at) = {}
    BY DEF Strays
  <2>2. judged.moved \subseteq Strays(rows, word.at) \X (DOMAIN word.at \ Held(rows))
    <3>1. judged.moved = MovedKeys(rows, word.at)
      BY <1>1 DEF JudgedIs
    <3>2. DOMAIN word.at \subseteq Keys /\ DOMAIN rows \subseteq 1 .. 0
          /\ \A i \in Strays(rows, word.at) : rows[i].key \in Keys
      BY <2>1 DEF WordFits
    <3> QED BY <3>1, <3>2, MovedAre
  <2> QED BY <2>1, <2>2
<1>4. DOMAIN judged.fate = {}
  BY <1>1 DEF JudgedIs
<1>5. \A f : Fated(judged, f) = {}
  BY <1>4 DEF Fated
<1>6. DOMAIN after = {} /\ after = [i \in DOMAIN after |-> after[i]]
  BY <1>4 DEF Left
<1>7. DOMAIN Joint(after, anew) = {}
  BY <1>6 DEF Joint
<1>8. Marked(Joint(after, anew)) = {} /\ Selectable(Joint(after, anew))
  BY <1>7 DEF Marked, Selectable
<1>9. change.clear = {} /\ change.set = {}
  <2> DEFINE J == Joint(after, anew)
  <2>1. change = Selection(J, word.decided, word.knows) /\ word.decided \in BOOLEAN
        /\ Selectable(J) /\ Marked(J) = {} /\ DOMAIN J = {}
    BY <1>7, <1>8 DEF ChangeOf, WordFits
  <2> HIDE DEF J, change
  <2> DEFINE kept == Marked(J) \ change.clear
  <2>2. kept = Marked(J) \ change.clear
    OBVIOUS
  <2> HIDE DEF kept
  <2>3. SelectionFits(J, word.decided, change, kept)
    BY <2>1, <2>2, SelectionIs
  <2> QED BY <2>1, <2>3 DEF SelectionFits
<1>10. SectionsOf(judged, after, word) = {}
  <2> DEFINE g == [i \in DOMAIN after \ Rewrites(judged) |-> after[i]]
  <2>1. DOMAIN g = {}
    BY <1>6
  <2> HIDE DEF g
  <2>2. Sections(g, word.data, word.knows) = {}
    BY <2>1 DEF Sections
  <2> QED BY <2>2 DEF SectionsOf, g
<1>11. View(after, change, SectionsOf(judged, after, word)) = <<>>
  <2> DEFINE v == View(after, change, SectionsOf(judged, after, word))
  <2>1. DOMAIN v = {} /\ v = [i \in DOMAIN v |-> v[i]]
    BY <1>6 DEF View
  <2> HIDE DEF v
  <2> QED BY <2>1, EmptyFunction DEF v
<1>12. RewrittenBy(judged, rows, after, word) = {} /\ RescoredBy(judged, rows, after) = {}
  BY <1>5 DEF RewrittenBy, RescoredBy, Rewrites
<1>13. InsertedBy(anew, change) = {}
  BY DEF InsertedBy
<1>14. Nothing = [moved |-> none, deleted |-> none, rewritten |-> none, rescored |-> none,
                  inserted |-> none, cleared |-> none, chosen |-> none, sections |-> none,
                  data |-> none, gone |-> FALSE, view |-> <<>>] /\ none = {}
  BY DEF Nothing
<1> HIDE DEF none, change
<1>15. /\ Nothing.moved = none /\ Nothing.deleted = none /\ Nothing.rewritten = none
       /\ Nothing.rescored = none /\ Nothing.inserted = none /\ Nothing.cleared = none
       /\ Nothing.chosen = none /\ Nothing.sections = none /\ Nothing.data = none
       /\ Nothing.view = <<>>
  BY <1>14
<1>16. ~Nothing.gone
  BY <1>14
<1> QED BY <1>3, <1>5, <1>9, <1>10, <1>11, <1>12, <1>13, <1>14, <1>15, <1>16 DEF PlanFits, change

(* What the plan of a word starts from.                                    *)
WordOf(w, rows, stored, found, at, rules) ==
    [name |-> w, stored |-> stored, found |-> found, at |-> at,
     data |-> CHOOSE d \in IF found # {} THEN found ELSE stored : TRUE,
     decided |-> IsDecided(rows), mode |-> rules.mode, knows |-> rules.knows,
     kept |-> IsDecided(rows) \/ w \in rules.done]

(* What a word is planned from, field by field.                            *)
WordIs(word, w, rows, stored, found, at) ==
    /\ word.name = w /\ word.stored = stored /\ word.found = found /\ word.at = at
    /\ word.decided = IsDecided(rows) /\ word.decided \in BOOLEAN
    /\ word.kept \in BOOLEAN /\ (word.decided => word.kept)

(* What a word is planned from.                                            *)
LEMMA WordOfIs ==
  ASSUME NEW w, NEW rows, NEW stored, NEW found, NEW at, NEW rules,
         NEW word, word = WordOf(w, rows, stored, found, at, rules)
  PROVE  WordIs(word, w, rows, stored, found, at)
<1> DEFINE kept == IsDecided(rows) \/ w \in rules.done
           decided == IsDecided(rows)
           data == CHOOSE d \in IF found # {} THEN found ELSE stored : TRUE
           mode == rules.mode
           known == rules.knows
<1>1. word = [name |-> w, stored |-> stored, found |-> found, at |-> at, data |-> data,
              decided |-> decided, mode |-> mode, knows |-> known, kept |-> kept]
  BY DEF WordOf
<1>2. kept \in BOOLEAN /\ decided \in BOOLEAN /\ (decided => kept)
  BY DEF IsDecided
<1> HIDE DEF kept, decided, data, mode, known
<1>3. /\ word.name = w /\ word.stored = stored /\ word.found = found /\ word.at = at
      /\ word.decided = decided /\ word.kept = kept
  BY <1>1
<1> QED BY <1>2, <1>3 DEF decided, WordIs

(* A word's plan is made of its judged phrases, the ones that stay and the *)
(* new ones.                                                               *)
LEMMA WordPlanIs ==
  ASSUME NEW w, NEW rows, NEW stored, NEW found, NEW at, NEW rules,
         stored = {} => DOMAIN rows = {},
         NEW word, word = WordOf(w, rows, stored, found, at, rules), WordFits(word),
         NEW judged, judged = Judged(rows, word), NEW after, after = Left(judged, word),
         NEW anew, anew = Anew(FreshPlaces(judged.placed, after, at), word),
         NEW p, p = WordPlan(w, rows, stored, found, at, rules)
  PROVE  PlanFits(p, rows, judged, after, anew, word)
<1>1. word.at = at /\ word.stored = stored
  BY WordOfIs DEF WordIs
<1>2. p = PlanOf(rows, judged, after, anew, word)
  <2>1. p = PlanOfJudged(rows, judged, word)
    BY Zenon DEF WordPlan, WordOf
  <2> QED BY <1>1, <2>1, Zenon DEF PlanOfJudged, PlanOfLeft
<1>3. CASE stored = {} /\ DOMAIN anew = {}
  <2>1. p = Nothing
    BY <1>1, <1>2, <1>3, Zenon DEF PlanOf
  <2>2. DOMAIN rows = {}
    BY <1>3
  <2> QED BY <1>3, <2>1, <2>2, NothingIs
<1>4. CASE ~(stored = {} /\ DOMAIN anew = {})
  <2>1. ~(word.stored = {} /\ DOMAIN anew = {})
    BY <1>1, <1>4
  <2> QED BY <1>2, <2>1, PlanOfIs, Zenon
<1> QED BY <1>3, <1>4

-----------------------------------------------------------------------------
(* A row under the statements of the write.                                *)

(* A row with another value in one field.                                  *)
Differs(r, o, field, v) == r \in PhraseRow /\ r[field] = v /\ \A f \in Fields \ {field} : r[f] = o[f]

(* A row with another job is a row.                                        *)
LEMMA SetJob ==
  ASSUME NEW o \in PhraseRow, NEW v \in {"none", "queued", "running"}, NEW r, r = [o EXCEPT !.job = v]
  PROVE  Differs(r, o, "job", v)
BY DEF PhraseRow, Fields, Differs

(* A row with another mark is a row.                                       *)
LEMMA SetShown ==
  ASSUME NEW o \in PhraseRow, NEW v \in {"none", "selection", "user"}, NEW r, r = [o EXCEPT !.shown = v]
  PROVE  Differs(r, o, "shown", v)
BY DEF PhraseRow, Fields, Differs

(* A row with another section is a row.                                    *)
LEMMA SetSection ==
  ASSUME NEW o \in PhraseRow, NEW v \in SectionNames, NEW r, r = [o EXCEPT !.section = v]
  PROVE  Differs(r, o, "section", v)
BY DEF PhraseRow, Fields, Differs, SectionNames

(* A row with another score is a row.                                      *)
LEMMA SetScore ==
  ASSUME NEW o \in PhraseRow, NEW v \in Nat, NEW r, r = [o EXCEPT !.score = v]
  PROVE  Differs(r, o, "score", v)
BY DEF PhraseRow, Fields, Differs

(* Rows with the same fields are the same.                                 *)
LEMMA SameFields ==
  ASSUME NEW r \in PhraseRow, NEW o \in PhraseRow, \A f \in Fields : r[f] = o[f]
  PROVE  r = o
<1>1. r = [f \in Fields |-> r[f]] /\ o = [f \in Fields |-> o[f]]
  BY RowsAre
<1> QED BY <1>1

(* One row under each statement of the write.                              *)
Rekeyed(o, i, moved) == IF i \in Ids(moved) THEN [o EXCEPT !.key = To(moved, i)] ELSE o
Recast(o, i, rewritten) ==
    LET r == CHOOSE r \in rewritten : r[1] = i
    IN  IF i \in Ids(rewritten)
        THEN [Rewritten(o, r[2], r[3], r[5]) EXCEPT
                 !.job = IF r[4] /\ @ = "running" THEN "none" ELSE @]
        ELSE o
Scored(o, i, rescored) == IF i \in Ids(rescored) THEN [o EXCEPT !.score = To(rescored, i)] ELSE o
Unmarked(o, i, ids) == IF i \in ids /\ o.shown = "selection" THEN [o EXCEPT !.shown = "none"] ELSE o
MarkedIn(o, i, ids) == IF i \in ids /\ o.shown = "none" THEN [o EXCEPT !.shown = "selection"] ELSE o
Stamped(o, i, sections) ==
    IF i \in Ids(sections) THEN [o EXCEPT !.section = To(sections, i)] ELSE o

(* A change of an id that has one change only is the change of the id.     *)
LEMMA ToIs ==
  ASSUME NEW S, NEW c \in S, \A d \in S : d[1] = c[1] => d = c
  PROVE  c[1] \in Ids(S) /\ To(S, c[1]) = c[2] /\ (CHOOSE d \in S : d[1] = c[1]) = c
<1> DEFINE e == CHOOSE d \in S : d[1] = c[1]
<1>1. e \in S /\ e[1] = c[1]
  OBVIOUS
<1>2. e = c
  BY <1>1
<1> QED BY <1>2 DEF Ids, To

(* A kept row rewritten and rescored is as planned but for its job.        *)
JobAfter(o, fate) == IF fate = "recut" /\ o.job = "running" THEN "none" ELSE o.job

(* The statements that move, rewrite and rescore a row that stays make the *)
(* row its fate says.                                                      *)
LEMMA CastIs ==
  ASSUME NEW N \in Nat, NEW rows, RowsFit(rows, N), NEW word, WordFits(word),
         NEW judged, judged = Judged(rows, word), NEW after, after = Left(judged, word),
         NEW i \in DOMAIN after, NEW r,
         r = Scored(Recast(Rekeyed(rows[i], i, judged.moved), i,
                           RewrittenBy(judged, rows, after, word)),
                    i, RescoredBy(judged, rows, after))
  PROVE  Differs(r, after[i], "job", JobAfter(rows[i], judged.fate[i]))
<1> DEFINE o == judged.placed[i]
           fate == judged.fate[i]
           a == after[i]
           rewritten == RewrittenBy(judged, rows, after, word)
           rescored == RescoredBy(judged, rows, after)
<1>1. JudgedIs(judged, rows, word)
  BY JudgedAre
<1>2. /\ i \in DOMAIN rows /\ fate \in Fates \ {"goes"}
      /\ fate # "stays" => o.key \in DOMAIN word.at /\ word.at[o.key] \in Found
      /\ a = AsPlanned(o, fate, word.at, word.data, word.knows)
      /\ a \in PhraseRow
  <2>1. AfterFits(after, judged, rows, word)
    BY AfterAre
  <2> QED BY <2>1 DEF AfterFits
<1>3. /\ o \in PhraseRow /\ o = Rekeyed(rows[i], i, judged.moved)
      /\ \A f \in Fields \ {"key"} : o[f] = rows[i][f]
  <2> DEFINE placed == judged.placed
             moved == judged.moved
  <2>1. placed = Rekey(rows, moved) /\ moved = MovedKeys(rows, word.at)
    BY <1>1 DEF JudgedIs
  <2>2. DOMAIN word.at \subseteq Keys
    BY DEF WordFits
  <2> HIDE DEF placed, moved
  <2>3. \A j \in DOMAIN rows : placed[j] \in PhraseRow /\ \A f \in Fields \ {"key"} : placed[j][f] = rows[j][f]
    <3>1. PlacedFits(placed, rows, word.at, moved)
      BY <2>1, <2>2, PlacedAre
    <3> QED BY <3>1 DEF PlacedFits
  <2>4. placed[i] = Rekeyed(rows[i], i, moved)
    BY <1>2, <2>1 DEF Rekey, Rekeyed
  <2> QED BY <1>2, <2>3, <2>4 DEF placed, moved
<1>4. DOMAIN judged.fate = DOMAIN rows
  BY <1>1 DEF JudgedIs
<1>5. /\ i \in Rewrites(judged) <=> fate \in {"refreshed", "recut"}
      /\ i \in Fated(judged, "rescored") <=> fate = "rescored"
  BY <1>2, <1>4 DEF Rewrites, Fated
<1>6. o.job = rows[i].job /\ o.score = rows[i].score
      /\ (HasResultsOfText(o) <=> HasResultsOfText(rows[i]))
  BY <1>3 DEF HasResultsOfText, Fields
<1>7. /\ a \in PhraseRow /\ \A f \in Fields \ Written : a[f] = o[f]
      /\ fate = "stays" => a = o
      /\ fate = "rescored" => \A f \in Fields \ {"score"} : a[f] = o[f]
      /\ fate \in {"refreshed", "recut"} =>
            a = Rewritten(o, word.at[o.key], a.section, fate = "recut" /\ HasResultsOfText(o))
  <2> HIDE DEF o, fate, a
  <2> QED BY <1>2, <1>3, AsPlannedIs
<1>8. a.job = rows[i].job
  BY <1>6, <1>7 DEF Fields, Written
<1>9. r = Scored(Recast(o, i, rewritten), i, rescored)
  BY <1>3
<1>10. \A j \in Ids(rewritten) : j \in Rewrites(judged)
  BY DEF Ids, RewrittenBy
<1>11. \A j \in Ids(rescored) : j \in Fated(judged, "rescored") /\ rows[j].score # after[j].score
  BY DEF Ids, RescoredBy
<1>12. CASE fate \in {"refreshed", "recut"}
  <2> DEFINE t == <<i, word.at[o.key], a.section, Drops(judged, i),
                    Drops(judged, i) /\ HasResultsOfText(rows[i])>>
  <2>1. t \in rewritten /\ t[1] = i
    BY <1>5, <1>12 DEF RewrittenBy
  <2>2. \A d \in rewritten : d[1] = i => d = t
    BY DEF RewrittenBy
  <2>3. i \in Ids(rewritten) /\ (CHOOSE d \in rewritten : d[1] = i) = t
    <3> HIDE DEF rewritten, t
    <3> QED BY <2>1, <2>2, ToIs
  <2>4. Recast(o, i, rewritten) = [Rewritten(o, t[2], t[3], t[5]) EXCEPT
                                     !.job = IF t[4] /\ @ = "running" THEN "none" ELSE @]
    <3> DEFINE e == CHOOSE d \in rewritten : d[1] = i
    <3>1. Recast(o, i, rewritten) = [Rewritten(o, e[2], e[3], e[5]) EXCEPT
                                       !.job = IF e[4] /\ @ = "running" THEN "none" ELSE @]
      <4> HIDE DEF rewritten, o
      <4> QED BY <2>3, Zenon DEF Recast
    <3>2. e = t
      BY <2>3
    <3> HIDE DEF e, rewritten, t, o
    <3> QED BY <3>1, <3>2, Zenon
  <2>5. /\ t[2] = word.at[o.key] /\ t[3] = a.section /\ t[4] = Drops(judged, i)
        /\ t[5] = (Drops(judged, i) /\ HasResultsOfText(rows[i]))
    OBVIOUS
  <2>6. Rewritten(o, t[2], t[3], t[5]) = a
    <3>1. t[5] = (fate = "recut" /\ HasResultsOfText(o))
      BY <1>6, <2>5 DEF Drops
    <3> HIDE DEF t, a, o, fate
    <3> QED BY <1>7, <1>12, <2>5, <3>1, Zenon DEF a, o
  <2>7. Recast(o, i, rewritten) = [a EXCEPT !.job = IF Drops(judged, i) /\ @ = "running" THEN "none" ELSE @]
    <3> HIDE DEF t, a, o, rewritten
    <3> QED BY <2>4, <2>5, <2>6, Zenon
  <2>8. i \notin Ids(rescored)
    BY <1>5, <1>11, <1>12
  <2>9. r = [a EXCEPT !.job = JobAfter(rows[i], fate)]
    <3>1. r = Recast(o, i, rewritten)
      <4> HIDE DEF rescored, rewritten, o
      <4> QED BY <1>9, <2>8 DEF Scored
    <3>2. (IF Drops(judged, i) /\ a.job = "running" THEN "none" ELSE a.job) = JobAfter(rows[i], fate)
      BY <1>8 DEF Drops, JobAfter
    <3> HIDE DEF a, o, rewritten, fate
    <3> QED BY <2>7, <3>1, <3>2
  <2>10. JobAfter(rows[i], fate) \in {"none", "queued", "running"}
    <3>1. a.job \in {"none", "queued", "running"}
      BY <1>7, RowsAre DEF RowTypes
    <3> QED BY <1>8, <3>1 DEF JobAfter
  <2> HIDE DEF a, fate
  <2> QED BY <1>7, <2>9, <2>10, SetJob DEF a, fate
<1>13. CASE fate = "rescored"
  <2>1. Recast(o, i, rewritten) = o
    <3>1. i \notin Ids(rewritten)
      BY <1>5, <1>10, <1>13
    <3> HIDE DEF rewritten, o
    <3> QED BY <3>1 DEF Recast
  <2>2. r = a
    <3>1. CASE a.score = o.score
      <4>1. i \notin Ids(rescored)
        BY <1>6, <1>11, <3>1
      <4>2. r = o
        <5> HIDE DEF rewritten, o, rescored
        <5> QED BY <1>9, <2>1, <4>1 DEF Scored
      <4>3. a = o
        <5>1. \A f \in Fields : a[f] = o[f]
          BY <1>7, <1>13, <3>1
        <5> HIDE DEF a, o
        <5> QED BY <1>3, <1>7, <5>1, SameFields
      <4> QED BY <4>2, <4>3
    <3>2. CASE a.score # o.score
      <4> DEFINE t == <<i, a.score>>
      <4>1. t \in rescored /\ t[1] = i /\ t[2] = a.score
        BY <1>5, <1>6, <1>13, <3>2 DEF RescoredBy
      <4>2. \A d \in rescored : d[1] = i => d = t
        BY DEF RescoredBy
      <4>3. i \in Ids(rescored) /\ To(rescored, i) = a.score
        <5> HIDE DEF rescored, t
        <5> QED BY <4>1, <4>2, ToIs
      <4>4. r = [o EXCEPT !.score = a.score]
        <5> HIDE DEF rewritten, o, rescored, a
        <5> QED BY <1>9, <2>1, <4>3 DEF Scored
      <4>5. a.score \in Nat
        BY <1>7, RowsAre DEF RowTypes
      <4>6. Differs(r, o, "score", a.score)
        <5> HIDE DEF a, o
        <5> QED BY <1>3, <4>4, <4>5, SetScore
      <4>7. \A f \in Fields : r[f] = a[f]
        BY <1>7, <1>13, <4>6 DEF Differs
      <4> HIDE DEF a, o
      <4> QED BY <1>7, <4>6, <4>7, SameFields DEF Differs
    <3> QED BY <3>1, <3>2
  <2>3. JobAfter(rows[i], fate) = a.job
    BY <1>8, <1>13 DEF JobAfter
  <2> HIDE DEF a, fate
  <2> QED BY <1>7, <2>2, <2>3 DEF Differs, a, fate
<1>14. CASE fate = "stays"
  <2>1. i \notin Ids(rewritten) /\ i \notin Ids(rescored)
    BY <1>5, <1>10, <1>11, <1>14
  <2>2. r = o
    <3> HIDE DEF rewritten, o, rescored
    <3> QED BY <1>9, <2>1 DEF Scored, Recast
  <2>3. JobAfter(rows[i], fate) = a.job /\ a = o
    BY <1>7, <1>8, <1>14 DEF JobAfter
  <2> HIDE DEF a, fate, o
  <2> QED BY <1>7, <2>2, <2>3 DEF Differs, a, fate
<1> QED BY <1>2, <1>12, <1>13, <1>14 DEF Fates

(* The mark of a phrase once a change of marks is written.                 *)
ShownAfter(i, shown, c) == IF i \in c.set THEN "selection" ELSE IF i \in c.clear THEN "none" ELSE shown

(* A phrase as a plan takes it to be.                                      *)
Viewed(v, i, a, c) ==
    /\ v \in PhraseRow /\ v.shown = ShownAfter(i, a.shown, c)
    /\ \A f \in Fields \ {"shown", "section"} : v[f] = a[f]

(* What a plan takes a phrase to be: as its fate leaves it, with the marks *)
(* and the section of the plan.                                            *)
LEMMA ViewIs ==
  ASSUME NEW after, NEW c, NEW sections, NEW i \in DOMAIN after, after[i] \in PhraseRow,
         \A d \in sections : d[2] \in SectionNames,
         NEW v, v = View(after, c, sections)[i]
  PROVE  /\ Viewed(v, i, after[i], c)
         /\ v.section = IF i \in Ids(sections) THEN To(sections, i) ELSE after[i].section
<1> DEFINE a == after[i]
           section == IF i \in Ids(sections) THEN To(sections, i) ELSE a.section
           shown == ShownAfter(i, a.shown, c)
<1>1. v = [a EXCEPT !.section = section, !.shown = shown]
  <2>1. View(after, c, sections)[i] =
          [a EXCEPT !.section = IF i \in Ids(sections) THEN To(sections, i) ELSE @,
                    !.shown = IF i \in c.set THEN "selection"
                              ELSE IF i \in c.clear THEN "none" ELSE @]
    BY DEF View
  <2>2. a \in PhraseRow
    OBVIOUS
  <2> QED BY <2>1, <2>2 DEF PhraseRow, ShownAfter
<1>2. section \in SectionNames
  <2>1. CASE i \in Ids(sections)
    <3>1. To(sections, i) \in SectionNames
      <4> DEFINE d == CHOOSE d \in sections : d[1] = i
      <4>1. d \in sections
        BY <2>1 DEF Ids
      <4>2. To(sections, i) = d[2]
        BY DEF To
      <4> HIDE DEF d
      <4> QED BY <4>1, <4>2
    <3> QED BY <2>1, <3>1
  <2>2. CASE i \notin Ids(sections)
    BY <2>2, RowsAre DEF RowTypes
  <2> QED BY <2>1, <2>2
<1>3. shown \in {"none", "selection", "user"}
  <2>1. a.shown \in {"none", "selection", "user"}
    BY RowsAre DEF RowTypes
  <2> QED BY <2>1 DEF ShownAfter
<1>4. a \in PhraseRow
  OBVIOUS
<1> HIDE DEF a, section, shown
<1> DEFINE b == [a EXCEPT !.section = section]
<1>5. Differs(b, a, "section", section)
  BY <1>2, <1>4, SetSection
<1>6. v = [b EXCEPT !.shown = shown]
  BY <1>1
<1> HIDE DEF b
<1>7. Differs(v, b, "shown", shown)
  BY <1>3, <1>5, <1>6, SetShown DEF Differs
<1>8. v \in PhraseRow /\ v.shown = shown /\ v.section = section
      /\ \A f \in Fields \ {"shown", "section"} : v[f] = a[f]
  BY <1>5, <1>7 DEF Differs, Fields
<1> QED BY <1>8 DEF Viewed, a, section, shown

(* A row marked and stamped is as viewed but for its job.                  *)
LEMMA MarkedRowIs ==
  ASSUME NEW i, NEW a \in PhraseRow, NEW job, NEW s, Differs(s, a, "job", job), NEW c,
         i \in c.set => a.shown = "none", i \in c.clear => a.shown = "selection",
         NEW chosen, i \in chosen <=> i \in c.set,
         NEW sections, \A d \in sections : d[2] \in SectionNames,
         NEW v, Viewed(v, i, a, c),
         v.section = IF i \in Ids(sections) THEN To(sections, i) ELSE a.section,
         NEW r, r = Stamped(MarkedIn(Unmarked(s, i, c.clear), i, chosen), i, sections)
  PROVE  Differs(r, v, "job", job)
<1> DEFINE shown == ShownAfter(i, a.shown, c)
           m == MarkedIn(Unmarked(s, i, c.clear), i, chosen)
<1>1. s \in PhraseRow /\ s.job = job /\ \A f \in Fields \ {"job"} : s[f] = a[f]
  BY DEF Differs
<1>2. s.shown = a.shown /\ a.shown \in {"none", "selection", "user"}
  BY <1>1, RowsAre DEF Fields, RowTypes
<1>3. m \in PhraseRow /\ m.shown = shown /\ \A f \in Fields \ {"shown"} : m[f] = s[f]
  <2>1. CASE i \in c.set
    <3>1. Unmarked(s, i, c.clear) = s
      BY <1>2, <2>1 DEF Unmarked
    <3>2. m = [s EXCEPT !.shown = "selection"]
      BY <1>2, <2>1, <3>1 DEF MarkedIn
    <3>3. shown = "selection"
      BY <2>1 DEF ShownAfter
    <3> HIDE DEF m, shown
    <3>4. Differs(m, s, "shown", "selection")
      BY <1>1, <3>2, SetShown
    <3> QED BY <3>3, <3>4 DEF Differs
  <2>2. CASE i \notin c.set /\ i \in c.clear
    <3>1. Unmarked(s, i, c.clear) = [s EXCEPT !.shown = "none"]
      BY <1>2, <2>2 DEF Unmarked
    <3>2. m = [s EXCEPT !.shown = "none"]
      BY <2>2, <3>1 DEF MarkedIn
    <3>3. shown = "none"
      BY <2>2 DEF ShownAfter
    <3> HIDE DEF m, shown
    <3>4. Differs(m, s, "shown", "none")
      BY <1>1, <3>2, SetShown
    <3> QED BY <3>3, <3>4 DEF Differs
  <2>3. CASE i \notin c.set /\ i \notin c.clear
    <3>1. m = s
      BY <2>3 DEF Unmarked, MarkedIn
    <3>2. shown = a.shown
      BY <2>3 DEF ShownAfter
    <3> HIDE DEF m, shown
    <3> QED BY <1>1, <1>2, <3>1, <3>2
  <2> QED BY <2>1, <2>2, <2>3
<1> DEFINE section == IF i \in Ids(sections) THEN To(sections, i) ELSE a.section
<1>4. r \in PhraseRow /\ r.section = section /\ \A f \in Fields \ {"section"} : r[f] = m[f]
  <2>1. r = Stamped(m, i, sections)
    OBVIOUS
  <2> HIDE DEF m, shown
  <2>2. m.section = a.section
    BY <1>1, <1>3 DEF Fields
  <2>3. CASE i \in Ids(sections)
    <3>1. To(sections, i) \in SectionNames
      <4> DEFINE d == CHOOSE d \in sections : d[1] = i
      <4>1. d \in sections
        BY <2>3 DEF Ids
      <4>2. To(sections, i) = d[2]
        BY DEF To
      <4> HIDE DEF d
      <4> QED BY <4>1, <4>2
    <3>2. r = [m EXCEPT !.section = To(sections, i)] /\ section = To(sections, i)
      BY <2>1, <2>3 DEF Stamped
    <3> HIDE DEF section
    <3>3. Differs(r, m, "section", section)
      BY <1>3, <3>1, <3>2, SetSection
    <3> QED BY <3>3 DEF Differs
  <2>4. CASE i \notin Ids(sections)
    <3>1. r = m /\ section = m.section
      BY <2>1, <2>2, <2>4 DEF Stamped
    <3> QED BY <1>3, <3>1
  <2> QED BY <2>3, <2>4
<1> HIDE DEF m, section, shown
<1>5. /\ r \in PhraseRow /\ r.shown = shown /\ r.section = section /\ r.job = job
      /\ \A f \in Fields \ {"shown", "section", "job"} : r[f] = a[f]
  BY <1>1, <1>3, <1>4 DEF Fields
<1>6. v \in PhraseRow /\ v.shown = shown /\ v.section = section
      /\ \A f \in Fields \ {"shown", "section"} : v[f] = a[f]
  BY DEF Viewed, shown, section
<1> QED BY <1>5, <1>6 DEF Differs, Fields

-----------------------------------------------------------------------------
(* New rows.                                                               *)

(* The members of a finite set in a row.                                   *)
Lists(q, S) ==
    /\ Cardinality(S) \in Nat /\ DOMAIN q = 1 .. Cardinality(S)
    /\ \A n \in DOMAIN q : q[n] \in S
    /\ \A m, n \in DOMAIN q : q[m] = q[n] => m = n
    /\ \A x \in S : \E n \in DOMAIN q : q[n] = x

(* A finite set in a row: each member once.                                *)
LEMMA SetToSeqIs ==
  ASSUME NEW S, IsFiniteSet(S), NEW q, q = SetToSeq(S)
  PROVE  Lists(q, S)
<1> DEFINE n == Cardinality(S)
           I == 1 .. n
<1>1. n \in Nat /\ ExistsBijection(I, S)
  BY FS_CardinalityType
<1> HIDE DEF n
<1>2. PICK f \in Bijection(I, S) : TRUE
  BY <1>1, Fun_ExistsBij
<1>3. f \in [I -> S] /\ IsInjective(f)
  BY <1>2 DEF Bijection, Injection
<1>4. q = CHOOSE g \in [I -> S] : IsInjective(g)
  BY Zenon DEF SetToSeq, n
<1> HIDE DEF I
<1>5. q \in [I -> S] /\ IsInjective(q)
  BY <1>3, <1>4
<1>6. q \in Injection(I, S)
  BY <1>5 DEF Injection
<1>7. q \in Surjection(I, S)
  <2>1. IsFiniteSet(I) /\ Cardinality(I) = n
    <3>1. 1 \in Int /\ n \in Int
      BY <1>1
    <3>2. IsFiniteSet(I)
      BY <3>1, FS_Interval DEF I
    <3>3. Cardinality(I) = n
      <4>1. PICK g \in Bijection(I, S) : TRUE
        BY <1>2
      <4>2. ExistsBijection(I, S)
        BY <1>2, Fun_ExistsBij
      <4>3. Cardinality(S) = Cardinality(I)
        BY <3>2, <4>2, FS_Bijection
      <4> QED BY <4>3 DEF n
    <3> QED BY <3>2, <3>3
  <2> QED BY <1>6, <2>1, FS_Injection DEF n
<1>8. \A x \in S : \E m \in I : q[m] = x
  BY <1>7, Fun_SurjectionProperties
<1> QED BY <1>1, <1>5, <1>8 DEF I, n, IsInjective, Lists

(* New rows get the next ids, one each.                                    *)
Adds(r, old, rows, next0) ==
    LET ids == next0 .. next0 + Cardinality(rows) - 1
    IN  /\ Cardinality(rows) \in Nat
        /\ DOMAIN r = DOMAIN old \cup ids
        /\ \A i \in DOMAIN old : r[i] = old[i]
        /\ \A n \in ids : n \notin DOMAIN old /\ r[n] \in rows
        /\ \A m, n \in ids : r[m] = r[n] => m = n
        /\ \A x \in rows : \E n \in ids : r[n] = x

(* Rows none of which has a twin are all inserted, each under an id of its *)
(* own.                                                                    *)
LEMMA InsertIs ==
  ASSUME NEW old, NEW next0 \in Nat \ {0}, DOMAIN old \subseteq 1 .. next0 - 1,
         NEW rows, IsFiniteSet(rows), \A x \in rows : \A i \in DOMAIN old : ~IsTwin(old[i], x),
         NEW r, r = Insert(old, rows, next0)
  PROVE  Adds(r, old, rows, next0)
<1> DEFINE new == SetToSeq(rows)
           n0 == Cardinality(rows)
           ids == next0 .. next0 + n0 - 1
           more == [i \in {next0 + n - 1 : n \in DOMAIN new} |-> new[i - next0 + 1]]
<1>1. {x \in rows : \A i \in DOMAIN old : ~IsTwin(old[i], x)} = rows
  OBVIOUS
<1>2. r = Joint(old, more)
  BY <1>1, Zenon DEF Insert
<1>3. Lists(new, rows)
  BY SetToSeqIs
<1> HIDE DEF new
<1>4. n0 \in Nat /\ DOMAIN new = 1 .. n0
  BY <1>3 DEF Lists
<1> HIDE DEF n0
<1>5. {next0 + n - 1 : n \in DOMAIN new} = ids
  <2>1. \A i \in ids : i - next0 + 1 \in 1 .. n0 /\ next0 + (i - next0 + 1) - 1 = i
    BY <1>4
  <2>2. \A n \in 1 .. n0 : next0 + n - 1 \in ids
    BY <1>4
  <2> HIDE DEF ids
  <2> QED BY <1>4, <2>1, <2>2
<1>6. DOMAIN more = ids /\ \A i \in ids : more[i] = new[i - next0 + 1]
  BY <1>5
<1> HIDE DEF more
<1>7. \A i \in ids : i \notin DOMAIN old
  BY <1>4
<1>8. /\ DOMAIN r = DOMAIN old \cup ids
      /\ \A i \in DOMAIN old : r[i] = old[i]
      /\ \A i \in ids : r[i] = new[i - next0 + 1]
  <2> HIDE DEF ids
  <2> QED BY <1>2, <1>6, <1>7 DEF Joint
<1>9. \A i \in ids : i - next0 + 1 \in DOMAIN new
  BY <1>4
<1>10. \A i \in ids : r[i] \in rows
  <2> HIDE DEF ids
  <2> QED BY <1>3, <1>8, <1>9 DEF Lists
<1>11. \A i, j \in ids : r[i] = r[j] => i = j
  <2> SUFFICES ASSUME NEW i \in ids, NEW j \in ids, r[i] = r[j] PROVE i = j
    OBVIOUS
  <2>1. i - next0 + 1 = j - next0 + 1
    BY <1>3, <1>8, <1>9 DEF Lists
  <2> QED BY <1>4, <2>1
<1>12. \A x \in rows : \E i \in ids : r[i] = x
  <2> SUFFICES ASSUME NEW x \in rows PROVE \E i \in ids : r[i] = x
    OBVIOUS
  <2>1. PICK n \in 1 .. n0 : new[n] = x
    BY <1>3, <1>4 DEF Lists
  <2>2. next0 + n - 1 \in ids /\ (next0 + n - 1) - next0 + 1 = n
    BY <1>4
  <2>3. r[next0 + n - 1] = x
    BY <1>8, <2>1, <2>2
  <2> QED BY <2>2, <2>3
<1> QED BY <1>4, <1>7, <1>8, <1>10, <1>11, <1>12 DEF Adds, n0

-----------------------------------------------------------------------------
(* The plan of all words, applied.                                         *)

(* At most one change of an id.                                            *)
OneEach(S) == \A c, d \in S : c[1] = d[1] => c = d

(* Looking an id up among the changes of its word is looking it up among   *)
(* all of them.                                                            *)
LEMMA ToLocal ==
  ASSUME NEW S, NEW T, T \subseteq S, OneEach(T), NEW i, \A c \in S : c[1] = i => c \in T
  PROVE  /\ i \in Ids(S) <=> i \in Ids(T)
         /\ i \in Ids(T) => /\ To(S, i) = To(T, i)
                            /\ (CHOOSE c \in S : c[1] = i) = (CHOOSE c \in T : c[1] = i)
<1>1. i \in Ids(S) <=> i \in Ids(T)
  BY DEF Ids
<1>2. ASSUME i \in Ids(T)
      PROVE  /\ To(S, i) = To(T, i)
             /\ (CHOOSE c \in S : c[1] = i) = (CHOOSE c \in T : c[1] = i)
  <2>1. PICK t \in T : t[1] = i
    BY <1>2 DEF Ids
  <2>2. To(T, i) = t[2] /\ (CHOOSE c \in T : c[1] = i) = t
    <3>1. \A d \in T : d[1] = t[1] => d = t
      BY <2>1 DEF OneEach
    <3> QED BY <2>1, <3>1, ToIs
  <2>3. To(S, i) = t[2] /\ (CHOOSE c \in S : c[1] = i) = t
    <3>1. \A d \in S : d[1] = t[1] => d = t
      BY <2>1 DEF OneEach
    <3>2. t \in S
      OBVIOUS
    <3> QED BY <2>1, <3>1, <3>2, ToIs
  <2> QED BY <2>2, <2>3
<1> QED BY <1>1, <1>2

(* A plan of a word changes the phrases of the word, each at most once.    *)
PlanIsLocal(p, D) ==
    /\ p.deleted \subseteq D /\ p.cleared \subseteq D /\ p.chosen \subseteq D
    /\ \A c \in p.moved : c[1] \in D
    /\ \A c \in p.rewritten : c[1] \in D
    /\ \A c \in p.rescored : c[1] \in D
    /\ \A c \in p.sections : c[1] \in D
    /\ OneEach(p.moved) /\ OneEach(p.rewritten) /\ OneEach(p.rescored) /\ OneEach(p.sections)

(* A row moved, rewritten and rescored; the row marked and stamped too.    *)
WrittenRow(o, i, p) == Scored(Recast(Rekeyed(o, i, p.moved), i, p.rewritten), i, p.rescored)
FinalRow(o, i, p) ==
    Stamped(MarkedIn(Unmarked(WrittenRow(o, i, p), i, p.cleared), i, p.chosen), i, p.sections)

(* What the words of a plan change, by kind.                               *)
MovedIn(plan) == UNION {plan[w].moved : w \in DOMAIN plan}
DeletedIn(plan) == UNION {plan[w].deleted : w \in DOMAIN plan}
RewrittenIn(plan) == UNION {plan[w].rewritten : w \in DOMAIN plan}
RescoredIn(plan) == UNION {plan[w].rescored : w \in DOMAIN plan}
InsertedIn(plan) == UNION {plan[w].inserted : w \in DOMAIN plan}
ClearedIn(plan) == UNION {plan[w].cleared : w \in DOMAIN plan}
ChosenIn(plan) == UNION {plan[w].chosen : w \in DOMAIN plan}
SectionsIn(plan) == UNION {plan[w].sections : w \in DOMAIN plan}

(* What the plans of other words change is nothing to a phrase.            *)
LEMMA ElsewhereIs ==
  ASSUME NEW old, NEW plan,
         \A w \in DOMAIN plan : PlanIsLocal(plan[w], DOMAIN RowsOf(old, w)),
         NEW i \in DOMAIN old, NEW w \in DOMAIN plan, old[i].word = w, NEW o
  PROVE  /\ i \in DeletedIn(plan) <=> i \in plan[w].deleted
         /\ Rekeyed(o, i, MovedIn(plan)) = Rekeyed(o, i, plan[w].moved)
         /\ Recast(o, i, RewrittenIn(plan)) = Recast(o, i, plan[w].rewritten)
         /\ Scored(o, i, RescoredIn(plan)) = Scored(o, i, plan[w].rescored)
         /\ Unmarked(o, i, ClearedIn(plan)) = Unmarked(o, i, plan[w].cleared)
         /\ MarkedIn(o, i, ChosenIn(plan)) = MarkedIn(o, i, plan[w].chosen)
         /\ Stamped(o, i, SectionsIn(plan)) = Stamped(o, i, plan[w].sections)
<1> DEFINE p == plan[w]
<1>1. \A v \in DOMAIN plan : i \in DOMAIN RowsOf(old, v) => v = w
  BY DEF RowsOf
<1>2. PlanIsLocal(p, DOMAIN RowsOf(old, w))
  OBVIOUS
<1>3. i \in DeletedIn(plan) <=> i \in p.deleted
  BY <1>1 DEF PlanIsLocal, DeletedIn
<1>4. i \in ClearedIn(plan) <=> i \in p.cleared
  BY <1>1 DEF PlanIsLocal, ClearedIn
<1>5. i \in ChosenIn(plan) <=> i \in p.chosen
  BY <1>1 DEF PlanIsLocal, ChosenIn
<1>6. /\ p.moved \subseteq MovedIn(plan) /\ \A c \in MovedIn(plan) : c[1] = i => c \in p.moved
      /\ OneEach(p.moved)
  BY <1>1 DEF PlanIsLocal, MovedIn
<1>7. /\ p.rewritten \subseteq RewrittenIn(plan)
      /\ \A c \in RewrittenIn(plan) : c[1] = i => c \in p.rewritten
      /\ OneEach(p.rewritten)
  BY <1>1 DEF PlanIsLocal, RewrittenIn
<1>8. /\ p.rescored \subseteq RescoredIn(plan)
      /\ \A c \in RescoredIn(plan) : c[1] = i => c \in p.rescored
      /\ OneEach(p.rescored)
  BY <1>1 DEF PlanIsLocal, RescoredIn
<1>9. /\ p.sections \subseteq SectionsIn(plan)
      /\ \A c \in SectionsIn(plan) : c[1] = i => c \in p.sections
      /\ OneEach(p.sections)
  BY <1>1 DEF PlanIsLocal, SectionsIn
<1> HIDE DEF p
<1>10. Rekeyed(o, i, MovedIn(plan)) = Rekeyed(o, i, p.moved)
  <2> DEFINE S == MovedIn(plan)
             T == p.moved
  <2>1. T \subseteq S /\ OneEach(T) /\ \A c \in S : c[1] = i => c \in T
    BY <1>6
  <2> HIDE DEF S, T
  <2>2. /\ i \in Ids(S) <=> i \in Ids(T)
        /\ i \in Ids(T) => To(S, i) = To(T, i)
    BY <2>1, ToLocal
  <2>3. Rekeyed(o, i, S) = Rekeyed(o, i, T)
    BY <2>2 DEF Rekeyed
  <2> QED BY <2>3 DEF S, T
<1>11. Scored(o, i, RescoredIn(plan)) = Scored(o, i, p.rescored)
  <2> DEFINE S == RescoredIn(plan)
             T == p.rescored
  <2>1. T \subseteq S /\ OneEach(T) /\ \A c \in S : c[1] = i => c \in T
    BY <1>8
  <2> HIDE DEF S, T
  <2>2. /\ i \in Ids(S) <=> i \in Ids(T)
        /\ i \in Ids(T) => To(S, i) = To(T, i)
    BY <2>1, ToLocal
  <2>3. Scored(o, i, S) = Scored(o, i, T)
    BY <2>2 DEF Scored
  <2> QED BY <2>3 DEF S, T
<1>12. Stamped(o, i, SectionsIn(plan)) = Stamped(o, i, p.sections)
  <2> DEFINE S == SectionsIn(plan)
             T == p.sections
  <2>1. T \subseteq S /\ OneEach(T) /\ \A c \in S : c[1] = i => c \in T
    BY <1>9
  <2> HIDE DEF S, T
  <2>2. /\ i \in Ids(S) <=> i \in Ids(T)
        /\ i \in Ids(T) => To(S, i) = To(T, i)
    BY <2>1, ToLocal
  <2>3. Stamped(o, i, S) = Stamped(o, i, T)
    BY <2>2 DEF Stamped
  <2> QED BY <2>3 DEF S, T
<1>13. Recast(o, i, RewrittenIn(plan)) = Recast(o, i, p.rewritten)
  <2> DEFINE S == RewrittenIn(plan)
             T == p.rewritten
             e == CHOOSE c \in S : c[1] = i
             f == CHOOSE c \in T : c[1] = i
  <2> HIDE DEF S, T
  <2>1. /\ i \in Ids(S) <=> i \in Ids(T)
        /\ i \in Ids(T) => e = f
    BY <1>7, ToLocal DEF S, T
  <2> DEFINE g(r) == [Rewritten(o, r[2], r[3], r[5]) EXCEPT
                        !.job = IF r[4] /\ @ = "running" THEN "none" ELSE @]
  <2>2. /\ Recast(o, i, S) = IF i \in Ids(S) THEN g(e) ELSE o
        /\ Recast(o, i, T) = IF i \in Ids(T) THEN g(f) ELSE o
    BY Zenon DEF Recast
  <2> HIDE DEF e, f, g
  <2>3. Recast(o, i, S) = Recast(o, i, T)
    BY <2>1, <2>2
  <2> QED BY <2>3 DEF S, T
<1>14. Unmarked(o, i, ClearedIn(plan)) = Unmarked(o, i, p.cleared)
  BY <1>4, Zenon DEF Unmarked
<1>15. MarkedIn(o, i, ChosenIn(plan)) = MarkedIn(o, i, p.chosen)
  BY <1>5, Zenon DEF MarkedIn
<1> QED BY <1>3, <1>10, <1>11, <1>12, <1>13, <1>14, <1>15 DEF p

(* The changes of a plan, by kind.                                         *)
LEMMA FieldsOfPlan ==
  ASSUME NEW plan
  PROVE  /\ Field(plan, LAMBDA p : p.moved) = MovedIn(plan)
         /\ Field(plan, LAMBDA p : p.deleted) = DeletedIn(plan)
         /\ Field(plan, LAMBDA p : p.rewritten) = RewrittenIn(plan)
         /\ Field(plan, LAMBDA p : p.rescored) = RescoredIn(plan)
         /\ Field(plan, LAMBDA p : p.inserted) = InsertedIn(plan)
         /\ Field(plan, LAMBDA p : p.cleared) = ClearedIn(plan)
         /\ Field(plan, LAMBDA p : p.chosen) = ChosenIn(plan)
         /\ Field(plan, LAMBDA p : p.sections) = SectionsIn(plan)
BY DEF Field, MovedIn, DeletedIn, RewrittenIn, RescoredIn, InsertedIn, ClearedIn, ChosenIn, SectionsIn

(* What a plan makes of the phrases it is applied to.                      *)
AppliedFits(r, old, plan, next0) ==
    LET kept == DOMAIN old \ DeletedIn(plan)
        ids == next0 .. next0 + Cardinality(InsertedIn(plan)) - 1
    IN  /\ Cardinality(InsertedIn(plan)) \in Nat
        /\ DOMAIN r = kept \cup ids
        /\ \A i \in kept : r[i] = FinalRow(old[i], i, plan[old[i].word])
        /\ \A n \in ids : n \notin DOMAIN old /\ r[n] \in InsertedIn(plan)
        /\ \A m, n \in ids : r[m] = r[n] => m = n
        /\ \A x \in InsertedIn(plan) : \E n \in ids : r[n] = x

(* A moved row keeps its word.                                             *)
LEMMA RekeyedWord ==
  ASSUME NEW o \in PhraseRow, NEW i, NEW moved
  PROVE  Rekeyed(o, i, moved).word = o.word
<1> DEFINE v == To(moved, i)
<1>1. o = [f \in Fields |-> o[f]] /\ "word" \in Fields
  BY RowsAre DEF Fields
<1>2. Rekeyed(o, i, moved) = IF i \in Ids(moved) THEN [o EXCEPT !.key = v] ELSE o
  BY DEF Rekeyed
<1> HIDE DEF v
<1>3. [o EXCEPT !.key = v].word = o.word
  BY <1>1
<1> QED BY <1>2, <1>3

(* A plan whose words change their own rows only, and insert no twin of a  *)
(* row that stays, is applied as its words say.                            *)
LEMMA AppliedIs ==
  ASSUME NEW old, NEW plan, NEW next0 \in Nat \ {0}, DOMAIN old \subseteq 1 .. next0 - 1,
         \A w \in DOMAIN plan : PlanIsLocal(plan[w], DOMAIN RowsOf(old, w)),
         \A i \in DOMAIN old : /\ old[i].word \in DOMAIN plan /\ old[i] \in PhraseRow
                               /\ plan[old[i].word].gone => i \in plan[old[i].word].deleted,
         IsFiniteSet(InsertedIn(plan)),
         \A x \in InsertedIn(plan) : \A i \in DOMAIN old \ DeletedIn(plan) :
             ~IsTwin(WrittenRow(old[i], i, plan[old[i].word]), x),
         NEW r, r = Applied(old, plan, next0)
  PROVE  AppliedFits(r, old, plan, next0)
<1> DEFINE kept == DOMAIN old \ DeletedIn(plan)
           inserted == InsertedIn(plan)
           ids == next0 .. next0 + Cardinality(inserted) - 1
           f1 == DeletePhrases(old, DeletedIn(plan))
           f2 == Rekey(f1, MovedIn(plan))
           f3 == WithoutWords(f2, plan)
           f4 == RewritePhrases(f3, RewrittenIn(plan))
           f5 == Rescore(f4, RescoredIn(plan))
           f6 == Insert(f5, inserted, next0)
           f7 == Unmark(f6, ClearedIn(plan))
           f8 == Mark(f7, ChosenIn(plan))
           W(i) == plan[old[i].word]
<1>1. r = Restamp(f8, SectionsIn(plan))
  BY FieldsOfPlan, Zenon DEF Applied
<1>2. DOMAIN f1 = kept /\ \A i \in kept : f1[i] = old[i]
  BY DEF DeletePhrases, Restrict
<1> HIDE DEF f1
<1>3. DOMAIN f2 = kept /\ \A i \in kept : f2[i] = Rekeyed(old[i], i, MovedIn(plan))
  BY <1>2 DEF Rekey, Rekeyed
<1> HIDE DEF f2
<1>4. \A i \in kept : f2[i] = Rekeyed(old[i], i, W(i).moved)
  <2> TAKE i \in kept
  <2>1. i \in DOMAIN old /\ old[i].word \in DOMAIN plan
    OBVIOUS
  <2>2. Rekeyed(old[i], i, MovedIn(plan)) = Rekeyed(old[i], i, W(i).moved)
    BY <2>1, ElsewhereIs
  <2> QED BY <1>3, <2>2
<1>5. \A i \in kept : f2[i].word = old[i].word
  <2> TAKE i \in kept
  <2>1. old[i] \in PhraseRow
    OBVIOUS
  <2> QED BY <1>3, <2>1, RekeyedWord
<1>6. \A i \in kept : ~W(i).gone
  <2> TAKE i \in kept
  <2>1. i \notin DeletedIn(plan) /\ i \in DOMAIN old /\ old[i].word \in DOMAIN plan
    OBVIOUS
  <2> QED BY <2>1 DEF DeletedIn
<1>7. DOMAIN f3 = kept /\ \A i \in kept : f3[i] = f2[i]
  <2>1. f3 = [i \in {j \in kept : f2[j].word \in DOMAIN plan => ~plan[f2[j].word].gone} |-> f2[i]]
    BY <1>3 DEF WithoutWords, Restrict
  <2>2. {j \in kept : f2[j].word \in DOMAIN plan => ~plan[f2[j].word].gone} = kept
    BY <1>5, <1>6
  <2> QED BY <2>1, <2>2
<1> HIDE DEF f3, W
<1>8. DOMAIN f4 = kept /\ \A i \in kept : f4[i] = Recast(f3[i], i, RewrittenIn(plan))
  BY <1>7, Zenon DEF RewritePhrases, Recast
<1> HIDE DEF f4
<1>9. DOMAIN f5 = kept /\ \A i \in kept : f5[i] = Scored(f4[i], i, RescoredIn(plan))
  BY <1>8 DEF Rescore, Scored
<1> HIDE DEF f5
<1>10. \A i \in kept : f5[i] = WrittenRow(old[i], i, W(i))
  <2> TAKE i \in kept
  <2> DEFINE p == W(i)
             a == f2[i]
             b == f4[i]
  <2>1. i \in DOMAIN old /\ old[i].word \in DOMAIN plan
    OBVIOUS
  <2>2. /\ Recast(a, i, RewrittenIn(plan)) = Recast(a, i, p.rewritten)
        /\ Scored(b, i, RescoredIn(plan)) = Scored(b, i, p.rescored)
    <3> HIDE DEF a, b
    <3> QED BY <2>1, ElsewhereIs DEF W
  <2>3. b = Recast(a, i, p.rewritten)
    BY <1>7, <1>8, <2>2
  <2>4. f5[i] = Scored(b, i, p.rescored)
    BY <1>9, <2>2
  <2>5. a = Rekeyed(old[i], i, p.moved)
    BY <1>4
  <2> HIDE DEF p, a, b
  <2>6. f5[i] = WrittenRow(old[i], i, p)
    BY <2>3, <2>4, <2>5 DEF WrittenRow
  <2> QED BY <2>6 DEF p
<1>11. Adds(f6, f5, inserted, next0)
  <2>1. DOMAIN f5 \subseteq 1 .. next0 - 1
    BY <1>9
  <2>2. \A x \in inserted : \A i \in DOMAIN f5 : ~IsTwin(f5[i], x)
    BY <1>9, <1>10 DEF W
  <2> HIDE DEF kept, inserted
  <2> QED BY <2>1, <2>2, InsertIs DEF inserted
<1> HIDE DEF f6
<1>12. /\ Cardinality(inserted) \in Nat
       /\ DOMAIN f6 = kept \cup ids
       /\ \A i \in kept : f6[i] = WrittenRow(old[i], i, W(i))
       /\ \A n \in ids : n \notin DOMAIN old /\ f6[n] \in inserted
       /\ \A m, n \in ids : f6[m] = f6[n] => m = n
       /\ \A x \in inserted : \E n \in ids : f6[n] = x
  <2>1. \A n \in ids : n \notin 1 .. next0 - 1
    <3>1. Cardinality(inserted) \in Nat
      BY <1>11 DEF Adds
    <3> QED BY <3>1
  <2> HIDE DEF inserted, kept
  <2> QED BY <1>9, <1>10, <1>11, <2>1 DEF Adds
<1>13. \A n \in ids : n \notin ClearedIn(plan) /\ n \notin ChosenIn(plan) /\ n \notin Ids(SectionsIn(plan))
  <2> TAKE n \in ids
  <2>1. \A w \in DOMAIN plan : n \notin DOMAIN RowsOf(old, w)
    BY <1>12 DEF RowsOf
  <2>2. n \notin ClearedIn(plan) /\ n \notin ChosenIn(plan)
    BY <2>1 DEF ClearedIn, ChosenIn, PlanIsLocal
  <2>3. n \notin Ids(SectionsIn(plan))
    BY <2>1 DEF SectionsIn, Ids, PlanIsLocal
  <2> QED BY <2>2, <2>3
<1> HIDE DEF kept, ids, inserted
<1>14. /\ DOMAIN f7 = kept \cup ids
       /\ \A i \in kept \cup ids : f7[i] = Unmarked(f6[i], i, ClearedIn(plan))
  BY <1>12 DEF Unmark, Unmarked
<1> HIDE DEF f7
<1>15. /\ DOMAIN f8 = kept \cup ids
       /\ \A i \in kept \cup ids : f8[i] = MarkedIn(f7[i], i, ChosenIn(plan))
  BY <1>14 DEF Mark, MarkedIn
<1> HIDE DEF f8
<1>16. /\ DOMAIN r = kept \cup ids
       /\ \A i \in kept \cup ids : r[i] = Stamped(f8[i], i, SectionsIn(plan))
  BY <1>1, <1>15 DEF Restamp, Stamped
<1>17. \A n \in ids : r[n] = f6[n]
  <2> TAKE n \in ids
  <2>1. f7[n] = f6[n]
    BY <1>13, <1>14 DEF Unmarked
  <2>2. f8[n] = f7[n]
    BY <1>13, <1>15 DEF MarkedIn
  <2> QED BY <1>13, <1>16, <2>1, <2>2 DEF Stamped
<1>18. \A i \in kept : r[i] = FinalRow(old[i], i, W(i))
  <2> TAKE i \in kept
  <2> DEFINE p == W(i)
             a == f6[i]
             b == f7[i]
             c == f8[i]
  <2>1. i \in DOMAIN old /\ old[i].word \in DOMAIN plan
    BY DEF kept
  <2>2. /\ Unmarked(a, i, ClearedIn(plan)) = Unmarked(a, i, p.cleared)
        /\ MarkedIn(b, i, ChosenIn(plan)) = MarkedIn(b, i, p.chosen)
        /\ Stamped(c, i, SectionsIn(plan)) = Stamped(c, i, p.sections)
    <3> HIDE DEF a, b, c
    <3> QED BY <2>1, ElsewhereIs DEF W
  <2>3. /\ a = WrittenRow(old[i], i, p) /\ b = Unmarked(a, i, p.cleared)
        /\ c = MarkedIn(b, i, p.chosen) /\ r[i] = Stamped(c, i, p.sections)
    BY <1>12, <1>14, <1>15, <1>16, <2>2
  <2> HIDE DEF p, a, b, c
  <2>4. r[i] = FinalRow(old[i], i, p)
    BY <2>3 DEF FinalRow
  <2> QED BY <2>4 DEF p
<1> QED BY <1>12, <1>16, <1>17, <1>18 DEF AppliedFits, kept, ids, inserted, W

-----------------------------------------------------------------------------
(* What a plan settles, word by word.                                      *)

(* The phrases of a word as a plan has them: the ones that stay, where they*)
(* stand and as they read now, and new ones at the free places.            *)
Settles(rows, word, judged, after, anew, fresh, J) ==
    /\ JudgedIs(judged, rows, word)
    /\ PlacedFits(judged.placed, rows, word.at, judged.moved)
    /\ AfterFits(after, judged, rows, word)
    /\ AreNew(anew, fresh, word.name) /\ fresh \subseteq DOMAIN word.at
    /\ \A k \in fresh : \A i \in DOMAIN rows : judged.placed[i].key # k
    /\ DOMAIN J = DOMAIN after \cup DOMAIN anew
    /\ \A i \in DOMAIN after : i \in Nat /\ i > 0 /\ i \notin DOMAIN anew /\ J[i] = after[i]
    /\ \A i \in DOMAIN anew : J[i] = anew[i]
    /\ Selectable(J) /\ IsFiniteSet(DOMAIN J)

(* Whatever the phrases of a word and the analysis are, the phrases        *)
(* planned stand at keys of their own.                                     *)
LEMMA WordSettles ==
  ASSUME NEW N \in Nat, NEW rows, RowsFit(rows, N), NEW word, WordFits(word),
         NEW judged, judged = Judged(rows, word), NEW after, after = Left(judged, word),
         NEW fresh, fresh = FreshPlaces(judged.placed, after, word.at),
         NEW anew, anew = Anew(fresh, word), NEW J, J = Joint(after, anew)
  PROVE  Settles(rows, word, judged, after, anew, fresh, J)
<1> DEFINE placed == judged.placed
<1>1. JudgedIs(judged, rows, word)
  BY JudgedAre
<1>2. PlacedFits(placed, rows, word.at, judged.moved)
  <2> DEFINE moved == judged.moved
  <2>1. placed = Rekey(rows, moved) /\ moved = MovedKeys(rows, word.at)
    BY <1>1 DEF JudgedIs
  <2>2. DOMAIN word.at \subseteq Keys
    BY DEF WordFits
  <2> HIDE DEF placed, moved
  <2>3. PlacedFits(placed, rows, word.at, moved)
    BY <2>1, <2>2, PlacedAre
  <2> QED BY <2>3 DEF moved
<1>3. AfterFits(after, judged, rows, word)
  BY AfterAre
<1>4. /\ fresh \subseteq DOMAIN word.at
      /\ \A k \in fresh : \A i \in DOMAIN rows : placed[i].key # k
  BY <1>2 DEF FreshPlaces, PlacedFits
<1>5. AreNew(anew, fresh, word.name)
  BY <1>4, AnewAre
<1>6. /\ DOMAIN J = DOMAIN after \cup DOMAIN anew
      /\ \A i \in DOMAIN after : J[i] = after[i]
      /\ \A i \in DOMAIN anew : i \notin DOMAIN after => J[i] = anew[i]
  BY DEF Joint
<1>7. \A i \in DOMAIN after : i \in 1 .. N /\ i \in DOMAIN rows /\ i \notin DOMAIN anew
  BY <1>3, <1>5 DEF AfterFits, RowsFit, AreNew
<1>8. \A i \in DOMAIN after : i \in Nat /\ i > 0
  BY <1>7
<1>9. IsFiniteSet(DOMAIN J)
  <2>1. IsFiniteSet(DOMAIN after)
    <3>1. DOMAIN after \subseteq 1 .. N /\ IsFiniteSet(1 .. N)
      BY <1>7, FS_Interval
    <3> QED BY <3>1, FS_Subset
  <2>2. IsFiniteSet(DOMAIN anew)
    BY <1>5 DEF AreNew
  <2> DEFINE A == DOMAIN after
             B == DOMAIN anew
  <2> HIDE DEF A, B
  <2>3. IsFiniteSet(A \cup B)
    BY <2>1, <2>2, FS_Union DEF A, B
  <2> QED BY <1>6, <2>3 DEF A, B
<1>10. \A p \in DOMAIN anew : \E k \in fresh : p = Placeholder(k) /\ IsPhrase(anew[p], word.name, k, "auto", "none")
  BY <1>5 DEF AreNew
<1>11. \A k \in fresh : k \in Keys
  BY <1>4 DEF WordFits
<1>12. Selectable(J)
  <2>1. \A i \in DOMAIN after : after[i].key = placed[i].key
    BY <1>3 DEF AfterFits, Fields, Written
  <2>2. \A i \in DOMAIN J : J[i] \in PhraseRow /\ (J[i].origin = "auto" => J[i].key \in Keys)
    <3> TAKE i \in DOMAIN J
    <3>1. CASE i \in DOMAIN after
      BY <1>3, <1>6, <3>1 DEF AfterFits, Selectable
    <3>2. CASE i \notin DOMAIN after
      BY <1>6, <1>10, <1>11, <3>2 DEF IsPhrase
    <3> QED BY <3>1, <3>2
  <2>3. ASSUME NEW i \in DOMAIN J, NEW j \in DOMAIN J, J[i].origin = "auto", J[j].origin = "auto",
               J[i].key = J[j].key
        PROVE  i = j
    <3>1. CASE i \in DOMAIN after /\ j \in DOMAIN after
      <4>1. Selectable(after)
        BY <1>3 DEF AfterFits
      <4> QED BY <1>6, <2>3, <3>1, <4>1 DEF Selectable
    <3>2. CASE i \in DOMAIN after /\ j \notin DOMAIN after
      <4>1. J[j].key \in fresh
        BY <1>6, <1>10, <3>2 DEF IsPhrase
      <4>2. J[i].key = placed[i].key /\ i \in DOMAIN rows
        BY <1>6, <1>7, <2>1, <3>2
      <4> QED BY <1>4, <2>3, <4>1, <4>2
    <3>3. CASE i \notin DOMAIN after /\ j \in DOMAIN after
      <4>1. J[i].key \in fresh
        BY <1>6, <1>10, <3>3 DEF IsPhrase
      <4>2. J[j].key = placed[j].key /\ j \in DOMAIN rows
        BY <1>6, <1>7, <2>1, <3>3
      <4> QED BY <1>4, <2>3, <4>1, <4>2
    <3>4. CASE i \notin DOMAIN after /\ j \notin DOMAIN after
      <4>1. i = Placeholder(J[i].key) /\ j = Placeholder(J[j].key)
        BY <1>6, <1>10, <3>4 DEF IsPhrase
      <4> QED BY <2>3, <4>1
    <3> QED BY <3>1, <3>2, <3>3, <3>4
  <2>4. ASSUME NEW i \in DOMAIN J, NEW j \in DOMAIN J, J[i].shown = "selection",
               J[j].shown = "selection"
        PROVE  i = j
    <3>1. \A n \in DOMAIN J : J[n].shown = "selection" => n \in DOMAIN after
      BY <1>6, <1>10 DEF IsPhrase
    <3>2. Selectable(after)
      BY <1>3 DEF AfterFits
    <3> QED BY <1>6, <2>4, <3>1, <3>2 DEF Selectable
  <2> QED BY <2>2, <2>3, <2>4 DEF Selectable
<1> QED BY <1>1, <1>2, <1>3, <1>4, <1>5, <1>6, <1>7, <1>8, <1>9, <1>12 DEF Settles

(* Every place of the analysis is free, or taken, or its line is held.     *)
LEMMA PlacesAre ==
  ASSUME NEW placed, NEW after, NEW at, NEW k \in DOMAIN at
  PROVE  \/ k \in FreshPlaces(placed, after, at)
         \/ \E i \in DOMAIN placed : placed[i].key = k
         \/ \E i \in DOMAIN after : /\ after[i].key # Unplaced /\ after[i].key \notin DOMAIN at
                                    /\ after[i].key[1] = k[1]
BY DEF FreshPlaces

(* A plan stamps each phrase that stays once at most.                      *)
LEMMA SectionsAre ==
  ASSUME NEW judged, NEW after, NEW word, NEW S, S = SectionsOf(judged, after, word)
  PROVE  /\ \A c \in S : c[1] \in DOMAIN after /\ c[2] \in SectionNames
         /\ OneEach(S)
<1> DEFINE g == [i \in DOMAIN after \ Rewrites(judged) |-> after[i]]
           E(i) == Earned(Shown(g[i]), word.data, word.knows)
           I == {j \in DOMAIN g : ~KeepsSection(g[j]) /\ g[j].section # E(j)}
<1>1. S = {<<i, E(i)>> : i \in I}
  BY DEF SectionsOf, Sections
<1>2. \A i \in I : i \in DOMAIN after /\ E(i) \in SectionNames
  BY EarnedIs
<1> HIDE DEF E, I
<1> QED BY <1>1, <1>2 DEF OneEach

(* The marks of the phrases a plan has.                                    *)
ChangeFits(c, J, word, after) ==
    /\ SelectionFits(J, word.decided, c, Marked(J) \ c.clear)
    /\ c.clear \subseteq DOMAIN after
    /\ \A i \in DOMAIN J : /\ i \in c.set => J[i].shown = "none"
                           /\ i \in c.clear => J[i].shown = "selection"

(* The marks a plan sets and clears are the selection's, among the phrases *)
(* planned.                                                                *)
LEMMA ChangeIs ==
  ASSUME NEW rows, NEW word, WordFits(word), NEW judged, NEW after, NEW anew, NEW fresh,
         NEW J, J = Joint(after, anew), Settles(rows, word, judged, after, anew, fresh, J),
         NEW c, c = ChangeOf(after, anew, word)
  PROVE  ChangeFits(c, J, word, after)
<1> DEFINE kept == Marked(J) \ c.clear
<1>1. kept = Marked(J) \ c.clear
  OBVIOUS
<1>2. c = Selection(J, word.decided, word.knows) /\ Selectable(J) /\ word.decided \in BOOLEAN
  BY DEF ChangeOf, Settles, WordFits
<1> HIDE DEF kept
<1>3. SelectionFits(J, word.decided, c, kept)
  BY <1>1, <1>2, SelectionIs
<1>4. \A i \in DOMAIN J : J[i].shown \in {"none", "selection", "user"}
  BY <1>2, RowsAre DEF Selectable, RowTypes
<1>5. \A i \in DOMAIN J : /\ i \in c.set => J[i].shown = "none"
                          /\ i \in c.clear => J[i].shown = "selection"
  BY <1>3, <1>4 DEF SelectionFits, Marked, MaySelect
<1>6. c.clear \subseteq DOMAIN after
  <2>1. \A i \in Marked(J) : i \in DOMAIN after
    <3> TAKE i \in Marked(J)
    <3>1. i \in DOMAIN J /\ J[i].shown = "selection"
      BY DEF Marked
    <3>2. CASE i \in DOMAIN anew
      <4>1. \E k \in fresh : IsPhrase(anew[i], word.name, k, "auto", "none")
        BY <3>2 DEF Settles, AreNew
      <4>2. J[i].shown = "none"
        BY <3>2, <4>1 DEF IsPhrase, Settles
      <4> QED BY <3>1, <4>2
    <3> QED BY <3>1, <3>2 DEF Settles
  <2> QED BY <1>3, <2>1 DEF SelectionFits
<1> QED BY <1>1, <1>3, <1>5, <1>6 DEF ChangeFits

(* The plan of a word changes phrases of the word only.                    *)
LEMMA PlanIsLocalTo ==
  ASSUME NEW N \in Nat, NEW rows, RowsFit(rows, N), NEW word, WordFits(word), NEW judged,
         NEW after, NEW anew, NEW fresh,
         Settles(rows, word, judged, after, anew, fresh, Joint(after, anew)),
         NEW p, PlanFits(p, rows, judged, after, anew, word)
  PROVE  PlanIsLocal(p, DOMAIN rows)
<1> DEFINE c == ChangeOf(after, anew, word)
           D == DOMAIN rows
           J == Joint(after, anew)
           S == SectionsOf(judged, after, word)
<1>1. /\ p.moved = judged.moved /\ p.deleted = Fated(judged, "goes")
      /\ p.rewritten = RewrittenBy(judged, rows, after, word)
      /\ p.rescored = RescoredBy(judged, rows, after)
      /\ p.cleared = c.clear /\ p.chosen = c.set \ DOMAIN anew /\ p.sections = S
  BY DEF PlanFits
<1>2. DOMAIN judged.fate = D /\ DOMAIN after \subseteq D /\ DOMAIN J = DOMAIN after \cup DOMAIN anew
  BY DEF Settles, JudgedIs, AfterFits
<1>3. SelectionFits(J, word.decided, c, Marked(J) \ c.clear) /\ c.clear \subseteq DOMAIN after
  <2>1. Settles(rows, word, judged, after, anew, fresh, J) /\ J = Joint(after, anew)
        /\ c = ChangeOf(after, anew, word)
    OBVIOUS
  <2> HIDE DEF J, c
  <2>2. ChangeFits(c, J, word, after)
    BY <2>1, ChangeIs
  <2> QED BY <2>2 DEF ChangeFits
<1>4. p.deleted \subseteq D /\ p.cleared \subseteq D /\ p.chosen \subseteq D
  <2>1. p.deleted \subseteq D
    BY <1>1, <1>2 DEF Fated
  <2>2. c.set \subseteq DOMAIN J
    BY <1>3 DEF SelectionFits
  <2> HIDE DEF c, J
  <2> QED BY <1>1, <1>2, <1>3, <2>1, <2>2
<1>5. (\A d \in p.moved : d[1] \in D) /\ OneEach(p.moved)
  <2> DEFINE moved == judged.moved
             at == word.at
  <2>1. moved = MovedKeys(rows, at)
    BY DEF Settles, JudgedIs
  <2>2. /\ DOMAIN at \subseteq Keys /\ DOMAIN rows \subseteq 1 .. N
        /\ \A i \in Strays(rows, at) : rows[i].key \in Keys
    BY DEF WordFits, RowsFit, Selectable, Strays
  <2> HIDE DEF moved, at
  <2>3. /\ moved \subseteq Strays(rows, at) \X (DOMAIN at \ Held(rows))
        /\ \A m, n \in moved : m[1] = n[1] \/ m[2] = n[2] => m = n
    BY <2>1, <2>2, MovedAre
  <2>4. \A d \in moved : d[1] \in Strays(rows, at)
    BY <2>3
  <2>5. \A d \in moved : d[1] \in D
    BY <2>4 DEF Strays
  <2> QED BY <1>1, <2>3, <2>5 DEF OneEach, moved
<1>7. (\A d \in p.rewritten : d[1] \in D) /\ OneEach(p.rewritten)
  <2>1. Rewrites(judged) \subseteq D
    BY <1>2 DEF Rewrites, Fated
  <2> QED BY <1>1, <2>1 DEF RewrittenBy, OneEach
<1>8. (\A d \in p.rescored : d[1] \in D) /\ OneEach(p.rescored)
  <2>1. Fated(judged, "rescored") \subseteq D
    BY <1>2 DEF Fated
  <2> QED BY <1>1, <2>1 DEF RescoredBy, OneEach
<1>9. (\A d \in p.sections : d[1] \in D) /\ OneEach(p.sections)
  <2>1. (\A d \in S : d[1] \in DOMAIN after) /\ OneEach(S)
    BY SectionsAre
  <2> QED BY <1>1, <1>2, <2>1
<1> QED BY <1>4, <1>5, <1>7, <1>8, <1>9 DEF PlanIsLocal

(* A phrase that stays is written as its plan has it, but for its job.     *)
LEMMA FinalRowIs ==
  ASSUME NEW N \in Nat, NEW rows, RowsFit(rows, N), NEW word, WordFits(word),
         NEW judged, judged = Judged(rows, word), NEW after, after = Left(judged, word),
         NEW anew, NEW fresh, NEW J, J = Joint(after, anew),
         Settles(rows, word, judged, after, anew, fresh, J),
         NEW p, PlanFits(p, rows, judged, after, anew, word), NEW i \in DOMAIN after,
         NEW c, c = ChangeOf(after, anew, word)
  PROVE  /\ i \in DOMAIN p.view /\ Viewed(p.view[i], i, after[i], c)
         /\ Differs(WrittenRow(rows[i], i, p), after[i], "job", JobAfter(rows[i], judged.fate[i]))
         /\ Differs(FinalRow(rows[i], i, p), p.view[i], "job", JobAfter(rows[i], judged.fate[i]))
<1> DEFINE a == after[i]
           job == JobAfter(rows[i], judged.fate[i])
           S == SectionsOf(judged, after, word)
           v == p.view[i]
           s == WrittenRow(rows[i], i, p)
           r == FinalRow(rows[i], i, p)
           chosen == p.chosen
<1>1. /\ p.moved = judged.moved /\ p.rewritten = RewrittenBy(judged, rows, after, word)
      /\ p.rescored = RescoredBy(judged, rows, after) /\ p.cleared = c.clear
      /\ chosen = c.set \ DOMAIN anew /\ p.sections = S
      /\ p.view = View(after, c, S)
  BY DEF PlanFits
<1>2. Differs(s, a, "job", job)
  <2>1. s = Scored(Recast(Rekeyed(rows[i], i, judged.moved), i,
                           RewrittenBy(judged, rows, after, word)),
                    i, RescoredBy(judged, rows, after))
    BY <1>1, Zenon DEF WrittenRow
  <2> HIDE DEF s
  <2> QED BY <2>1, CastIs
<1>3. a \in PhraseRow /\ \A d \in S : d[2] \in SectionNames
  <2>1. AfterFits(after, judged, rows, word)
    BY DEF Settles
  <2> QED BY <2>1, SectionsAre DEF AfterFits
<1>4. /\ Viewed(v, i, a, c)
      /\ v.section = IF i \in Ids(S) THEN To(S, i) ELSE a.section
  <2>1. v = View(after, c, S)[i]
    BY <1>1
  <2> HIDE DEF v, S
  <2> QED BY <1>3, <2>1, ViewIs
<1>5. /\ i \in c.set => a.shown = "none"
      /\ i \in c.clear => a.shown = "selection"
      /\ i \in chosen <=> i \in c.set
  <2>1. \A j \in DOMAIN J : /\ j \in c.set => J[j].shown = "none"
                            /\ j \in c.clear => J[j].shown = "selection"
    <3>1. ChangeFits(c, J, word, after)
      BY ChangeIs
    <3> QED BY <3>1 DEF ChangeFits
  <2>2. i \in DOMAIN J /\ J[i] = a /\ i \notin DOMAIN anew
    BY DEF Settles
  <2> QED BY <1>1, <2>1, <2>2
<1>6. r = Stamped(MarkedIn(Unmarked(s, i, c.clear), i, chosen), i, S)
  BY <1>1, Zenon DEF FinalRow
<1>7. i \in DOMAIN p.view
  BY <1>1 DEF View
<1> HIDE DEF a, job, S, v, s, r, chosen
<1>8. Differs(r, v, "job", job)
  BY <1>2, <1>3, <1>4, <1>5, <1>6, MarkedRowIs
<1> QED BY <1>2, <1>4, <1>7, <1>8 DEF a, job, v, s, r

(* What a rebuild is planned from: `x` holds the phrases and the words as  *)
(* stored, the analysis and the rules.                                     *)
RowsAt(x, w) == RowsOf(x.phrases, w)
WordAt(x, w) == WordOf(w, RowsAt(x, w), IF w \in DOMAIN x.words THEN {x.words[w]} ELSE {},
                       IF w \in DOMAIN x.analysis THEN {x.analysis[w].data} ELSE {},
                       IF w \in DOMAIN x.analysis THEN x.analysis[w].at ELSE <<>>, x.rules)
JudgedAt(x, w) == Judged(RowsAt(x, w), WordAt(x, w))
AfterAt(x, w) == Left(JudgedAt(x, w), WordAt(x, w))
FreshAt(x, w) == FreshPlaces(JudgedAt(x, w).placed, AfterAt(x, w), WordAt(x, w).at)
AnewAt(x, w) == Anew(FreshAt(x, w), WordAt(x, w))
JointAt(x, w) == Joint(AfterAt(x, w), AnewAt(x, w))
ChangeAt(x, w) == ChangeOf(AfterAt(x, w), AnewAt(x, w), WordAt(x, w))
PlanAt(x) == Plan(x.phrases, x.words, x.analysis, x.rules)

(* What is stored and what was analysed can be planned.                    *)
Plannable(x, next0) ==
    /\ next0 \in Nat \ {0} /\ DOMAIN x.phrases \subseteq 1 .. next0 - 1
    /\ DOMAIN x.words \subseteq Words
    /\ \A i \in DOMAIN x.phrases : x.phrases[i] \in PhraseRow /\ x.phrases[i].word \in DOMAIN x.words
    /\ \A w \in Words : Selectable(RowsOf(x.phrases, w))
    /\ x.analysis \in Analyses

(* A word of a plan, planned.                                              *)
WordPlanned(x, next0, plan, w) ==
    /\ w \in Words /\ next0 - 1 \in Nat
    /\ RowsFit(RowsAt(x, w), next0 - 1) /\ WordFits(WordAt(x, w))
    /\ Settles(RowsAt(x, w), WordAt(x, w), JudgedAt(x, w), AfterAt(x, w), AnewAt(x, w),
               FreshAt(x, w), JointAt(x, w))
    /\ PlanFits(plan[w], RowsAt(x, w), JudgedAt(x, w), AfterAt(x, w), AnewAt(x, w), WordAt(x, w))
    /\ PlanIsLocal(plan[w], DOMAIN RowsAt(x, w))

(* What an analysis is.                                                    *)
LEMMA AnalysisIs ==
  ASSUME NEW a \in Analyses
  PROVE  /\ DOMAIN a \subseteq Words
         /\ \A w \in DOMAIN a : /\ a[w].data \in Data
                                /\ DOMAIN a[w].at \subseteq Keys
                                /\ \A k \in DOMAIN a[w].at : a[w].at[k] \in Found
BY SourceWordsAssumption DEF Data, Keys, Found

(* Every word of a plan is planned from its own rows, data and places.     *)
LEMMA PlannedIs ==
  ASSUME NEW x, NEW next0, Plannable(x, next0), NEW plan, plan = PlanAt(x), NEW w \in DOMAIN plan
  PROVE  WordPlanned(x, next0, plan, w)
<1> DEFINE rows == RowsAt(x, w)
           stored == IF w \in DOMAIN x.words THEN {x.words[w]} ELSE {}
           found == IF w \in DOMAIN x.analysis THEN {x.analysis[w].data} ELSE {}
           at == IF w \in DOMAIN x.analysis THEN x.analysis[w].at ELSE <<>>
           word == WordAt(x, w)
           judged == JudgedAt(x, w)
           after == AfterAt(x, w)
           fresh == FreshAt(x, w)
           anew == AnewAt(x, w)
           J == JointAt(x, w)
           p == plan[w]
           rules == x.rules
<1>0. x.analysis \in Analyses
  BY DEF Plannable
<1>1. DOMAIN plan = DOMAIN x.words \cup DOMAIN x.analysis /\ p = WordPlan(w, rows, stored, found, at, rules)
  BY Zenon DEF PlanAt, Plan, RowsAt
<1>2. w \in Words /\ DOMAIN at \subseteq Keys /\ \A k \in DOMAIN at : at[k] \in Found
  <2>1. CASE w \in DOMAIN x.analysis
    BY <1>0, <2>1, AnalysisIs
  <2>2. CASE w \notin DOMAIN x.analysis
    <3>1. at = <<>> /\ DOMAIN at = {}
      BY <2>2
    <3>2. w \in Words
      BY <1>1, <2>2 DEF Plannable
    <3> QED BY <3>1, <3>2
  <2> QED BY <2>1, <2>2
<1>3. RowsFit(rows, next0 - 1) /\ next0 - 1 \in Nat
  <2>1. Selectable(rows)
    BY <1>2 DEF Plannable, RowsAt
  <2>2. DOMAIN rows \subseteq 1 .. next0 - 1
    BY DEF Plannable, RowsAt, RowsOf
  <2>3. next0 - 1 \in Nat
    BY DEF Plannable
  <2> QED BY <2>1, <2>2, <2>3 DEF RowsFit
<1>4. word = WordOf(w, rows, stored, found, at, rules)
  BY Zenon DEF WordAt
<1>5. stored = {} => DOMAIN rows = {}
  <2> SUFFICES ASSUME stored = {}, NEW i \in DOMAIN rows PROVE FALSE
    OBVIOUS
  <2>1. i \in DOMAIN x.phrases /\ x.phrases[i].word = w
    BY DEF RowsAt, RowsOf
  <2>2. w \in DOMAIN x.words
    BY <2>1 DEF Plannable
  <2> QED BY <2>2
<1> HIDE DEF rows, stored, found, at, rules
<1>6. word.name = w /\ word.at = at /\ word.decided \in BOOLEAN /\ word.kept \in BOOLEAN
  <2> HIDE DEF word
  <2>1. WordIs(word, w, rows, stored, found, at)
    BY <1>4, WordOfIs
  <2> QED BY <2>1 DEF WordIs
<1>7. WordFits(word)
  BY <1>2, <1>6 DEF WordFits
<1>8. /\ judged = Judged(rows, word) /\ after = Left(judged, word)
      /\ fresh = FreshPlaces(judged.placed, after, word.at) /\ anew = Anew(fresh, word)
      /\ J = Joint(after, anew)
  BY Zenon DEF JudgedAt, AfterAt, FreshAt, AnewAt, JointAt, rows
<1> HIDE DEF word, judged, after, fresh, anew, J, p
<1>9. Settles(rows, word, judged, after, anew, fresh, J)
  BY <1>3, <1>7, <1>8, WordSettles
<1>10. PlanFits(p, rows, judged, after, anew, word)
  <2>1. anew = Anew(FreshPlaces(judged.placed, after, at), word)
    BY <1>6, <1>8
  <2> QED BY <1>1, <1>4, <1>5, <1>7, <1>8, <2>1, WordPlanIs
<1>11. PlanIsLocal(p, DOMAIN rows)
  <2>1. Settles(rows, word, judged, after, anew, fresh, Joint(after, anew))
    BY <1>8, <1>9
  <2> QED BY <1>3, <1>7, <1>10, <2>1, PlanIsLocalTo
<1> QED BY <1>2, <1>3, <1>7, <1>9, <1>10, <1>11 DEF WordPlanned, rows, word, judged, after, fresh, anew, J, p

(* A function of a finite set has finitely many values.                    *)
LEMMA ImageIsFinite ==
  ASSUME NEW f, IsFiniteSet(DOMAIN f), NEW T, T = {f[i] : i \in DOMAIN f}
  PROVE  IsFiniteSet(T)
<1> DEFINE S == DOMAIN f
           g == [i \in S |-> f[i]]
<1>1. g \in [S -> T] /\ \A b \in T : \E d \in S : g[d] = b
  OBVIOUS
<1>2. IsFiniteSet(S)
  OBVIOUS
<1> HIDE DEF S, g
<1>3. g \in Surjection(S, T)
  BY <1>1, Fun_IsSurj
<1> QED BY <1>2, <1>3, FS_Surjection

-----------------------------------------------------------------------------
(* What is stored after a rebuild.                                         *)

(* A phrase that is new at a place.                                        *)
NewRow(r, x, w, k) ==
    /\ r \in PhraseRow /\ r.word = w /\ r.key = k /\ r.origin = "auto" /\ r.made = {}
    /\ r.choice = "none" /\ r.removed = FALSE /\ r.replaces = FALSE /\ r.job = "none"
    /\ r.shown = IF Placeholder(k) \in ChangeAt(x, w).set THEN "selection" ELSE "none"
    /\ \A f \in Fields \ {"shown"} : r[f] = AnewAt(x, w)[Placeholder(k)][f]

(* The rows inserted for a word.                                           *)
InsertedFits(inserted, x, w) ==
    /\ \A y \in inserted : \E k \in FreshAt(x, w) : NewRow(y, x, w, k)
    /\ \A k \in FreshAt(x, w) : \E y \in inserted : NewRow(y, x, w, k)
    /\ \A y, z \in inserted : y.key = z.key => y = z
    /\ IsFiniteSet(inserted)

(* A plan inserts a row for each free place of a word.                     *)
LEMMA InsertedAre ==
  ASSUME NEW x, NEW next0, NEW plan, NEW w, WordPlanned(x, next0, plan, w)
  PROVE  InsertedFits(plan[w].inserted, x, w)
<1> DEFINE anew == AnewAt(x, w)
           fresh == FreshAt(x, w)
           c == ChangeAt(x, w)
           mark(i) == IF i \in c.set THEN "selection" ELSE "none"
           g == [i \in DOMAIN anew |-> [anew[i] EXCEPT !.shown = mark(i)]]
           T == plan[w].inserted
<1>1. /\ AreNew(anew, fresh, w) /\ w \in Words
      /\ fresh \subseteq Keys
  <2>1. AreNew(anew, fresh, WordAt(x, w).name) /\ fresh \subseteq DOMAIN WordAt(x, w).at
        /\ WordFits(WordAt(x, w)) /\ w \in Words
    BY DEF WordPlanned, Settles
  <2>2. WordAt(x, w).name = w
    <3> DEFINE stored == IF w \in DOMAIN x.words THEN {x.words[w]} ELSE {}
               found == IF w \in DOMAIN x.analysis THEN {x.analysis[w].data} ELSE {}
               at == IF w \in DOMAIN x.analysis THEN x.analysis[w].at ELSE <<>>
               rows == RowsAt(x, w)
               word == WordAt(x, w)
               rules == x.rules
    <3>1. word = WordOf(w, rows, stored, found, at, rules)
      BY Zenon DEF WordAt
    <3> HIDE DEF stored, found, at, rows, word, rules
    <3>2. WordIs(word, w, rows, stored, found, at)
      BY <3>1, WordOfIs
    <3> QED BY <3>2 DEF WordIs, word
  <2> QED BY <2>1, <2>2 DEF WordFits
<1>2. T = {g[i] : i \in DOMAIN g}
  <2>1. T = InsertedBy(anew, c)
    BY DEF WordPlanned, PlanFits, ChangeAt
  <2> QED BY <2>1 DEF InsertedBy
<1>3. ASSUME NEW k \in fresh
      PROVE  Placeholder(k) \in DOMAIN g /\ NewRow(g[Placeholder(k)], x, w, k)
  <2> DEFINE i == Placeholder(k)
             o == anew[i]
             y == g[i]
             v == mark(i)
  <2>1. i \in DOMAIN anew /\ IsPhrase(o, w, k, "auto", "none")
    BY <1>1 DEF AreNew
  <2>2. y = [o EXCEPT !.shown = v]
    BY <2>1
  <2>3. v \in {"none", "selection", "user"}
    OBVIOUS
  <2> HIDE DEF o, y, v
  <2>4. Differs(y, o, "shown", v)
    BY <2>1, <2>2, <2>3, SetShown DEF IsPhrase
  <2>5. /\ y \in PhraseRow /\ y.shown = v /\ \A f \in Fields \ {"shown"} : y[f] = o[f]
        /\ y.word = w /\ y.key = k /\ y.origin = "auto" /\ y.made = {}
        /\ y.choice = "none" /\ y.removed = FALSE /\ y.replaces = FALSE /\ y.job = "none"
    BY <2>1, <2>4 DEF IsPhrase, Differs, Fields
  <2> QED BY <2>1, <2>5 DEF NewRow, o, y, v
<1>4. \A i \in DOMAIN g : \E k \in fresh : i = Placeholder(k)
  BY <1>1 DEF AreNew
<1>5. IsFiniteSet(T)
  <2>1. IsFiniteSet(DOMAIN g)
    BY <1>1 DEF AreNew
  <2> HIDE DEF g, T
  <2> QED BY <1>2, <2>1, ImageIsFinite
<1> HIDE DEF g, T, c, anew, fresh
<1>6. \A y \in T : \E k \in fresh : y = g[Placeholder(k)] /\ NewRow(y, x, w, k)
  BY <1>2, <1>3, <1>4
<1>7. \A y, z \in T : y.key = z.key => y = z
  BY <1>6 DEF NewRow
<1>8. \A k \in fresh : \E y \in T : NewRow(y, x, w, k)
  BY <1>2, <1>3
<1> QED BY <1>5, <1>6, <1>7, <1>8 DEF InsertedFits, T, fresh

(* What is stored after a rebuild: the phrases that stay, as their plan    *)
(* has them, and the new ones.                                             *)
RebuiltFits(r, x, plan, next0) ==
    /\ Cardinality(InsertedIn(plan)) \in Nat
    /\ DOMAIN r \subseteq 1 .. next0 + Cardinality(InsertedIn(plan)) - 1
    /\ \A i \in DOMAIN x.phrases : /\ x.phrases[i].word \in DOMAIN plan
                                   /\ i \in DOMAIN r <=> i \in DOMAIN AfterAt(x, x.phrases[i].word)
    /\ \A i \in DOMAIN r \cap DOMAIN x.phrases :
          LET w == x.phrases[i].word
              v == plan[w].view[i]
          IN  /\ i \in DOMAIN plan[w].view /\ Viewed(v, i, AfterAt(x, w)[i], ChangeAt(x, w))
              /\ Differs(r[i], v, "job", JobAfter(x.phrases[i], JudgedAt(x, w).fate[i]))
    /\ \A n \in DOMAIN r \ DOMAIN x.phrases :
          \E w \in DOMAIN plan : \E k \in FreshAt(x, w) : NewRow(r[n], x, w, k)
    /\ \A w \in DOMAIN plan : \A k \in FreshAt(x, w) :
          \E n \in DOMAIN r \ DOMAIN x.phrases : NewRow(r[n], x, w, k)
    /\ \A m, n \in DOMAIN r \ DOMAIN x.phrases :
          r[m].word = r[n].word /\ r[m].key = r[n].key => m = n

(* A rebuild makes the rows its plan says of the stored ones, and new rows *)
(* for the free places.                                                    *)
LEMMA RebuiltIs ==
  ASSUME NEW x, NEW next0, Plannable(x, next0), NEW plan, plan = PlanAt(x),
         NEW r, r = Applied(x.phrases, plan, next0)
  PROVE  RebuiltFits(r, x, plan, next0)
<1> DEFINE old == x.phrases
           P(w) == plan[w]
<1>1. DOMAIN plan = DOMAIN x.words \cup DOMAIN x.analysis /\ DOMAIN plan \subseteq Words
  <2>1. DOMAIN plan = DOMAIN x.words \cup DOMAIN x.analysis
    BY DEF PlanAt, Plan
  <2>2. DOMAIN x.analysis \subseteq Words
    BY AnalysisIs DEF Plannable
  <2> QED BY <2>1, <2>2 DEF Plannable
<1>2. \A w \in DOMAIN plan : WordPlanned(x, next0, plan, w)
  BY PlannedIs
<1>3. \A i \in DOMAIN old : /\ old[i].word \in DOMAIN plan /\ old[i] \in PhraseRow
                            /\ i \in DOMAIN RowsAt(x, old[i].word)
                            /\ RowsAt(x, old[i].word)[i] = old[i]
  BY <1>1 DEF Plannable, RowsAt, RowsOf
<1>4. \A w \in DOMAIN plan : PlanIsLocal(plan[w], DOMAIN RowsOf(old, w))
  BY <1>2 DEF WordPlanned, RowsAt
<1>5. ASSUME NEW w \in DOMAIN plan
      PROVE  /\ plan[w].deleted = Fated(JudgedAt(x, w), "goes")
             /\ DOMAIN AfterAt(x, w) = DOMAIN RowsAt(x, w) \ plan[w].deleted
             /\ plan[w].gone => DOMAIN AfterAt(x, w) = {}
  BY <1>2 DEF WordPlanned, PlanFits, Settles, AfterFits
<1>6. \A i \in DOMAIN old : plan[old[i].word].gone => i \in plan[old[i].word].deleted
  BY <1>3, <1>5
<1>7. \A i \in DOMAIN old : i \in DeletedIn(plan) <=> i \in plan[old[i].word].deleted
  <2> TAKE i \in DOMAIN old
  <2>1. old[i].word \in DOMAIN plan
    BY <1>3
  <2>2. i \in plan[old[i].word].deleted => i \in DeletedIn(plan)
    BY <2>1 DEF DeletedIn
  <2>3. ASSUME i \in DeletedIn(plan) PROVE i \in plan[old[i].word].deleted
    <3>1. PICK w \in DOMAIN plan : i \in plan[w].deleted
      BY <2>3 DEF DeletedIn
    <3>2. i \in DOMAIN RowsOf(old, w)
      BY <1>4, <3>1 DEF PlanIsLocal
    <3> QED BY <3>1, <3>2 DEF RowsOf
  <2> QED BY <2>2, <2>3
<1>8. \A i \in DOMAIN old : i \in DOMAIN AfterAt(x, old[i].word) <=> i \notin DeletedIn(plan)
  BY <1>3, <1>5, <1>7
<1>9. \A w \in DOMAIN plan : InsertedFits(plan[w].inserted, x, w)
  BY <1>2, InsertedAre
<1>10. IsFiniteSet(InsertedIn(plan))
  <2> DEFINE f == [w \in DOMAIN plan |-> plan[w].inserted]
             T == {f[w] : w \in DOMAIN f}
  <2>1. IsFiniteSet(DOMAIN f)
    <3>1. IsFiniteSet(Words)
      BY SourceWordsAssumption
    <3> QED BY <1>1, <3>1, FS_Subset
  <2>2. IsFiniteSet(T)
    <3> HIDE DEF f
    <3> QED BY <2>1, ImageIsFinite
  <2>3. \A S \in T : IsFiniteSet(S)
    BY <1>9 DEF InsertedFits
  <2>4. InsertedIn(plan) = UNION T
    BY DEF InsertedIn
  <2> HIDE DEF T
  <2> QED BY <2>2, <2>3, <2>4, FS_UNION
<1>11. ASSUME NEW i \in DOMAIN old, i \notin DeletedIn(plan), NEW w, w = old[i].word
       PROVE  /\ i \in DOMAIN plan[w].view
              /\ Viewed(plan[w].view[i], i, AfterAt(x, w)[i], ChangeAt(x, w))
              /\ Differs(WrittenRow(old[i], i, plan[w]), AfterAt(x, w)[i], "job",
                         JobAfter(old[i], JudgedAt(x, w).fate[i]))
              /\ Differs(FinalRow(old[i], i, plan[w]), plan[w].view[i], "job",
                         JobAfter(old[i], JudgedAt(x, w).fate[i]))
  <2> DEFINE rows == RowsAt(x, w)
             word == WordAt(x, w)
             judged == JudgedAt(x, w)
             after == AfterAt(x, w)
             fresh == FreshAt(x, w)
             anew == AnewAt(x, w)
             J == JointAt(x, w)
             c == ChangeAt(x, w)
             p == plan[w]
             N == next0 - 1
  <2>1. w \in DOMAIN plan /\ rows[i] = old[i] /\ i \in DOMAIN after
    BY <1>3, <1>8, <1>11
  <2>2. /\ N \in Nat /\ RowsFit(rows, N) /\ WordFits(word)
        /\ Settles(rows, word, judged, after, anew, fresh, J)
        /\ PlanFits(p, rows, judged, after, anew, word)
    BY <1>2, <2>1 DEF WordPlanned
  <2>3. /\ judged = Judged(rows, word) /\ after = Left(judged, word)
        /\ J = Joint(after, anew) /\ c = ChangeOf(after, anew, word)
    BY Zenon DEF JudgedAt, AfterAt, JointAt, ChangeAt
  <2> HIDE DEF rows, word, judged, after, fresh, anew, J, c, p, N
  <2>4. /\ i \in DOMAIN p.view /\ Viewed(p.view[i], i, after[i], c)
        /\ Differs(WrittenRow(rows[i], i, p), after[i], "job", JobAfter(rows[i], judged.fate[i]))
        /\ Differs(FinalRow(rows[i], i, p), p.view[i], "job", JobAfter(rows[i], judged.fate[i]))
    BY <2>1, <2>2, <2>3, FinalRowIs
  <2> QED BY <2>1, <2>4 DEF after, c, p, judged
<1>12. \A y \in InsertedIn(plan) : \A i \in DOMAIN old \ DeletedIn(plan) :
          ~IsTwin(WrittenRow(old[i], i, plan[old[i].word]), y)
  <2> SUFFICES ASSUME NEW y \in InsertedIn(plan), NEW i \in DOMAIN old, i \notin DeletedIn(plan),
                      IsTwin(WrittenRow(old[i], i, plan[old[i].word]), y)
               PROVE  FALSE
    OBVIOUS
  <2> DEFINE w == old[i].word
             s == WrittenRow(old[i], i, plan[w])
             a == AfterAt(x, w)[i]
  <2>1. PICK v \in DOMAIN plan : y \in plan[v].inserted
    BY DEF InsertedIn
  <2>2. PICK k \in FreshAt(x, v) : NewRow(y, x, v, k)
    BY <1>9, <2>1 DEF InsertedFits
  <2>3. Differs(s, a, "job", JobAfter(old[i], JudgedAt(x, w).fate[i]))
    BY <1>11
  <2>4. w \in DOMAIN plan /\ i \in DOMAIN RowsAt(x, w) /\ i \in DOMAIN AfterAt(x, w)
    BY <1>3, <1>8
  <2>5. /\ a.key = JudgedAt(x, w).placed[i].key /\ a.word = w
        /\ \A l \in FreshAt(x, w) : JudgedAt(x, w).placed[i].key # l
    <3>1. AfterFits(AfterAt(x, w), JudgedAt(x, w), RowsAt(x, w), WordAt(x, w))
          /\ PlacedFits(JudgedAt(x, w).placed, RowsAt(x, w), WordAt(x, w).at, JudgedAt(x, w).moved)
          /\ \A l \in FreshAt(x, w) : \A j \in DOMAIN RowsAt(x, w) : JudgedAt(x, w).placed[j].key # l
      BY <1>2, <2>4 DEF WordPlanned, Settles
    <3>2. \A f \in Fields \ Written : a[f] = JudgedAt(x, w).placed[i][f]
      BY <2>4, <3>1 DEF AfterFits
    <3>3. JudgedAt(x, w).placed[i].word = RowsAt(x, w)[i].word
      BY <2>4, <3>1 DEF PlacedFits, Fields
    <3> QED BY <1>3, <2>4, <3>1, <3>2, <3>3 DEF Fields, Written
  <2>6. s.word = w /\ s.key = a.key
    BY <2>3, <2>5 DEF Differs, Fields
  <2>7. s.word = y.word /\ s.key = y.key
    BY DEF IsTwin
  <2> QED BY <2>2, <2>5, <2>6, <2>7 DEF NewRow
<1>13. AppliedFits(r, old, plan, next0)
  <2>1. next0 \in Nat \ {0} /\ DOMAIN old \subseteq 1 .. next0 - 1
    BY DEF Plannable
  <2>2. r = Applied(old, plan, next0)
    OBVIOUS
  <2> HIDE DEF old
  <2> QED BY <1>3, <1>4, <1>6, <1>10, <1>12, <2>1, <2>2, AppliedIs
<1> DEFINE n0 == Cardinality(InsertedIn(plan))
           ids == next0 .. next0 + n0 - 1
<1>14. /\ n0 \in Nat /\ DOMAIN r = (DOMAIN old \ DeletedIn(plan)) \cup ids
       /\ \A i \in DOMAIN old \ DeletedIn(plan) : r[i] = FinalRow(old[i], i, plan[old[i].word])
       /\ \A n \in ids : n \notin DOMAIN old /\ r[n] \in InsertedIn(plan)
       /\ \A m, n \in ids : r[m] = r[n] => m = n
       /\ \A y \in InsertedIn(plan) : \E n \in ids : r[n] = y
  BY <1>13 DEF AppliedFits
<1>15. DOMAIN r \subseteq 1 .. next0 + n0 - 1
  <2>1. DOMAIN old \subseteq 1 .. next0 - 1 /\ next0 \in Nat \ {0}
    BY DEF Plannable
  <2>2. 1 .. next0 - 1 \subseteq 1 .. next0 + n0 - 1 /\ ids \subseteq 1 .. next0 + n0 - 1
    BY <1>14, <2>1
  <2> HIDE DEF ids, old, n0
  <2> QED BY <1>14, <2>1, <2>2
<1>16. DOMAIN r \ DOMAIN old = ids
  <2> HIDE DEF ids, old, n0
  <2> QED BY <1>14
<1>17. \A i \in DOMAIN old : i \in DOMAIN r <=> i \in DOMAIN AfterAt(x, old[i].word)
  <2> HIDE DEF ids, old, n0
  <2> QED BY <1>8, <1>14
<1>18. \A i \in DOMAIN r \cap DOMAIN old :
          LET w == old[i].word
              v == plan[w].view[i]
          IN  /\ i \in DOMAIN plan[w].view /\ Viewed(v, i, AfterAt(x, w)[i], ChangeAt(x, w))
              /\ Differs(r[i], v, "job", JobAfter(old[i], JudgedAt(x, w).fate[i]))
  <2> TAKE i \in DOMAIN r \cap DOMAIN old
  <2>1. i \in DOMAIN old /\ i \notin DeletedIn(plan)
    BY <1>8, <1>17
  <2>2. r[i] = FinalRow(old[i], i, plan[old[i].word])
    BY <1>14, <2>1
  <2> QED BY <1>11, <2>1, <2>2
<1>19. \A n \in ids : \E w \in DOMAIN plan : \E k \in FreshAt(x, w) : r[n] \in plan[w].inserted /\ NewRow(r[n], x, w, k)
  <2> TAKE n \in ids
  <2>1. PICK w \in DOMAIN plan : r[n] \in plan[w].inserted
    BY <1>14 DEF InsertedIn
  <2> QED BY <1>9, <2>1 DEF InsertedFits
<1>20. \A w \in DOMAIN plan : \A k \in FreshAt(x, w) : \E n \in ids : NewRow(r[n], x, w, k)
  <2> TAKE w \in DOMAIN plan
  <2> TAKE k \in FreshAt(x, w)
  <2>1. PICK y \in plan[w].inserted : NewRow(y, x, w, k)
    BY <1>9 DEF InsertedFits
  <2>2. y \in InsertedIn(plan)
    BY <2>1 DEF InsertedIn
  <2> QED BY <1>14, <2>1, <2>2
<1>21. \A m, n \in ids : r[m].word = r[n].word /\ r[m].key = r[n].key => m = n
  <2> SUFFICES ASSUME NEW m \in ids, NEW n \in ids, r[m].word = r[n].word, r[m].key = r[n].key
               PROVE  m = n
    OBVIOUS
  <2>1. PICK v \in DOMAIN plan : r[m] \in plan[v].inserted /\ r[m].word = v
    BY <1>19 DEF NewRow
  <2>2. PICK w \in DOMAIN plan : r[n] \in plan[w].inserted /\ r[n].word = w
    BY <1>19 DEF NewRow
  <2>3. r[m] = r[n]
    BY <1>9, <2>1, <2>2 DEF InsertedFits
  <2> QED BY <1>14, <2>3
<1> QED BY <1>3, <1>14, <1>15, <1>16, <1>17, <1>18, <1>19, <1>20, <1>21 DEF RebuiltFits

(* The phrase of the plan a stored one comes from.                         *)
Source(r, x, n) == IF n \in DOMAIN x.phrases THEN n ELSE Placeholder(r[n].key)

(* The phrases of a word after a rebuild are the ones its plan has.        *)
WordRebuilt(r, x, w) ==
    LET J == JointAt(x, w)
        rows == RowsOf(r, w)
    IN  /\ \A n \in DOMAIN rows :
              /\ Source(r, x, n) \in DOMAIN J
              /\ rows[n] \in PhraseRow
              /\ rows[n].shown = ShownAfter(Source(r, x, n), J[Source(r, x, n)].shown, ChangeAt(x, w))
              /\ \A f \in Fields \ {"shown", "section", "job"} : rows[n][f] = J[Source(r, x, n)][f]
        /\ \A m, n \in DOMAIN rows : Source(r, x, m) = Source(r, x, n) => m = n
        /\ \A i \in DOMAIN J : \E n \in DOMAIN rows : Source(r, x, n) = i

(* A row after a rebuild is a row of a word of the plan, as the plan has   *)
(* it.                                                                     *)
LEMMA RebuiltWords ==
  ASSUME NEW x, NEW next0, Plannable(x, next0), NEW plan, plan = PlanAt(x),
         NEW r, RebuiltFits(r, x, plan, next0), NEW n \in DOMAIN r
  PROVE  /\ r[n] \in PhraseRow /\ r[n].word \in DOMAIN plan
         /\ n \in DOMAIN x.phrases => /\ r[n].word = x.phrases[n].word
                                      /\ n \in DOMAIN AfterAt(x, r[n].word)
                                      /\ r[n].shown = ShownAfter(n, AfterAt(x, r[n].word)[n].shown,
                                                                 ChangeAt(x, r[n].word))
                                      /\ \A f \in Fields \ {"shown", "section", "job"} :
                                            r[n][f] = AfterAt(x, r[n].word)[n][f]
         /\ n \notin DOMAIN x.phrases =>
               \E k \in FreshAt(x, r[n].word) : NewRow(r[n], x, r[n].word, k)
<1>1. CASE n \in DOMAIN x.phrases
  <2> DEFINE w == x.phrases[n].word
             v == plan[w].view[n]
             a == AfterAt(x, w)[n]
  <2>1. w \in DOMAIN plan /\ n \in DOMAIN AfterAt(x, w)
    BY <1>1 DEF RebuiltFits
  <2>2. /\ Viewed(v, n, a, ChangeAt(x, w))
        /\ Differs(r[n], v, "job", JobAfter(x.phrases[n], JudgedAt(x, w).fate[n]))
    BY <1>1 DEF RebuiltFits
  <2>3. /\ r[n] \in PhraseRow /\ r[n].shown = ShownAfter(n, a.shown, ChangeAt(x, w))
        /\ \A f \in Fields \ {"shown", "section", "job"} : r[n][f] = a[f]
    <3> HIDE DEF v, a, w
    <3> QED BY <2>2 DEF Differs, Viewed, Fields
  <2>4. a.word = w
    <3>1. WordPlanned(x, next0, plan, w)
      BY <2>1, PlannedIs
    <3>2. AfterFits(AfterAt(x, w), JudgedAt(x, w), RowsAt(x, w), WordAt(x, w))
          /\ PlacedFits(JudgedAt(x, w).placed, RowsAt(x, w), WordAt(x, w).at, JudgedAt(x, w).moved)
      BY <3>1 DEF WordPlanned, Settles
    <3>3. n \in DOMAIN RowsAt(x, w) /\ RowsAt(x, w)[n].word = w
      BY <1>1 DEF RowsAt, RowsOf
    <3>4. a.word = JudgedAt(x, w).placed[n].word
      BY <2>1, <3>2 DEF AfterFits, Fields, Written
    <3>5. JudgedAt(x, w).placed[n].word = RowsAt(x, w)[n].word
      BY <3>2, <3>3 DEF PlacedFits, Fields
    <3> QED BY <3>3, <3>4, <3>5
  <2>5. r[n].word = w
    BY <2>3, <2>4 DEF Fields
  <2> QED BY <1>1, <2>1, <2>3, <2>5
<1>2. CASE n \notin DOMAIN x.phrases
  <2>1. PICK w \in DOMAIN plan : \E k \in FreshAt(x, w) : NewRow(r[n], x, w, k)
    BY <1>2 DEF RebuiltFits
  <2> QED BY <1>2, <2>1 DEF NewRow
<1> QED BY <1>1, <1>2

(* The rows of a word after a rebuild are the phrases its plan has, each   *)
(* once.                                                                   *)
LEMMA WordRebuiltIs ==
  ASSUME NEW x, NEW next0, Plannable(x, next0), NEW plan, plan = PlanAt(x),
         NEW r, RebuiltFits(r, x, plan, next0), NEW w \in DOMAIN plan
  PROVE  WordRebuilt(r, x, w)
<1> DEFINE J == JointAt(x, w)
           after == AfterAt(x, w)
           anew == AnewAt(x, w)
           fresh == FreshAt(x, w)
           rows == RowsOf(r, w)
           c == ChangeAt(x, w)
           S(n) == Source(r, x, n)
<1>1. /\ DOMAIN J = DOMAIN after \cup DOMAIN anew
      /\ \A i \in DOMAIN after : i \in Nat /\ i > 0 /\ i \notin DOMAIN anew /\ J[i] = after[i]
      /\ \A i \in DOMAIN anew : J[i] = anew[i]
      /\ AreNew(anew, fresh, WordAt(x, w).name) /\ fresh \subseteq Keys
      /\ DOMAIN after \subseteq DOMAIN RowsAt(x, w)
  <2>1. WordPlanned(x, next0, plan, w)
    BY PlannedIs
  <2> QED BY <2>1 DEF WordPlanned, Settles, AfterFits, WordFits
<1>2. \A n \in DOMAIN rows : n \in DOMAIN r /\ rows[n] = r[n] /\ r[n].word = w
  BY DEF RowsOf
<1>3. \A n \in DOMAIN r : r[n].word = w => n \in DOMAIN rows
  BY DEF RowsOf
<1>4. ASSUME NEW n \in DOMAIN rows, n \in DOMAIN x.phrases
      PROVE  /\ S(n) = n /\ n \in DOMAIN after /\ rows[n] \in PhraseRow
             /\ rows[n].shown = ShownAfter(n, J[n].shown, c)
             /\ \A f \in Fields \ {"shown", "section", "job"} : rows[n][f] = J[n][f]
  <2>1. n \in DOMAIN r /\ rows[n] = r[n] /\ r[n].word = w
    BY <1>2
  <2>2. /\ r[n] \in PhraseRow /\ n \in DOMAIN after
        /\ r[n].shown = ShownAfter(n, after[n].shown, c)
        /\ \A f \in Fields \ {"shown", "section", "job"} : r[n][f] = after[n][f]
    BY <1>4, <2>1, RebuiltWords
  <2>3. S(n) = n
    BY <1>4 DEF Source
  <2>4. J[n] = after[n]
    BY <1>1, <2>2
  <2> QED BY <2>1, <2>2, <2>3, <2>4
<1>5. ASSUME NEW n \in DOMAIN rows, n \notin DOMAIN x.phrases
      PROVE  \E k \in fresh : S(n) = Placeholder(k) /\ NewRow(rows[n], x, w, k)
  <2>1. n \in DOMAIN r /\ rows[n] = r[n] /\ r[n].word = w
    BY <1>2
  <2>2. PICK k \in fresh : NewRow(r[n], x, w, k)
    BY <1>5, <2>1, RebuiltWords
  <2> QED BY <1>5, <2>1, <2>2 DEF Source, NewRow
<1>6. ASSUME NEW n \in DOMAIN rows, NEW k \in fresh, S(n) = Placeholder(k), NewRow(rows[n], x, w, k)
      PROVE  /\ S(n) \in DOMAIN anew /\ rows[n] \in PhraseRow
             /\ rows[n].shown = ShownAfter(S(n), J[S(n)].shown, c)
             /\ \A f \in Fields \ {"shown", "section", "job"} : rows[n][f] = J[S(n)][f]
  <2> DEFINE i == Placeholder(k)
  <2>1. i \in DOMAIN anew /\ IsPhrase(anew[i], WordAt(x, w).name, k, "auto", "none") /\ J[i] = anew[i]
    BY <1>1 DEF AreNew
  <2>2. /\ rows[n] \in PhraseRow /\ rows[n].shown = IF i \in c.set THEN "selection" ELSE "none"
        /\ \A f \in Fields \ {"shown"} : rows[n][f] = anew[i][f]
    BY <1>6 DEF NewRow
  <2>3. J[i].shown = "none"
    BY <2>1 DEF IsPhrase
  <2>4. S(n) = i
    BY <1>6
  <2> HIDE DEF i, S, J, anew, c, rows
  <2> QED BY <2>1, <2>2, <2>3, <2>4 DEF ShownAfter
<1>7. ASSUME NEW m \in DOMAIN rows, NEW n \in DOMAIN rows, S(m) = S(n)
      PROVE  m = n
  <2>1. CASE m \in DOMAIN x.phrases /\ n \in DOMAIN x.phrases
    BY <1>4, <1>7, <2>1
  <2>2. CASE m \in DOMAIN x.phrases /\ n \notin DOMAIN x.phrases
    <3>1. S(m) \in DOMAIN after
      BY <1>4, <2>2
    <3>2. S(n) \in DOMAIN anew
      BY <1>5, <1>6, <2>2
    <3> HIDE DEF S, after, anew
    <3> QED BY <1>1, <1>7, <3>1, <3>2
  <2>3. CASE m \notin DOMAIN x.phrases /\ n \in DOMAIN x.phrases
    <3>1. S(n) \in DOMAIN after
      BY <1>4, <2>3
    <3>2. S(m) \in DOMAIN anew
      BY <1>5, <1>6, <2>3
    <3> HIDE DEF S, after, anew
    <3> QED BY <1>1, <1>7, <3>1, <3>2
  <2>4. CASE m \notin DOMAIN x.phrases /\ n \notin DOMAIN x.phrases
    <3>1. PICK k \in fresh : S(m) = Placeholder(k) /\ NewRow(rows[m], x, w, k)
      BY <1>5, <2>4
    <3>2. PICK l \in fresh : S(n) = Placeholder(l) /\ NewRow(rows[n], x, w, l)
      BY <1>5, <2>4
    <3>3. k = l
      <4>1. k \in Keys /\ l \in Keys /\ Placeholder(k) = Placeholder(l)
        BY <1>1, <1>7, <3>1, <3>2
      <4> QED BY <4>1, PlaceholdersApart
    <3>4. /\ r[m].word = r[n].word /\ r[m].key = r[n].key
          /\ m \in DOMAIN r \ DOMAIN x.phrases /\ n \in DOMAIN r \ DOMAIN x.phrases
      BY <1>2, <2>4, <3>1, <3>2, <3>3 DEF NewRow
    <3> QED BY <3>4 DEF RebuiltFits
  <2> QED BY <2>1, <2>2, <2>3, <2>4
<1>8. ASSUME NEW i \in DOMAIN J
      PROVE  \E n \in DOMAIN rows : S(n) = i
  <2>1. CASE i \in DOMAIN after
    <3>1. i \in DOMAIN x.phrases /\ x.phrases[i].word = w
      BY <1>1, <2>1 DEF RowsAt, RowsOf
    <3>2. i \in DOMAIN r
      BY <2>1, <3>1 DEF RebuiltFits
    <3>3. r[i].word = w
      BY <3>1, <3>2, RebuiltWords
    <3> QED BY <1>3, <3>1, <3>2, <3>3 DEF Source
  <2>2. CASE i \in DOMAIN anew
    <3>1. PICK k \in fresh : i = Placeholder(k)
      BY <1>1, <2>2 DEF AreNew
    <3>2. PICK n \in DOMAIN r \ DOMAIN x.phrases : NewRow(r[n], x, w, k)
      BY DEF RebuiltFits
    <3>3. n \in DOMAIN rows
      BY <1>3, <3>2 DEF NewRow
    <3> QED BY <3>1, <3>2, <3>3 DEF Source, NewRow
  <2> QED BY <1>1, <2>1, <2>2
<1>9. \A n \in DOMAIN rows :
          /\ S(n) \in DOMAIN J /\ rows[n] \in PhraseRow
          /\ rows[n].shown = ShownAfter(S(n), J[S(n)].shown, c)
          /\ \A f \in Fields \ {"shown", "section", "job"} : rows[n][f] = J[S(n)][f]
  <2> TAKE n \in DOMAIN rows
  <2>1. CASE n \in DOMAIN x.phrases
    <3> HIDE DEF S, J, rows, c, after, anew
    <3> QED BY <1>1, <1>4, <2>1
  <2>2. CASE n \notin DOMAIN x.phrases
    <3>1. PICK k \in fresh : S(n) = Placeholder(k) /\ NewRow(rows[n], x, w, k)
      BY <1>5, <2>2
    <3> HIDE DEF S, J, rows, c, after, anew, fresh
    <3> QED BY <1>1, <1>6, <3>1
  <2> QED BY <2>1, <2>2
<1> HIDE DEF J, c, rows, S
<1> QED BY <1>7, <1>8, <1>9 DEF WordRebuilt, J, c, rows, S

(* Once rebuilt, the phrases of a word can be chosen among again.          *)
LEMMA StaysSelectable ==
  ASSUME NEW x, NEW next0, Plannable(x, next0), NEW plan, plan = PlanAt(x),
         NEW r, RebuiltFits(r, x, plan, next0), NEW w \in Words
  PROVE  Selectable(RowsOf(r, w))
<1> DEFINE J == JointAt(x, w)
           rows == RowsOf(r, w)
           c == ChangeAt(x, w)
           S(n) == Source(r, x, n)
<1>1. CASE w \notin DOMAIN plan
  <2>1. \A n \in DOMAIN r : r[n].word # w
    BY <1>1, RebuiltWords
  <2>2. DOMAIN rows = {}
    BY <2>1 DEF RowsOf
  <2> QED BY <2>2 DEF Selectable
<1>2. CASE w \in DOMAIN plan
  <2>1. WordRebuilt(r, x, w)
    BY <1>2, WordRebuiltIs
  <2>2. \A n \in DOMAIN rows :
          /\ S(n) \in DOMAIN J /\ rows[n] \in PhraseRow
          /\ rows[n].shown = ShownAfter(S(n), J[S(n)].shown, c)
          /\ \A f \in Fields \ {"shown", "section", "job"} : rows[n][f] = J[S(n)][f]
    BY <2>1 DEF WordRebuilt
  <2>3. \A m, n \in DOMAIN rows : S(m) = S(n) => m = n
    BY <2>1 DEF WordRebuilt
  <2>4. Selectable(J) /\ SelectionFits(J, WordAt(x, w).decided, c, Marked(J) \ c.clear)
    <3>1. WordPlanned(x, next0, plan, w)
      BY <1>2, PlannedIs
    <3>2. Settles(RowsAt(x, w), WordAt(x, w), JudgedAt(x, w), AfterAt(x, w), AnewAt(x, w), FreshAt(x, w), J)
          /\ WordFits(WordAt(x, w))
      BY <3>1 DEF WordPlanned
    <3>3. J = Joint(AfterAt(x, w), AnewAt(x, w)) /\ c = ChangeOf(AfterAt(x, w), AnewAt(x, w), WordAt(x, w))
      BY Zenon DEF JointAt, ChangeAt
    <3> HIDE DEF J, c
    <3>4. ChangeFits(c, J, WordAt(x, w), AfterAt(x, w))
      BY <3>2, <3>3, ChangeIs
    <3> QED BY <3>2, <3>4 DEF Settles, ChangeFits
  <2> HIDE DEF J, c, rows, S
  <2>5. \A n \in DOMAIN rows : rows[n].origin = J[S(n)].origin /\ rows[n].key = J[S(n)].key
    BY <2>2 DEF Fields
  <2>6. \A n \in DOMAIN rows : rows[n].origin = "auto" => rows[n].key \in Keys
    BY <2>2, <2>4, <2>5 DEF Selectable
  <2>7. \A m, n \in DOMAIN rows : rows[m].origin = "auto" /\ rows[n].origin = "auto"
                                  /\ rows[m].key = rows[n].key => m = n
    <3> SUFFICES ASSUME NEW m \in DOMAIN rows, NEW n \in DOMAIN rows, rows[m].origin = "auto",
                        rows[n].origin = "auto", rows[m].key = rows[n].key
                 PROVE  m = n
      OBVIOUS
    <3>1. S(m) = S(n)
      BY <2>2, <2>4, <2>5 DEF Selectable
    <3> QED BY <2>3, <3>1
  <2>8. \A n \in DOMAIN rows : rows[n].shown = "selection" => S(n) \in (Marked(J) \ c.clear) \cup c.set
    BY <2>2 DEF ShownAfter, Marked
  <2>9. \A m, n \in DOMAIN rows : rows[m].shown = "selection" /\ rows[n].shown = "selection" => m = n
    <3> SUFFICES ASSUME NEW m \in DOMAIN rows, NEW n \in DOMAIN rows, rows[m].shown = "selection",
                        rows[n].shown = "selection"
                 PROVE  m = n
      OBVIOUS
    <3>1. S(m) = S(n)
      BY <2>4, <2>8 DEF SelectionFits
    <3> QED BY <2>3, <3>1
  <2>10. Selectable(rows)
    BY <2>2, <2>6, <2>7, <2>9 DEF Selectable
  <2> QED BY <2>10 DEF rows
<1> QED BY <1>1, <1>2

-----------------------------------------------------------------------------
(* What the rows of a word are after a rebuild.                            *)

(* All that is known of a word after a rebuild.                            *)
KnownOf(x, next0, plan, r, w) ==
    /\ WordPlanned(x, next0, plan, w) /\ WordRebuilt(r, x, w)
    /\ SelectionFits(JointAt(x, w), WordAt(x, w).decided, ChangeAt(x, w),
                     Marked(JointAt(x, w)) \ ChangeAt(x, w).clear)
    /\ WordIs(WordAt(x, w), w, RowsAt(x, w),
              IF w \in DOMAIN x.words THEN {x.words[w]} ELSE {},
              IF w \in DOMAIN x.analysis THEN {x.analysis[w].data} ELSE {},
              IF w \in DOMAIN x.analysis THEN x.analysis[w].at ELSE <<>>)

(* All of this is known of every word of a plan.                           *)
LEMMA KnownIs ==
  ASSUME NEW x, NEW next0, Plannable(x, next0), NEW plan, plan = PlanAt(x),
         NEW r, RebuiltFits(r, x, plan, next0), NEW w \in DOMAIN plan
  PROVE  KnownOf(x, next0, plan, r, w)
<1> DEFINE J == JointAt(x, w)
           c == ChangeAt(x, w)
           word == WordAt(x, w)
           rows == RowsAt(x, w)
           stored == IF w \in DOMAIN x.words THEN {x.words[w]} ELSE {}
           found == IF w \in DOMAIN x.analysis THEN {x.analysis[w].data} ELSE {}
           at == IF w \in DOMAIN x.analysis THEN x.analysis[w].at ELSE <<>>
           rules == x.rules
<1>1. WordPlanned(x, next0, plan, w)
  BY PlannedIs
<1>2. WordRebuilt(r, x, w)
  BY WordRebuiltIs
<1>3. SelectionFits(J, word.decided, c, Marked(J) \ c.clear)
  <2>1. Settles(RowsAt(x, w), word, JudgedAt(x, w), AfterAt(x, w), AnewAt(x, w), FreshAt(x, w), J)
        /\ WordFits(word)
    BY <1>1 DEF WordPlanned
  <2>2. J = Joint(AfterAt(x, w), AnewAt(x, w)) /\ c = ChangeOf(AfterAt(x, w), AnewAt(x, w), word)
    BY Zenon DEF JointAt, ChangeAt
  <2> HIDE DEF J, c, word
  <2>3. ChangeFits(c, J, word, AfterAt(x, w))
    BY <2>1, <2>2, ChangeIs
  <2> QED BY <2>3 DEF ChangeFits
<1>4. WordIs(word, w, rows, stored, found, at)
  <2>1. word = WordOf(w, rows, stored, found, at, rules)
    BY Zenon DEF WordAt
  <2> HIDE DEF stored, found, at, rows, word, rules
  <2> QED BY <2>1, WordOfIs
<1> HIDE DEF J, c, word, rows, stored, found, at
<1> QED BY <1>1, <1>2, <1>3, <1>4, Zenon DEF KnownOf, J, c, word, rows, stored, found, at

(* A phrase the user worked on, or of a decided word, stays as it is.      *)
LEMMA UntouchableStays ==
  ASSUME NEW x, NEW next0, NEW plan, NEW r, NEW w, KnownOf(x, next0, plan, r, w),
         NEW i \in DOMAIN RowsAt(x, w),
         IsUntouchable(RowsAt(x, w)[i]) \/ IsDecided(RowsAt(x, w))
  PROVE  /\ i \in DOMAIN AfterAt(x, w)
         /\ \A f \in Fields \ {"key"} : AfterAt(x, w)[i][f] = RowsAt(x, w)[i][f]
<1> DEFINE word == WordAt(x, w)
           judged == JudgedAt(x, w)
           rows == RowsAt(x, w)
           after == AfterAt(x, w)
           o == judged.placed[i]
<1>1. /\ JudgedIs(judged, rows, word) /\ PlacedFits(judged.placed, rows, word.at, judged.moved)
      /\ AfterFits(after, judged, rows, word)
      /\ (word.decided => word.kept) /\ word.decided = IsDecided(rows)
  BY DEF KnownOf, WordPlanned, Settles, WordIs
<1> HIDE DEF word, rows, after
<1>2. i \in DOMAIN rows /\ (IsUntouchable(rows[i]) \/ IsDecided(rows))
  BY DEF rows
<1>3. \A f \in Fields \ {"key"} : o[f] = rows[i][f]
  BY <1>1, <1>2 DEF PlacedFits
<1>4. judged.fate[i] = "stays"
  <2>1. CASE word.kept
    BY <1>1, <1>2, <2>1 DEF JudgedIs
  <2>2. CASE ~word.kept
    <3>1. IsUntouchable(rows[i])
      BY <1>1, <1>2, <2>2
    <3>2. IsUntouchable(o)
      BY <1>3, <3>1 DEF IsUntouchable, UserWork, Fields
    <3> DEFINE fate == judged.fate[i]
               at == word.at
               gone == word.found = {}
               mode == word.mode
    <3>3. fate = Fate(o, at, gone, mode)
      BY <1>1, <1>2, <2>2 DEF JudgedIs
    <3> HIDE DEF fate, o, at, gone, mode
    <3>4. fate = "stays"
      BY <3>2, <3>3, FateIs
    <3> QED BY <3>4 DEF fate
  <2> QED BY <2>1, <2>2
<1>5. i \in DOMAIN after
  BY <1>1, <1>2, <1>4 DEF AfterFits, Fated
<1>6. after[i] = o
  BY <1>1, <1>4, <1>5 DEF AfterFits, AsPlanned
<1> HIDE DEF o
<1> QED BY <1>3, <1>5, <1>6 DEF after, rows

(* A decided word stays decided.                                           *)
LEMMA DecidedStays ==
  ASSUME NEW x, NEW next0, NEW plan, NEW r, NEW w, KnownOf(x, next0, plan, r, w)
  PROVE  WordAt(x, w).decided => IsDecided(RowsOf(r, w))
<1> SUFFICES ASSUME WordAt(x, w).decided PROVE IsDecided(RowsOf(r, w))
  OBVIOUS
<1> DEFINE J == JointAt(x, w)
           rows == RowsOf(r, w)
           after == AfterAt(x, w)
<1>1. IsDecided(RowsAt(x, w))
  BY DEF KnownOf, WordIs
<1>2. PICK i \in DOMAIN RowsAt(x, w) : RowsAt(x, w)[i].choice = "learn"
  BY <1>1 DEF IsDecided
<1>3. i \in DOMAIN after /\ after[i].choice = "learn"
  BY <1>1, <1>2, UntouchableStays DEF Fields
<1>4. i \in DOMAIN J /\ J[i] = after[i]
  BY <1>3 DEF KnownOf, WordPlanned, Settles
<1>5. \A n \in DOMAIN rows : rows[n].choice = J[Source(r, x, n)].choice
  BY DEF KnownOf, WordRebuilt, Fields
<1>6. PICK n \in DOMAIN rows : Source(r, x, n) = i
  BY <1>4 DEF KnownOf, WordRebuilt
<1>7. rows[n].choice = "learn"
  BY <1>3, <1>4, <1>5, <1>6
<1> QED BY <1>7 DEF IsDecided

(* Every place of the analysis has a phrase, or one holds its line.        *)
LEMMA PlaceHeld ==
  ASSUME NEW x, NEW next0, Plannable(x, next0), NEW plan, plan = PlanAt(x),
         NEW r, RebuiltFits(r, x, plan, next0), NEW w \in DOMAIN x.analysis,
         NEW k \in DOMAIN x.analysis[w].at
  PROVE  \E n \in DOMAIN RowsOf(r, w) :
            \/ r[n].key = k
            \/ /\ r[n].key # Unplaced /\ r[n].key[1] = k[1]
               /\ r[n].key \notin DOMAIN x.analysis[w].at
<1> DEFINE J == JointAt(x, w)
           rows == RowsOf(r, w)
           after == AfterAt(x, w)
           word == WordAt(x, w)
           judged == JudgedAt(x, w)
           placed == judged.placed
           at == x.analysis[w].at
           fresh == FreshAt(x, w)
<1>1. w \in DOMAIN plan
  BY DEF PlanAt, Plan
<1>2. KnownOf(x, next0, plan, r, w)
  BY <1>1, KnownIs
<1>3. word.at = at
  BY <1>2 DEF KnownOf, WordIs
<1>4. /\ \A n \in DOMAIN rows : rows[n].key = J[Source(r, x, n)].key /\ rows[n] = r[n]
      /\ \A i \in DOMAIN J : \E n \in DOMAIN rows : Source(r, x, n) = i
      /\ DOMAIN J = DOMAIN after \cup DOMAIN AnewAt(x, w)
      /\ \A i \in DOMAIN after : J[i] = after[i]
      /\ \A i \in DOMAIN after : after[i].key = placed[i].key
      /\ DOMAIN placed = DOMAIN RowsAt(x, w)
      /\ JudgedIs(judged, RowsAt(x, w), word)
      /\ DOMAIN after = DOMAIN RowsAt(x, w) \ Fated(judged, "goes")
  <2>1. \A n \in DOMAIN rows : rows[n].key = J[Source(r, x, n)].key
    BY <1>2 DEF KnownOf, WordRebuilt, Fields
  <2>2. \A n \in DOMAIN rows : rows[n] = r[n]
    BY DEF RowsOf
  <2>3. \A i \in DOMAIN J : \E n \in DOMAIN rows : Source(r, x, n) = i
    BY <1>2 DEF KnownOf, WordRebuilt
  <2>4. /\ DOMAIN J = DOMAIN after \cup DOMAIN AnewAt(x, w)
        /\ \A i \in DOMAIN after : J[i] = after[i]
        /\ AfterFits(after, judged, RowsAt(x, w), word)
        /\ PlacedFits(placed, RowsAt(x, w), word.at, judged.moved)
        /\ JudgedIs(judged, RowsAt(x, w), word)
    BY <1>2 DEF KnownOf, WordPlanned, Settles
  <2>5. \A i \in DOMAIN after : after[i].key = placed[i].key
    BY <2>4 DEF AfterFits, Fields, Written
  <2> QED BY <2>1, <2>2, <2>3, <2>4, <2>5 DEF AfterFits, PlacedFits
<1>5. \A i \in DOMAIN after : \E n \in DOMAIN rows : r[n].key = after[i].key
  BY <1>4
<1>6. \/ k \in fresh
      \/ \E i \in DOMAIN placed : placed[i].key = k
      \/ \E i \in DOMAIN after : /\ after[i].key # Unplaced /\ after[i].key \notin DOMAIN at
                                 /\ after[i].key[1] = k[1]
  <2>1. fresh = FreshPlaces(placed, after, at)
    BY <1>3, Zenon DEF FreshAt
  <2> HIDE DEF fresh, placed, after, at
  <2> QED BY <2>1, PlacesAre DEF at
<1>7. CASE k \in fresh
  <2>1. PICK n \in DOMAIN r \ DOMAIN x.phrases : NewRow(r[n], x, w, k)
    BY <1>1, <1>7 DEF RebuiltFits
  <2> QED BY <2>1 DEF NewRow, RowsOf
<1>8. ASSUME NEW i \in DOMAIN placed, placed[i].key = k
      PROVE  i \in DOMAIN after
  <2>1. i \in DOMAIN RowsAt(x, w)
    BY <1>4
  <2>2. judged.fate[i] # "goes"
    <3>1. CASE word.kept
      BY <1>4, <2>1, <3>1 DEF JudgedIs
    <3>2. CASE ~word.kept
      <4> DEFINE fate == judged.fate[i]
                 o == placed[i]
                 gone == word.found = {}
                 mode == word.mode
      <4>1. fate = Fate(o, at, gone, mode)
        BY <1>3, <1>4, <2>1, <3>2 DEF JudgedIs
      <4>2. o.key \in DOMAIN at
        BY <1>8
      <4> HIDE DEF fate, o, gone, mode, at
      <4>3. fate # "goes"
        BY <4>1, <4>2, FateIs
      <4> QED BY <4>3 DEF fate
    <3> QED BY <3>1, <3>2
  <2> QED BY <1>4, <2>1, <2>2 DEF Fated
<1>9. CASE \E i \in DOMAIN placed : placed[i].key = k
  <2>1. PICK i \in DOMAIN placed : placed[i].key = k
    BY <1>9
  <2>2. i \in DOMAIN after /\ after[i].key = k
    BY <1>4, <1>8, <2>1
  <2> QED BY <1>5, <2>2
<1>10. CASE \E i \in DOMAIN after : /\ after[i].key # Unplaced /\ after[i].key \notin DOMAIN at
                                    /\ after[i].key[1] = k[1]
  BY <1>5, <1>10
<1> QED BY <1>6, <1>7, <1>9, <1>10

(* An undecided word with a phrase to show shows one, or one that replaced *)
(* a card has lost its mark.                                               *)
LEMMA OneIsShown ==
  ASSUME NEW x, NEW next0, NEW plan, NEW r, NEW w, KnownOf(x, next0, plan, r, w),
         ~IsDecided(RowsOf(r, w)),
         \E n \in DOMAIN RowsOf(r, w) : MaySelect(RowsOf(r, w)[n]),
         ~\E n \in DOMAIN RowsOf(r, w) : MaySelect(RowsOf(r, w)[n]) /\ RowsOf(r, w)[n].replaces
  PROVE  \E n \in DOMAIN RowsOf(r, w) : IsShown(RowsOf(r, w)[n])
<1> DEFINE J == JointAt(x, w)
           rows == RowsOf(r, w)
           c == ChangeAt(x, w)
           S(n) == Source(r, x, n)
           kept == Marked(J) \ c.clear
<1> SUFFICES ASSUME \A n \in DOMAIN rows : ~IsShown(rows[n]) PROVE FALSE
  OBVIOUS
<1>1. /\ \A n \in DOMAIN rows :
            /\ S(n) \in DOMAIN J
            /\ rows[n].shown = ShownAfter(S(n), J[S(n)].shown, c)
            /\ \A f \in Fields \ {"shown", "section", "job"} : rows[n][f] = J[S(n)][f]
      /\ \A i \in DOMAIN J : \E n \in DOMAIN rows : S(n) = i
  BY DEF KnownOf, WordRebuilt
<1>2. SelectionFits(J, FALSE, c, kept) /\ IsFiniteSet(DOMAIN J)
  <2>1. ~WordAt(x, w).decided /\ WordAt(x, w).decided \in BOOLEAN
    BY DecidedStays DEF KnownOf, WordIs
  <2>2. WordAt(x, w).decided = FALSE
    BY <2>1
  <2>3. SelectionFits(J, WordAt(x, w).decided, c, kept) /\ IsFiniteSet(DOMAIN J)
    BY DEF KnownOf, WordPlanned, Settles
  <2> QED BY <2>2, <2>3
<1>3. \A n \in DOMAIN rows : rows[n].shown = "none"
  BY DEF IsShown
<1>4. kept \subseteq DOMAIN J /\ \A i \in kept : J[i].shown = "selection" /\ i \notin c.clear
  BY DEF Marked
<1>5. \A n \in DOMAIN rows : /\ rows[n].origin = J[S(n)].origin /\ rows[n].choice = J[S(n)].choice
                             /\ rows[n].removed = J[S(n)].removed
                             /\ rows[n].replaces = J[S(n)].replaces
  BY <1>1 DEF Fields
<1> HIDE DEF J, rows, c, S
<1>6. c.set = {}
  BY <1>1, <1>2, <1>3 DEF SelectionFits, ShownAfter
<1>7. \A i \in DOMAIN J : i \in c.clear \/ J[i].shown = "none"
  <2> TAKE i \in DOMAIN J
  <2>1. PICK n \in DOMAIN rows : S(n) = i
    BY <1>1
  <2> QED BY <1>1, <1>3, <1>6, <2>1 DEF ShownAfter
<1>8. kept = {}
  BY <1>4, <1>7
<1>9. \A i \in c.clear : J[i].shown = "selection" /\ i \in DOMAIN J /\ ~IsFrozen(J[i])
  BY <1>2 DEF SelectionFits, Marked
<1>10. \/ \E i \in DOMAIN J : J[i].shown = "user"
       \/ \E i \in c.clear : J[i].replaces
       \/ \A i \in DOMAIN J : ~MaySelect(J[i])
  <2> HIDE DEF kept
  <2> QED BY <1>2, <1>6, <1>8 DEF SelectionFits
<1>11. ~\E i \in DOMAIN J : J[i].shown = "user"
  BY <1>7, <1>9
<1>12. ~\E i \in c.clear : J[i].replaces
  <2> SUFFICES ASSUME NEW i \in c.clear, J[i].replaces PROVE FALSE
    OBVIOUS
  <2>1. PICK n \in DOMAIN rows : S(n) = i
    BY <1>1, <1>9
  <2>2. J[i].origin = "auto" /\ J[i].choice = "none" /\ ~J[i].removed
    BY <1>9 DEF IsFrozen, IsUntouchable, UserWork
  <2>3. MaySelect(rows[n]) /\ rows[n].replaces
    BY <1>3, <1>5, <2>1, <2>2 DEF MaySelect
  <2> QED BY <2>3 DEF rows
<1>13. PICK n \in DOMAIN rows : MaySelect(rows[n])
  BY DEF rows
<1>14. S(n) \in DOMAIN J /\ MaySelect(J[S(n)])
  BY <1>1, <1>5, <1>11, <1>13 DEF MaySelect
<1> QED BY <1>10, <1>11, <1>12, <1>14

(* The phrases a plan cuts again.                                          *)
CutsIn(plan) == UNION {{q[1] : q \in {p \in plan[w].rewritten : p[4]}} : w \in DOMAIN plan}

(* The phrases a plan cuts again, as the model writes them.                *)
LEMMA CutsAre ==
  ASSUME NEW plan
  PROVE  Field(plan, LAMBDA p : {r[1] : r \in {q \in p.rewritten : q[4]}}) = CutsIn(plan)
BY DEF Field, CutsIn

(* The job of a phrase is dropped only where its text is cut again.        *)
LEMMA JobStays ==
  ASSUME NEW x, NEW next0, Plannable(x, next0), NEW plan, plan = PlanAt(x),
         NEW r, RebuiltFits(r, x, plan, next0), NEW n \in DOMAIN r, n \in DOMAIN x.phrases,
         ~\E i \in CutsIn(plan) : x.phrases[i].job = "running"
  PROVE  r[n].job = x.phrases[n].job
<1> DEFINE w == x.phrases[n].word
           judged == JudgedAt(x, w)
           fate == judged.fate[n]
           rows == RowsAt(x, w)
           after == AfterAt(x, w)
           word == WordAt(x, w)
<1>1. w \in DOMAIN plan /\ r[n].job = JobAfter(x.phrases[n], fate)
  BY DEF RebuiltFits, Differs
<1>2. CASE fate # "recut"
  BY <1>1, <1>2 DEF JobAfter
<1>3. CASE fate = "recut"
  <2>1. WordPlanned(x, next0, plan, w)
    BY <1>1, PlannedIs
  <2>2. /\ plan[w].rewritten = RewrittenBy(judged, rows, after, word)
        /\ DOMAIN judged.fate = DOMAIN rows
    BY <2>1 DEF WordPlanned, PlanFits, Settles, JudgedIs
  <2>3. n \in DOMAIN rows
    BY DEF RowsAt, RowsOf
  <2>4. n \in Rewrites(judged)
    BY <1>3, <2>2, <2>3 DEF Rewrites, Fated
  <2> DEFINE t == <<n, word.at[judged.placed[n].key], after[n].section, Drops(judged, n),
                    Drops(judged, n) /\ HasResultsOfText(rows[n])>>
  <2>5. t \in plan[w].rewritten
    BY <2>2, <2>4 DEF RewrittenBy
  <2>6. t[1] = n /\ t[4]
    BY <1>3 DEF Drops
  <2> HIDE DEF t
  <2>7. n \in CutsIn(plan)
    BY <1>1, <2>5, <2>6 DEF CutsIn
  <2>8. x.phrases[n].job # "running"
    BY <2>7
  <2> QED BY <1>1, <2>8 DEF JobAfter
<1> QED BY <1>2, <1>3

(* Once rebuilt, an undecided word with a card the user put in the place   *)
(* of its selection has no other selection than one with work on it.       *)
LEMMA SelectionFrozen ==
  ASSUME NEW x, NEW next0, Plannable(x, next0), NEW plan, plan = PlanAt(x),
         NEW r, RebuiltFits(r, x, plan, next0), NEW w \in DOMAIN plan,
         ~\E i \in CutsIn(plan) : x.phrases[i].job = "running",
         ~IsDecided(RowsOf(r, w)),
         \E n \in DOMAIN RowsOf(r, w) : r[n].shown = "user" /\ r[n].replaces,
         NEW m \in DOMAIN RowsOf(r, w), r[m].shown = "selection"
  PROVE  IsFrozen(r[m])
<1> DEFINE J == JointAt(x, w)
           rows == RowsOf(r, w)
           c == ChangeAt(x, w)
           S(n) == Source(r, x, n)
           kept == Marked(J) \ c.clear
           after == AfterAt(x, w)
<1>1. KnownOf(x, next0, plan, r, w)
  BY KnownIs
<1>2. /\ \A n \in DOMAIN rows :
            /\ S(n) \in DOMAIN J /\ rows[n] = r[n] /\ n \in DOMAIN r /\ r[n].word = w
            /\ rows[n].shown = ShownAfter(S(n), J[S(n)].shown, c)
            /\ \A f \in Fields \ {"shown", "section", "job"} : rows[n][f] = J[S(n)][f]
      /\ \A i \in DOMAIN after : J[i] = after[i]
  BY <1>1 DEF KnownOf, WordRebuilt, WordPlanned, Settles, RowsOf
<1>3. SelectionFits(J, FALSE, c, kept)
  <2>1. ~WordAt(x, w).decided /\ WordAt(x, w).decided \in BOOLEAN
    BY <1>1, DecidedStays DEF KnownOf, WordIs
  <2>2. WordAt(x, w).decided = FALSE
    BY <2>1
  <2>3. SelectionFits(J, WordAt(x, w).decided, c, kept)
    BY <1>1 DEF KnownOf
  <2> QED BY <2>2, <2>3
<1>4. \A n \in DOMAIN rows :
         /\ r[n].replaces = J[S(n)].replaces /\ r[n].origin = J[S(n)].origin
         /\ r[n].choice = J[S(n)].choice /\ r[n].removed = J[S(n)].removed
         /\ r[n].edited = J[S(n)].edited
  BY <1>2 DEF Fields
<1>5. PICK n \in DOMAIN rows : r[n].shown = "user" /\ r[n].replaces
  BY DEF rows
<1>6. S(n) \in DOMAIN J /\ J[S(n)].shown = "user" /\ J[S(n)].replaces
  BY <1>2, <1>4, <1>5 DEF ShownAfter
<1>7. c.set = {} /\ \A i \in kept : IsFrozen(J[i])
  <2> HIDE DEF J, c, kept, S
  <2> QED BY <1>3, <1>6 DEF SelectionFits
<1>8. m \in DOMAIN rows
  OBVIOUS
<1>9. S(m) \in kept /\ J[S(m)].shown = "selection"
  BY <1>2, <1>7, <1>8 DEF ShownAfter, Marked
<1>10. m \in DOMAIN x.phrases
  <2> SUFFICES ASSUME m \notin DOMAIN x.phrases PROVE FALSE
    OBVIOUS
  <2>1. PICK k \in FreshAt(x, w) : NewRow(r[m], x, w, k)
    BY <1>2, <1>8, RebuiltWords
  <2>2. Placeholder(k) \in c.set
    BY <2>1 DEF NewRow
  <2> HIDE DEF c
  <2> QED BY <1>7, <2>2
<1>11. r[m].job = J[S(m)].job
  <2>1. r[m].job = x.phrases[m].job
    BY <1>2, <1>8, <1>10, JobStays
  <2>2. S(m) = m /\ m \in DOMAIN after
    BY <1>2, <1>8, <1>10, RebuiltWords DEF Source
  <2>3. after[m].job = RowsAt(x, w)[m].job
    <3>1. AfterFits(after, JudgedAt(x, w), RowsAt(x, w), WordAt(x, w))
          /\ PlacedFits(JudgedAt(x, w).placed, RowsAt(x, w), WordAt(x, w).at, JudgedAt(x, w).moved)
      BY <1>1 DEF KnownOf, WordPlanned, Settles
    <3>2. after[m].job = JudgedAt(x, w).placed[m].job /\ m \in DOMAIN RowsAt(x, w)
      BY <2>2, <3>1 DEF AfterFits, Fields, Written
    <3> QED BY <3>1, <3>2 DEF PlacedFits, Fields
  <2>4. RowsAt(x, w)[m] = x.phrases[m]
    <3>1. r[m].word = x.phrases[m].word
      BY <1>2, <1>8, <1>10, RebuiltWords
    <3> QED BY <1>2, <1>8, <1>10, <3>1 DEF RowsAt, RowsOf
  <2> QED BY <1>2, <2>1, <2>2, <2>3, <2>4
<1>12. IsFrozen(J[S(m)])
  BY <1>7, <1>9
<1> HIDE DEF J, S, rows
<1> QED BY <1>4, <1>8, <1>9, <1>11, <1>12 DEF IsFrozen, IsUntouchable, UserWork, IsActive

(* A phrase apart from its job.                                            *)
JobLess(o) == [o EXCEPT !.job = "none"]

(* What a plan takes the phrases to be is what is stored, but for jobs,    *)
(* and the other phrases are new.                                          *)
LEMMA WrittenIs ==
  ASSUME NEW x, NEW next0, Plannable(x, next0), NEW plan, plan = PlanAt(x),
         NEW r, RebuiltFits(r, x, plan, next0)
  PROVE  /\ \A w \in DOMAIN plan : \A i \in DOMAIN plan[w].view :
               /\ i \in DOMAIN x.phrases /\ x.phrases[i].word = w /\ i \in DOMAIN r
               /\ JobLess(r[i]) = JobLess(plan[w].view[i])
         /\ \A n \in DOMAIN r \ UNION {DOMAIN plan[w].view : w \in DOMAIN plan} : r[n].made = {}
<1>1. \A w \in DOMAIN plan : /\ DOMAIN plan[w].view = DOMAIN AfterAt(x, w)
                             /\ DOMAIN AfterAt(x, w) \subseteq DOMAIN RowsAt(x, w)
  <2> TAKE w \in DOMAIN plan
  <2>1. WordPlanned(x, next0, plan, w)
    BY PlannedIs
  <2>2. DOMAIN plan[w].view = DOMAIN AfterAt(x, w)
    <3> DEFINE after == AfterAt(x, w)
               c == ChangeOf(after, AnewAt(x, w), WordAt(x, w))
               s == SectionsOf(JudgedAt(x, w), after, WordAt(x, w))
    <3>1. plan[w].view = View(after, c, s)
      BY <2>1 DEF WordPlanned, PlanFits
    <3> HIDE DEF after, c, s
    <3>2. DOMAIN View(after, c, s) = DOMAIN after
      BY DEF View
    <3> QED BY <3>1, <3>2 DEF after
  <2> QED BY <2>1, <2>2 DEF WordPlanned, Settles, AfterFits
<1>2. ASSUME NEW w \in DOMAIN plan, NEW i \in DOMAIN plan[w].view
      PROVE  /\ i \in DOMAIN x.phrases /\ x.phrases[i].word = w /\ i \in DOMAIN r
             /\ JobLess(r[i]) = JobLess(plan[w].view[i])
  <2>1. i \in DOMAIN x.phrases /\ x.phrases[i].word = w /\ i \in DOMAIN AfterAt(x, w)
    BY <1>1 DEF RowsAt, RowsOf
  <2>2. i \in DOMAIN r
    BY <2>1 DEF RebuiltFits
  <2> DEFINE v == plan[w].view[i]
             job == JobAfter(x.phrases[i], JudgedAt(x, w).fate[i])
             a == AfterAt(x, w)[i]
             o == r[i]
             s == JobLess(o)
             t == JobLess(v)
  <2>3. Viewed(v, i, a, ChangeAt(x, w)) /\ Differs(o, v, "job", job)
    BY <2>1, <2>2 DEF RebuiltFits
  <2>4. v \in PhraseRow /\ o \in PhraseRow /\ \A f \in Fields \ {"job"} : o[f] = v[f]
    <3> HIDE DEF v, o, job, a
    <3> QED BY <2>3 DEF Viewed, Differs
  <2> HIDE DEF v, o, job, a
  <2>5. Differs(s, o, "job", "none") /\ Differs(t, v, "job", "none")
    BY <2>4, SetJob DEF JobLess
  <2> HIDE DEF s, t
  <2>6. s = t
    <3>1. s \in PhraseRow /\ t \in PhraseRow /\ \A f \in Fields : s[f] = t[f]
      BY <2>4, <2>5 DEF Differs
    <3> QED BY <3>1, SameFields
  <2> QED BY <2>1, <2>2, <2>6 DEF s, t, v, o
<1>3. ASSUME NEW n \in DOMAIN r, n \notin UNION {DOMAIN plan[w].view : w \in DOMAIN plan}
      PROVE  r[n].made = {}
  <2>1. CASE n \in DOMAIN x.phrases
    <3>1. r[n].word \in DOMAIN plan /\ n \in DOMAIN AfterAt(x, r[n].word)
      BY <2>1, RebuiltWords
    <3> QED BY <1>1, <1>3, <3>1
  <2>2. CASE n \notin DOMAIN x.phrases
    <3>1. PICK k \in FreshAt(x, r[n].word) : NewRow(r[n], x, r[n].word, k)
      BY <2>2, RebuiltWords
    <3> QED BY <3>1 DEF NewRow
  <2> QED BY <2>1, <2>2
<1> QED BY <1>2, <1>3

(* The words a rebuild leaves: every phrase has its word.                  *)
LEMMA WordsWrittenAre ==
  ASSUME NEW x, NEW next0, Plannable(x, next0), NEW plan, plan = PlanAt(x),
         NEW r, RebuiltFits(r, x, plan, next0),
         \A w \in DOMAIN x.words : x.words[w] \in Data,
         NEW stored, stored = WordsWritten(x.words, plan)
  PROVE  /\ DOMAIN stored \subseteq DOMAIN plan /\ DOMAIN plan \subseteq Words
         /\ \A w \in DOMAIN stored : stored[w] \in Data
         /\ \A n \in DOMAIN r : r[n].word \in DOMAIN stored
<1> DEFINE Left0 == {w \in DOMAIN x.words : ~plan[w].gone}
           Made == {w \in DOMAIN plan \ DOMAIN x.words : plan[w].data # {}}
           Datum(w) == CHOOSE d \in plan[w].data : TRUE
<1>1. stored = [w \in Left0 \cup Made |-> IF plan[w].data = {} THEN x.words[w] ELSE Datum(w)]
  BY DEF WordsWritten
<1>2. DOMAIN plan = DOMAIN x.words \cup DOMAIN x.analysis /\ DOMAIN plan \subseteq Words
  <2>1. DOMAIN plan = DOMAIN x.words \cup DOMAIN x.analysis
    BY DEF PlanAt, Plan
  <2>2. DOMAIN x.analysis \subseteq Words
    BY AnalysisIs DEF Plannable
  <2> QED BY <2>1, <2>2 DEF Plannable
<1>3. \A w \in DOMAIN plan : plan[w].data # {} => Datum(w) \in Data
  <2> SUFFICES ASSUME NEW w \in DOMAIN plan, plan[w].data # {} PROVE Datum(w) \in Data
    OBVIOUS
  <2>1. plan[w].data = WordAt(x, w).found
    <3>1. WordPlanned(x, next0, plan, w)
      BY PlannedIs
    <3>2. plan[w].data \in {{}, WordAt(x, w).found}
      BY <3>1 DEF WordPlanned, PlanFits
    <3> QED BY <3>2
  <2>2. WordAt(x, w).found = IF w \in DOMAIN x.analysis THEN {x.analysis[w].data} ELSE {}
    BY KnownIs DEF KnownOf, WordIs
  <2>3. w \in DOMAIN x.analysis => x.analysis[w].data \in Data
    BY AnalysisIs DEF Plannable
  <2>4. Datum(w) \in plan[w].data
    OBVIOUS
  <2> QED BY <2>1, <2>2, <2>3, <2>4
<1>4. ASSUME NEW n \in DOMAIN r PROVE r[n].word \in Left0 \cup Made
  <2> DEFINE w == r[n].word
  <2>1. w \in DOMAIN plan
    BY RebuiltWords
  <2>2. KnownOf(x, next0, plan, r, w)
    BY <2>1, KnownIs
  <2>3. n \in DOMAIN RowsOf(r, w)
    BY DEF RowsOf
  <2>4. ~plan[w].gone
    <3>1. Source(r, x, n) \in DOMAIN JointAt(x, w)
      BY <2>2, <2>3 DEF KnownOf, WordRebuilt
    <3>2. plan[w].gone => DOMAIN AfterAt(x, w) \cup DOMAIN AnewAt(x, w) = {}
      BY <2>2 DEF KnownOf, WordPlanned, PlanFits
    <3>3. DOMAIN JointAt(x, w) = DOMAIN AfterAt(x, w) \cup DOMAIN AnewAt(x, w)
      BY <2>2 DEF KnownOf, WordPlanned, Settles
    <3> QED BY <3>1, <3>2, <3>3
  <2>5. CASE w \in DOMAIN x.words
    BY <2>4, <2>5
  <2>6. CASE w \notin DOMAIN x.words
    <3>1. n \notin DOMAIN x.phrases
      <4>1. n \in DOMAIN x.phrases => x.phrases[n].word = w
        BY RebuiltWords
      <4> QED BY <2>6, <4>1 DEF Plannable
    <3>2. PICK k \in FreshAt(x, w) : NewRow(r[n], x, w, k)
      BY <3>1, RebuiltWords
    <3>3. DOMAIN AnewAt(x, w) # {}
      <4>1. AreNew(AnewAt(x, w), FreshAt(x, w), WordAt(x, w).name)
        BY <2>2 DEF KnownOf, WordPlanned, Settles
      <4> QED BY <4>1 DEF AreNew
    <3>4. /\ WordAt(x, w).stored = {} /\ WordAt(x, w).found # {}
      <4>1. w \in DOMAIN x.analysis
        BY <1>2, <2>1, <2>6
      <4> QED BY <2>2, <2>6, <4>1 DEF KnownOf, WordIs
    <3>5. plan[w].data # {}
      BY <2>2, <3>3, <3>4 DEF KnownOf, WordPlanned, PlanFits
    <3> QED BY <2>1, <2>6, <3>5
  <2> QED BY <2>5, <2>6
<1> HIDE DEF Datum
<1>5. \A w \in DOMAIN stored : stored[w] \in Data
  BY <1>1, <1>2, <1>3
<1>6. DOMAIN stored \subseteq DOMAIN plan
  BY <1>1, <1>2
<1>7. \A n \in DOMAIN r : r[n].word \in DOMAIN stored
  BY <1>1, <1>4
<1> QED BY <1>2, <1>5, <1>6, <1>7

(* What a rebuild may not touch keeps what the user made of it.            *)
LEMMA WorkStays ==
  ASSUME NEW x, NEW next0, Plannable(x, next0), NEW plan, plan = PlanAt(x),
         NEW r, RebuiltFits(r, x, plan, next0), NEW i \in DOMAIN x.phrases,
         IsUntouchable(x.phrases[i]) \/ IsDecided(RowsOf(x.phrases, x.phrases[i].word))
  PROVE  i \in DOMAIN r /\ Work(r[i]) = Work(x.phrases[i])
<1> DEFINE w == x.phrases[i].word
           a == AfterAt(x, w)[i]
           o == x.phrases[i]
<1>1. w \in DOMAIN plan
  BY DEF RebuiltFits
<1>2. KnownOf(x, next0, plan, r, w)
  BY <1>1, KnownIs
<1>3. i \in DOMAIN RowsAt(x, w) /\ RowsAt(x, w)[i] = o
  BY DEF RowsAt, RowsOf
<1>4. i \in DOMAIN AfterAt(x, w) /\ \A f \in Fields \ {"key"} : a[f] = o[f]
  <2>1. IsUntouchable(RowsAt(x, w)[i]) \/ IsDecided(RowsAt(x, w))
    BY <1>3 DEF RowsAt
  <2>2. /\ i \in DOMAIN AfterAt(x, w)
        /\ \A f \in Fields \ {"key"} : AfterAt(x, w)[i][f] = RowsAt(x, w)[i][f]
    BY <1>2, <1>3, <2>1, UntouchableStays
  <2> QED BY <1>3, <2>2
<1>5. i \in DOMAIN r
  BY <1>4 DEF RebuiltFits
<1>6. \A f \in Fields \ {"shown", "section", "job"} : r[i][f] = a[f]
  BY <1>5, RebuiltWords
<1> HIDE DEF a, w
<1>7. \A f \in {"word", "origin", "choice", "edited", "removed", "replaces", "text", "polish", "made"} :
         r[i][f] = o[f]
  BY <1>4, <1>6 DEF Fields
<1>8. /\ r[i].word = o.word /\ r[i].origin = o.origin /\ r[i].choice = o.choice
      /\ r[i].edited = o.edited /\ r[i].removed = o.removed /\ r[i].replaces = o.replaces
      /\ r[i].text = o.text /\ r[i].polish = o.polish /\ r[i].made = o.made
  BY <1>7
<1> QED BY <1>5, <1>8 DEF Work

-----------------------------------------------------------------------------
(* The steps of a rebuild.                                                 *)

(* The invariant: the types, and that the phrases of every word can be     *)
(* chosen among.                                                           *)
RowsInv == TypeOK /\ \A w \in Words : Selectable(Of(w))

(* What a rebuild starts from.                                             *)
Given(a, mode, done) ==
    [phrases |-> phrases, words |-> words, analysis |-> a, rules |-> RulesOf(mode, done)]

(* What the plan of a step reads.                                          *)
GivenIs(x, a) == x.phrases = phrases /\ x.words = words /\ x.analysis = a

(* A step of a rebuild, in terms of its plan.                              *)
Rebuilds(x, plan, a, mode) ==
    /\ GivenIs(x, a) /\ Plannable(x, next) /\ plan = PlanAt(x) /\ a \in Analyses
    /\ RebuiltFits(phrases', x, plan, next)
    /\ words' = WordsWritten(words, plan)
    /\ next' = next + Cardinality(InsertedIn(plan)) /\ next' - 1 <= MaxPhrases
    /\ count' = [count EXCEPT !.rebuilds = @ + 1] /\ count.rebuilds < MaxRebuilds
    /\ knows' = knows
    /\ last'.analysis = a /\ last'.mode = mode
    /\ last'.cut <=> \E i \in CutsIn(plan) : phrases[i].job = "running"
    /\ last'.view = [i \in UNION {DOMAIN plan[w].view : w \in DOMAIN plan} |->
                        plan[phrases[i].word].view[i]]

(* A step that rebuilds applies the plan of what is stored, whatever the   *)
(* analysis and the words done elsewhere.                                  *)
LEMMA RebuildIs ==
  ASSUME RowsInv, NEW a \in Analyses, NEW mode, NEW done, Rebuild(a, mode, done),
         NEW x, x = Given(a, mode, done), NEW plan, plan = PlanAt(x)
  PROVE  Rebuilds(x, plan, a, mode)
<1> DEFINE rules == RulesOf(mode, done)
<1>1. x = [phrases |-> phrases, words |-> words, analysis |-> a, rules |-> rules]
  BY DEF Given
<1> HIDE DEF rules
<1>2. x.phrases = phrases /\ x.words = words /\ x.analysis = a /\ x.rules = rules
  BY <1>1
<1>3. GivenIs(x, a)
  BY <1>2 DEF GivenIs
<1>4. Plannable(x, next)
  BY <1>2 DEF RowsInv, TypeOK, Plannable, Of
<1>5. plan = Plan(phrases, words, a, RulesOf(mode, done))
  BY <1>2, Zenon DEF PlanAt, rules
<1> DEFINE cut == \E i \in CutsIn(plan) : phrases[i].job = "running"
           view == [i \in UNION {DOMAIN plan[w].view : w \in DOMAIN plan} |->
                        plan[phrases[i].word].view[i]]
<1>6. /\ count.rebuilds < MaxRebuilds
      /\ next + Inserted(plan) - 1 <= MaxPhrases
      /\ words' = WordsWritten(words, plan)
      /\ phrases' = Applied(phrases, plan, next)
      /\ next' = next + Inserted(plan)
      /\ count' = [count EXCEPT !.rebuilds = @ + 1]
      /\ last' = [analysis |-> a, mode |-> mode, done |-> done, cut |-> cut, view |-> view]
      /\ knows' = knows
  <2> DEFINE cuts == Field(plan, LAMBDA p : {r[1] : r \in {q \in p.rewritten : q[4]}})
  <2>1. cuts = CutsIn(plan)
    BY CutsAre
  <2> DEFINE B(p) ==
        LET cs == Field(p, LAMBDA q : {s[1] : s \in {t \in q.rewritten : t[4]}}) IN
        /\ count.rebuilds < MaxRebuilds
        /\ next + Inserted(p) - 1 <= MaxPhrases
        /\ words' = WordsWritten(words, p)
        /\ phrases' = Applied(phrases, p, next)
        /\ next' = next + Inserted(p)
        /\ count' = [count EXCEPT !.rebuilds = @ + 1]
        /\ last' = [analysis |-> a, mode |-> mode, done |-> done,
                    cut |-> \E i \in cs : phrases[i].job = "running",
                    view |-> [i \in UNION {DOMAIN p[w].view : w \in DOMAIN p} |->
                                 p[phrases[i].word].view[i]]]
        /\ UNCHANGED knows
  <2>2. \E p \in {Plan(phrases, words, a, RulesOf(mode, done))} : B(p)
    BY Zenon DEF Rebuild
  <2>3. B(plan)
    <3> HIDE DEF B
    <3> QED BY <1>5, <2>2
  <2> QED BY <2>1, <2>3
<1>7. Inserted(plan) = Cardinality(InsertedIn(plan))
  BY FieldsOfPlan, Zenon DEF Inserted
<1>8. RebuiltFits(phrases', x, plan, next)
  <2>1. phrases' = Applied(x.phrases, plan, next)
    BY <1>2, <1>6
  <2> QED BY <1>4, <2>1, RebuiltIs
<1> HIDE DEF view
<1>9. last'.analysis = a /\ last'.mode = mode /\ last'.view = view
  <2> HIDE DEF cut
  <2> QED BY <1>6
<1>10. last'.cut <=> cut
  <2>1. last'.cut = cut
    <3> HIDE DEF cut
    <3> QED BY <1>6
  <2> QED BY <2>1
<1>11. next' = next + Cardinality(InsertedIn(plan)) /\ next' - 1 <= MaxPhrases
  <2> DEFINE n0 == Cardinality(InsertedIn(plan))
  <2>1. n0 \in Nat /\ next \in Nat /\ MaxPhrases \in Nat
    BY <1>4, <1>8, SourceWordsAssumption DEF RebuiltFits, Plannable
  <2>2. next' = next + n0 /\ next + n0 - 1 <= MaxPhrases
    BY <1>6, <1>7
  <2> HIDE DEF n0
  <2>3. next' = next + n0 /\ next' - 1 <= MaxPhrases
    BY <2>1, <2>2
  <2> QED BY <2>3 DEF n0
<1> HIDE DEF cut
<1> QED BY <1>3, <1>4, <1>6, <1>8, <1>9, <1>10, <1>11, Zenon DEF Rebuilds, cut, view

(* A rebuild leaves rows of the right types, apart and with one mark       *)
(* (plan_rebuild, apply_rebuild).                                          *)
LEMMA RebuildKeepsRows ==
  ASSUME RowsInv, NEW x, NEW plan, NEW a, NEW mode, Rebuilds(x, plan, a, mode)
  PROVE  RowsInv'
<1>1. /\ x.phrases = phrases /\ x.words = words /\ x.analysis = a
      /\ Plannable(x, next) /\ plan = PlanAt(x) /\ RebuiltFits(phrases', x, plan, next)
  BY DEF Rebuilds, GivenIs
<1>2. \A w \in Words : Selectable(RowsOf(phrases', w))
  BY <1>1, StaysSelectable
<1>3. /\ DOMAIN words' \subseteq Words /\ \A w \in DOMAIN words' : words'[w] \in Data
      /\ \A n \in DOMAIN phrases' : phrases'[n].word \in DOMAIN words'
  <2>1. words' = WordsWritten(x.words, plan)
    BY <1>1 DEF Rebuilds
  <2>2. \A w \in DOMAIN x.words : x.words[w] \in Data
    BY <1>1 DEF RowsInv, TypeOK
  <2> QED BY <1>1, <2>1, <2>2, WordsWrittenAre
<1>4. \A n \in DOMAIN phrases' : phrases'[n] \in PhraseRow
  BY <1>1, RebuiltWords
<1>5. next' \in 1 .. MaxPhrases + 1 /\ DOMAIN phrases' \subseteq 1 .. next' - 1
  <2> DEFINE n0 == Cardinality(InsertedIn(plan))
  <2>1. n0 \in Nat /\ DOMAIN phrases' \subseteq 1 .. next + n0 - 1
    BY <1>1 DEF RebuiltFits
  <2>2. next' = next + n0 /\ next' - 1 <= MaxPhrases
    BY DEF Rebuilds
  <2>3. next \in 1 .. MaxPhrases + 1 /\ MaxPhrases \in Nat
    BY SourceWordsAssumption DEF RowsInv, TypeOK
  <2> HIDE DEF n0
  <2> QED BY <2>1, <2>2, <2>3
<1>6. knows' \in BOOLEAN /\ count' \in [acts : 0 .. MaxActs, rebuilds : 0 .. MaxRebuilds]
  <2>1. /\ knows' = knows /\ count' = [count EXCEPT !.rebuilds = @ + 1]
        /\ count.rebuilds < MaxRebuilds /\ MaxRebuilds \in Nat
    BY SourceWordsAssumption DEF Rebuilds
  <2>2. knows \in BOOLEAN /\ count \in [acts : 0 .. MaxActs, rebuilds : 0 .. MaxRebuilds]
    BY DEF RowsInv, TypeOK
  <2> QED BY <2>1, <2>2
<1>7. TypeOK'
  BY <1>3, <1>4, <1>5, <1>6 DEF TypeOK, Data, PhraseRow, Keys
<1> QED BY <1>2, <1>7 DEF RowsInv, Of

(* A rebuild leaves one selection card, and none beside a card that stands *)
(* for it.                                                                 *)
LEMMA RebuildOneSelection ==
  ASSUME RowsInv, NEW x, NEW plan, NEW a, NEW mode, Rebuilds(x, plan, a, mode)
  PROVE  OneSelection'
<1>1. /\ x.phrases = phrases /\ x.words = words /\ x.analysis = a
      /\ Plannable(x, next) /\ plan = PlanAt(x) /\ RebuiltFits(phrases', x, plan, next)
  BY DEF Rebuilds, GivenIs
<1>2. DOMAIN words' \subseteq DOMAIN plan /\ DOMAIN plan \subseteq Words
  <2>1. words' = WordsWritten(x.words, plan)
    BY <1>1 DEF Rebuilds
  <2>2. \A w \in DOMAIN x.words : x.words[w] \in Data
    BY <1>1 DEF RowsInv, TypeOK
  <2> QED BY <1>1, <2>1, <2>2, WordsWrittenAre
<1> DEFINE r == phrases'
<1>3. ASSUME NEW w \in DOMAIN words',
             NEW i \in DOMAIN RowsOf(r, w), NEW j \in DOMAIN RowsOf(r, w),
             r[i].shown = "selection", r[j].shown = "selection"
      PROVE  i = j
  <2>1. Selectable(RowsOf(r, w))
    <3>1. w \in Words
      BY <1>2
    <3> HIDE DEF r
    <3> QED BY <1>1, <3>1, StaysSelectable DEF r
  <2>2. RowsOf(r, w)[i] = r[i] /\ RowsOf(r, w)[j] = r[j]
    BY DEF RowsOf
  <2> QED BY <1>3, <2>1, <2>2 DEF Selectable
<1>4. ASSUME NEW w \in DOMAIN words', ~last'.cut, ~IsDecided(RowsOf(r, w)),
             \E i \in DOMAIN RowsOf(r, w) : r[i].shown = "user" /\ r[i].replaces,
             NEW m \in DOMAIN RowsOf(r, w), r[m].shown = "selection"
      PROVE  IsFrozen(r[m])
  <2>1. ~\E i \in CutsIn(plan) : x.phrases[i].job = "running"
    BY <1>1, <1>4 DEF Rebuilds
  <2>2. w \in DOMAIN plan
    BY <1>2
  <2>3. RebuiltFits(r, x, plan, next)
    BY <1>1
  <2> HIDE DEF r
  <2> QED BY <1>1, <1>4, <2>1, <2>2, <2>3, SelectionFrozen
<1> QED BY <1>3, <1>4 DEF OneSelection, Selected, Of, Rebuilt

(* A rebuild stores what its plan said.                                    *)
LEMMA RebuildWrites ==
  ASSUME RowsInv, NEW x, NEW plan, NEW a, NEW mode, Rebuilds(x, plan, a, mode)
  PROVE  WrittenAsPlanned'
<1>1. /\ x.phrases = phrases /\ x.words = words /\ x.analysis = a
      /\ Plannable(x, next) /\ plan = PlanAt(x) /\ RebuiltFits(phrases', x, plan, next)
  BY DEF Rebuilds, GivenIs
<1> DEFINE r == phrases'
           ids == UNION {DOMAIN plan[w].view : w \in DOMAIN plan}
           view == [i \in ids |-> plan[phrases[i].word].view[i]]
<1>2. /\ \A w \in DOMAIN plan : \A i \in DOMAIN plan[w].view :
               /\ i \in DOMAIN x.phrases /\ x.phrases[i].word = w /\ i \in DOMAIN r
               /\ JobLess(r[i]) = JobLess(plan[w].view[i])
      /\ \A n \in DOMAIN r \ ids : r[n].made = {}
  BY <1>1, WrittenIs
<1>3. last'.view = view
  BY DEF Rebuilds
<1>4. DOMAIN view = ids
  OBVIOUS
<1>5. \A i \in ids : /\ i \in DOMAIN r
                     /\ JobLess(r[i]) = JobLess(view[i])
  <2> TAKE i \in ids
  <2>1. PICK w \in DOMAIN plan : i \in DOMAIN plan[w].view
    OBVIOUS
  <2>2. phrases[i].word = w
    BY <1>1, <1>2, <2>1
  <2>3. view[i] = plan[w].view[i]
    BY <2>2
  <2> QED BY <1>2, <2>1, <2>3
<1> HIDE DEF view, ids
<1>6. /\ \A i \in DOMAIN last'.view :
            /\ i \in DOMAIN phrases'
            /\ JobLess(phrases'[i]) = JobLess(last'.view[i])
      /\ \A i \in DOMAIN phrases' \ DOMAIN last'.view : phrases'[i].made = {}
  BY <1>2, <1>3, <1>4, <1>5
<1> QED BY <1>6 DEF WrittenAsPlanned, JobLess

(* A rebuild leaves a phrase for every place of the analysis, or one that  *)
(* holds its line.                                                         *)
LEMMA RebuildHolds ==
  ASSUME RowsInv, NEW x, NEW plan, NEW a, NEW mode, Rebuilds(x, plan, a, mode)
  PROVE  EveryPlaceIsHeld'
<1>1. /\ x.phrases = phrases /\ x.words = words /\ x.analysis = a
      /\ Plannable(x, next) /\ plan = PlanAt(x) /\ RebuiltFits(phrases', x, plan, next)
  BY DEF Rebuilds, GivenIs
<1> DEFINE r == phrases'
<1>2. RebuiltFits(r, x, plan, next)
  BY <1>1
<1>3. \A w \in DOMAIN x.analysis : \A k \in DOMAIN x.analysis[w].at :
         \E n \in DOMAIN RowsOf(r, w) :
            \/ r[n].key = k
            \/ /\ r[n].key # Unplaced /\ r[n].key[1] = k[1]
               /\ r[n].key \notin DOMAIN x.analysis[w].at
  <2> HIDE DEF r
  <2> QED BY <1>1, <1>2, PlaceHeld
<1>4. last'.analysis = x.analysis
  BY <1>1 DEF Rebuilds
<1> QED BY <1>3, <1>4 DEF EveryPlaceIsHeld, Of

(* A rebuild leaves a card for every word that is not decided and has a    *)
(* phrase to show.                                                         *)
LEMMA RebuildShows ==
  ASSUME RowsInv, NEW x, NEW plan, NEW a, NEW mode, Rebuilds(x, plan, a, mode)
  PROVE  WordIsShown'
<1>1. /\ x.phrases = phrases /\ x.words = words /\ x.analysis = a
      /\ Plannable(x, next) /\ plan = PlanAt(x) /\ RebuiltFits(phrases', x, plan, next)
  BY DEF Rebuilds, GivenIs
<1>2. DOMAIN words' \subseteq DOMAIN plan /\ DOMAIN plan \subseteq Words
  <2>1. words' = WordsWritten(x.words, plan)
    BY <1>1 DEF Rebuilds
  <2>2. \A w \in DOMAIN x.words : x.words[w] \in Data
    BY <1>1 DEF RowsInv, TypeOK
  <2> QED BY <1>1, <2>1, <2>2, WordsWrittenAre
<1> DEFINE r == phrases'
<1>3. RebuiltFits(r, x, plan, next)
  BY <1>1
<1>4. ASSUME NEW w \in DOMAIN words', ~IsDecided(RowsOf(r, w)),
             \E n \in DOMAIN RowsOf(r, w) : MaySelect(r[n]),
             ~\E n \in DOMAIN RowsOf(r, w) : MaySelect(r[n]) /\ r[n].replaces
      PROVE  \E n \in DOMAIN RowsOf(r, w) : IsShown(r[n])
  <2> HIDE DEF r
  <2>1. \A n \in DOMAIN RowsOf(r, w) : RowsOf(r, w)[n] = r[n]
    BY DEF RowsOf
  <2>2. KnownOf(x, next, plan, r, w)
    BY <1>1, <1>2, <1>3, KnownIs
  <2>3. \E n \in DOMAIN RowsOf(r, w) : IsShown(RowsOf(r, w)[n])
    BY <1>4, <2>1, <2>2, OneIsShown
  <2> QED BY <2>1, <2>3
<1> QED BY <1>4 DEF WordIsShown, Of, Replaced

(* A rebuild keeps the work made on a phrase and the phrases of a decided  *)
(* word.                                                                   *)
LEMMA RebuildKeepsWork ==
  ASSUME RowsInv, NEW x, NEW plan, NEW a, NEW mode, Rebuilds(x, plan, a, mode),
         NEW i \in DOMAIN phrases,
         IsUntouchable(phrases[i]) \/ IsDecided(Of(phrases[i].word))
  PROVE  i \in DOMAIN phrases' /\ Work(phrases'[i]) = Work(phrases[i])
<1>1. /\ x.phrases = phrases /\ x.words = words /\ x.analysis = a
      /\ Plannable(x, next) /\ plan = PlanAt(x) /\ RebuiltFits(phrases', x, plan, next)
  BY DEF Rebuilds, GivenIs
<1>2. i \in DOMAIN x.phrases
      /\ (IsUntouchable(x.phrases[i]) \/ IsDecided(RowsOf(x.phrases, x.phrases[i].word)))
  BY <1>1 DEF Of
<1> DEFINE r == phrases'
<1>3. RebuiltFits(r, x, plan, next)
  BY <1>1
<1> HIDE DEF r
<1>4. i \in DOMAIN r /\ Work(r[i]) = Work(x.phrases[i])
  BY <1>1, <1>2, <1>3, WorkStays
<1> QED BY <1>1, <1>4 DEF r

-----------------------------------------------------------------------------
(* Rows with other values in some fields.                                  *)

(* A row with other values in some fields.                                 *)
AsideFrom(r, o, changed) == r \in PhraseRow /\ \A f \in Fields \ changed : r[f] = o[f]

(* One of these fields, with its value.                                    *)
AsideWith(r, o, changed, field, v) == AsideFrom(r, o, changed) /\ r[field] = v

(* A press changes the choice only.                                        *)
LEMMA SetChoice ==
  ASSUME NEW o \in PhraseRow, NEW v \in {"none", "learn", "skip"}, NEW r, r = [o EXCEPT !.choice = v]
  PROVE  AsideFrom(r, o, {"choice"})
BY DEF PhraseRow, Fields, AsideFrom

(* A polish changes nothing else.                                          *)
LEMMA SetPolish ==
  ASSUME NEW o \in PhraseRow, NEW v \in Texts \cup {NoText}, NEW r, r = [o EXCEPT !.polish = v]
  PROVE  AsideFrom(r, o, {"polish"})
BY DEF PhraseRow, Fields, AsideFrom

(* A new boundary changes the piece and its place, and keeps the word, the *)
(* origin and the mark.                                                    *)
LEMMA SetBoundaryRow ==
  ASSUME NEW o \in PhraseRow, NEW text \in Texts, NEW key \in Keys \cup {Unplaced},
         NEW section \in SectionNames, NEW r,
         r = [o EXCEPT !.text = text, !.polish = NoText, !.reverted = FALSE,
                       !.facts = 0, !.key = key, !.edited = TRUE, !.section = section]
  PROVE  AsideWith(r, o, {"text", "polish", "reverted", "facts", "key", "edited", "section"}, "key", key)
<1> DEFINE no == FALSE
           yes == TRUE
<1>1. r = [o EXCEPT !.text = text, !.polish = NoText, !.reverted = no,
                    !.facts = 0, !.key = key, !.edited = yes, !.section = section]
      /\ no \in BOOLEAN /\ yes \in BOOLEAN
  OBVIOUS
<1> HIDE DEF no, yes
<1>2. o = [f \in Fields |-> o[f]] /\ RowTypes(o)
  BY RowsAre
<1>3. r = [f \in Fields |-> r[f]]
  BY <1>1, <1>2
<1>4. /\ r.text = text /\ r.polish = NoText /\ r.reverted = no /\ r.facts = 0
      /\ r.key = key /\ r.edited = yes /\ r.section = section
  BY <1>1, <1>2 DEF Fields
<1>5. \A f \in Fields \ {"text", "polish", "reverted", "facts", "key", "edited", "section"} :
         r[f] = o[f]
  BY <1>1, <1>2 DEF Fields
<1>6. RowTypes(r)
  <2>1. /\ r.word = o.word /\ r.origin = o.origin /\ r.shown = o.shown /\ r.choice = o.choice
        /\ r.removed = o.removed /\ r.replaces = o.replaces /\ r.made = o.made
        /\ r.job = o.job /\ r.score = o.score
    BY <1>5 DEF Fields
  <2>2. r.polish \in Texts \cup {NoText} /\ r.facts \in Nat
    BY <1>4
  <2>3. r.text \in Texts /\ r.key \in Keys \cup {Unplaced} /\ r.section \in SectionNames
        /\ r.reverted \in BOOLEAN /\ r.edited \in BOOLEAN
    BY <1>1, <1>4
  <2> QED BY <1>2, <2>1, <2>2, <2>3 DEF RowTypes
<1> QED BY <1>3, <1>4, <1>5, <1>6, RowFrom DEF AsideFrom, AsideWith

(* A typed text changes the polish and what depends on it.                 *)
LEMMA EditRow ==
  ASSUME NEW o \in PhraseRow, NEW text \in Texts, NEW section \in SectionNames, NEW r,
         r = [o EXCEPT !.polish = text, !.reverted = FALSE, !.section = section]
  PROVE  AsideFrom(r, o, {"polish", "reverted", "section"})
<1> DEFINE no == FALSE
<1>1. r = [o EXCEPT !.polish = text, !.reverted = no, !.section = section] /\ no \in BOOLEAN
  OBVIOUS
<1> HIDE DEF no
<1>2. o = [f \in Fields |-> o[f]] /\ RowTypes(o)
  BY RowsAre
<1>3. r = [f \in Fields |-> r[f]]
  BY <1>1, <1>2
<1>4. r.polish = text /\ r.reverted = no /\ r.section = section
  BY <1>1, <1>2 DEF Fields
<1>5. \A f \in Fields \ {"polish", "reverted", "section"} : r[f] = o[f]
  BY <1>1, <1>2 DEF Fields
<1>6. RowTypes(r)
  BY <1>1, <1>2, <1>4, <1>5 DEF RowTypes, Fields
<1> QED BY <1>3, <1>5, <1>6, RowFrom DEF AsideFrom

(* A revert changes which text is shown and what depends on it.            *)
LEMMA RevertRow ==
  ASSUME NEW o \in PhraseRow, NEW reverted \in BOOLEAN, NEW section \in SectionNames,
         NEW made \in SUBSET {"meaning", "speech"}, NEW r,
         r = [[o EXCEPT !.reverted = reverted] EXCEPT !.section = section, !.made = made]
  PROVE  AsideFrom(r, o, {"reverted", "section", "made"})
<1>2. o = [f \in Fields |-> o[f]] /\ RowTypes(o)
  BY RowsAre
<1>3. r = [f \in Fields |-> r[f]]
  BY <1>2
<1>4. r.reverted = reverted /\ r.section = section /\ r.made = made
  BY <1>2 DEF Fields
<1>5. \A f \in Fields \ {"reverted", "section", "made"} : r[f] = o[f]
  BY <1>2 DEF Fields
<1>6. RowTypes(r)
  BY <1>2, <1>4, <1>5 DEF RowTypes, Fields
<1> QED BY <1>3, <1>5, <1>6, RowFrom DEF AsideFrom

(* Work that ends changes what is made and the job.                        *)
LEMMA FinishRow ==
  ASSUME NEW o \in PhraseRow, NEW made \in SUBSET {"meaning", "speech"}, NEW r,
         r = [o EXCEPT !.job = "none", !.made = made]
  PROVE  AsideFrom(r, o, {"job", "made"})
<1>2. o = [f \in Fields |-> o[f]] /\ RowTypes(o)
  BY RowsAre
<1>3. r = [f \in Fields |-> r[f]]
  BY <1>2
<1>4. r.job = "none" /\ r.made = made
  BY <1>2 DEF Fields
<1>5. \A f \in Fields \ {"job", "made"} : r[f] = o[f]
  BY <1>2 DEF Fields
<1>6. RowTypes(r)
  BY <1>2, <1>4, <1>5 DEF RowTypes, Fields
<1> QED BY <1>3, <1>5, <1>6, RowFrom DEF AsideFrom

(* A polish that ends changes the text and what depends on it.             *)
LEMMA FinishPolishRow ==
  ASSUME NEW o \in PhraseRow, NEW text \in Texts, NEW made \in SUBSET {"meaning", "speech"},
         NEW section \in SectionNames, NEW r,
         r = [o EXCEPT !.job = "none", !.polish = text, !.made = made, !.section = section]
  PROVE  AsideFrom(r, o, {"job", "polish", "made", "section"})
<1>2. o = [f \in Fields |-> o[f]] /\ RowTypes(o)
  BY RowsAre
<1>3. r = [f \in Fields |-> r[f]]
  BY <1>2
<1>4. r.job = "none" /\ r.polish = text /\ r.made = made /\ r.section = section
  BY <1>2 DEF Fields
<1>5. \A f \in Fields \ {"job", "polish", "made", "section"} : r[f] = o[f]
  BY <1>2 DEF Fields
<1>6. RowTypes(r)
  BY <1>2, <1>4, <1>5 DEF RowTypes, Fields
<1> QED BY <1>3, <1>5, <1>6, RowFrom DEF AsideFrom

(* A stored phrase shown as a card keeps its word, its origin and its key. *)
LEMMA ShowRow ==
  ASSUME NEW o \in PhraseRow, NEW replaces \in BOOLEAN, NEW polish \in Texts \cup {NoText},
         NEW reverted \in BOOLEAN, NEW choice \in {"none", "learn", "skip"},
         NEW section \in SectionNames, NEW r,
         r = [o EXCEPT !.replaces = replaces, !.shown = "user", !.polish = polish,
                       !.reverted = reverted, !.choice = choice, !.section = section]
  PROVE  AsideWith(r, o, {"replaces", "shown", "polish", "reverted", "choice", "section"}, "shown", "user")
<1>2. o = [f \in Fields |-> o[f]] /\ RowTypes(o)
  BY RowsAre
<1>3. r = [f \in Fields |-> r[f]]
  BY <1>2
<1>4. /\ r.replaces = replaces /\ r.shown = "user" /\ r.polish = polish /\ r.reverted = reverted
      /\ r.choice = choice /\ r.section = section
  BY <1>2 DEF Fields
<1>5. \A f \in Fields \ {"replaces", "shown", "polish", "reverted", "choice", "section"} : r[f] = o[f]
  BY <1>2 DEF Fields
<1>6. RowTypes(r)
  BY <1>2, <1>4, <1>5 DEF RowTypes, Fields
<1> QED BY <1>3, <1>4, <1>5, <1>6, RowFrom DEF AsideFrom, AsideWith

(* An example takes the marks of the card it replaces, and is a phrase of  *)
(* its own.                                                                *)
LEMMA ExampleRow ==
  ASSUME NEW o \in PhraseRow, NEW replaces \in BOOLEAN, NEW section \in SectionNames,
         NEW choice \in {"none", "learn", "skip"}, NEW r,
         r = [o EXCEPT !.replaces = replaces, !.job = "queued", !.section = section,
                       !.choice = choice]
  PROVE  AsideFrom(r, o, {"replaces", "job", "section", "choice"})
<1>2. o = [f \in Fields |-> o[f]] /\ RowTypes(o)
  BY RowsAre
<1>3. r = [f \in Fields |-> r[f]]
  BY <1>2
<1>4. r.replaces = replaces /\ r.job = "queued" /\ r.section = section /\ r.choice = choice
  BY <1>2 DEF Fields
<1>5. \A f \in Fields \ {"replaces", "job", "section", "choice"} : r[f] = o[f]
  BY <1>2 DEF Fields
<1>6. RowTypes(r)
  BY <1>2, <1>4, <1>5 DEF RowTypes, Fields
<1> QED BY <1>3, <1>5, <1>6, RowFrom DEF AsideFrom

(* The card of another target keeps what it is; only its work is queued    *)
(* and what it stands for is noted.                                        *)
LEMMA TargetRow ==
  ASSUME NEW o \in PhraseRow, NEW replaces \in BOOLEAN, NEW r,
         r = [o EXCEPT !.replaces = replaces, !.job = "queued"]
  PROVE  AsideFrom(r, o, {"replaces", "job"})
<1>2. o = [f \in Fields |-> o[f]] /\ RowTypes(o)
  BY RowsAre
<1>3. r = [f \in Fields |-> r[f]]
  BY <1>2
<1>4. r.replaces = replaces /\ r.job = "queued"
  BY <1>2 DEF Fields
<1>5. \A f \in Fields \ {"replaces", "job"} : r[f] = o[f]
  BY <1>2 DEF Fields
<1>6. RowTypes(r)
  BY <1>2, <1>4, <1>5 DEF RowTypes, Fields
<1> QED BY <1>3, <1>5, <1>6, RowFrom DEF AsideFrom

(* A phrase whose target moved is removed and hidden.                      *)
LEMMA RetiredRow ==
  ASSUME NEW o \in PhraseRow, NEW r,
         r = [o EXCEPT !.removed = TRUE, !.shown = "none", !.job = "none"]
  PROVE  AsideWith(r, o, {"removed", "shown", "job"}, "shown", "none")
<1> DEFINE yes == TRUE
<1>1. r = [o EXCEPT !.removed = yes, !.shown = "none", !.job = "none"] /\ yes \in BOOLEAN
  OBVIOUS
<1> HIDE DEF yes
<1>2. o = [f \in Fields |-> o[f]] /\ RowTypes(o)
  BY RowsAre
<1>3. r = [f \in Fields |-> r[f]]
  BY <1>1, <1>2
<1>4. r.removed = yes /\ r.shown = "none" /\ r.job = "none"
  BY <1>1, <1>2 DEF Fields
<1>5. \A f \in Fields \ {"removed", "shown", "job"} : r[f] = o[f]
  BY <1>1, <1>2 DEF Fields
<1>6. RowTypes(r)
  BY <1>1, <1>2, <1>4, <1>5 DEF RowTypes, Fields
<1> QED BY <1>3, <1>4, <1>5, <1>6, RowFrom DEF AsideFrom, AsideWith

(* A card an example replaces is hidden, and gives up its decision.        *)
LEMMA HiddenRow ==
  ASSUME NEW o \in PhraseRow, NEW choice \in {"none", "learn", "skip"}, NEW r,
         r = [o EXCEPT !.shown = "none", !.choice = choice]
  PROVE  AsideWith(r, o, {"shown", "choice"}, "shown", "none")
<1>2. o = [f \in Fields |-> o[f]] /\ RowTypes(o)
  BY RowsAre
<1>3. r = [f \in Fields |-> r[f]]
  BY <1>2
<1>4. r.shown = "none" /\ r.choice = choice
  BY <1>2 DEF Fields
<1>5. \A f \in Fields \ {"shown", "choice"} : r[f] = o[f]
  BY <1>2 DEF Fields
<1>6. RowTypes(r)
  BY <1>2, <1>4, <1>5 DEF RowTypes, Fields
<1> QED BY <1>3, <1>4, <1>5, <1>6, RowFrom DEF AsideFrom, AsideWith

-----------------------------------------------------------------------------
(* What users do to the rows.                                              *)

(* A phrase as a later state has it, and one a user made.                  *)
Continues(r, o) ==
    /\ r \in PhraseRow /\ r.word = o.word /\ r.origin = o.origin
    /\ r.origin = "auto" => r.key = o.key
    /\ r.shown = "selection" => o.shown = "selection"

(* A phrase a user made.                                                   *)
HandMade(r) == r \in PhraseRow /\ r.origin # "auto" /\ r.shown # "selection"

(* Rows that go on, and rows users made.                                   *)
Grows(r, old) == \A n \in DOMAIN r : HandMade(r[n]) \/ (n \in DOMAIN old /\ Continues(r[n], old[n]))

(* A row that differs in other fields than these goes on as the row it     *)
(* was.                                                                    *)
LEMMA AsideContinues ==
  ASSUME NEW o \in PhraseRow, NEW changed, NEW r, AsideFrom(r, o, changed),
         changed \cap {"word", "origin", "key", "shown"} = {}
  PROVE  Continues(r, o)
<1>1. \A f \in {"word", "origin", "key", "shown"} : r[f] = o[f]
  BY DEF AsideFrom, Fields
<1> QED BY <1>1 DEF AsideFrom, Continues

(* Phrases that go on, and cards made by hand, leave no new twin and no    *)
(* new mark.                                                               *)
LEMMA GrowsSelectable ==
  ASSUME NEW old, NEW r, NEW w, Selectable(RowsOf(old, w)), Grows(r, old)
  PROVE  Selectable(RowsOf(r, w))
<1>1. \A n \in DOMAIN RowsOf(r, w) : n \in DOMAIN r /\ RowsOf(r, w)[n] = r[n] /\ r[n].word = w
  BY DEF RowsOf
<1>2. \A n \in DOMAIN RowsOf(r, w) : r[n].origin = "auto" \/ r[n].shown = "selection" =>
         /\ n \in DOMAIN RowsOf(old, w) /\ Continues(r[n], RowsOf(old, w)[n])
  BY <1>1 DEF Grows, HandMade, Continues, RowsOf
<1>3. \A n \in DOMAIN r : r[n] \in PhraseRow
  BY DEF Grows, HandMade, Continues
<1> QED BY <1>1, <1>2, <1>3 DEF Selectable, Continues

(* Rows of every word the selection can choose among.                      *)
RowsHold(r) ==
    /\ \A n \in DOMAIN r : r[n] \in PhraseRow
    /\ \A w \in Words : Selectable(RowsOf(r, w))

(* So the selection can choose among them still.                           *)
LEMMA GrownHold ==
  ASSUME RowsInv, NEW r, Grows(r, phrases)
  PROVE  RowsHold(r)
<1>1. \A n \in DOMAIN r : r[n] \in PhraseRow
  BY DEF Grows, HandMade, Continues
<1>2. \A w \in Words : Selectable(RowsOf(r, w))
  <2> TAKE w \in Words
  <2>1. Selectable(RowsOf(phrases, w))
    BY DEF RowsInv, Of
  <2> QED BY <2>1, GrowsSelectable
<1> QED BY <1>1, <1>2 DEF RowsHold

(* What a step has to show of the rows, the words and the counts.          *)
LEMMA RowsInvFrom ==
  ASSUME RowsInv, RowsHold(phrases'), DOMAIN phrases' \subseteq 1 .. next' - 1,
         next' \in 1 .. MaxPhrases + 1,
         DOMAIN words' \subseteq Words, \A w \in DOMAIN words' : words'[w] \in Data,
         \A n \in DOMAIN phrases' : phrases'[n].word \in DOMAIN words',
         knows' \in BOOLEAN, count' \in [acts : 0 .. MaxActs, rebuilds : 0 .. MaxRebuilds]
  PROVE  RowsInv'
<1>1. \A n \in DOMAIN phrases' : phrases'[n] \in PhraseRow
  BY DEF RowsHold
<1>2. \A w \in Words : Selectable(RowsOf(phrases', w))
  BY DEF RowsHold
<1>3. TypeOK'
  BY <1>1 DEF TypeOK, Data, PhraseRow, Keys
<1> QED BY <1>2, <1>3 DEF RowsInv, Of

(* The counts stay in their bounds.                                        *)
Counts == count' \in [acts : 0 .. MaxActs, rebuilds : 0 .. MaxRebuilds]

(* What a user does stays in its bound, and no rebuild was just done.      *)
LEMMA ActCounts ==
  ASSUME RowsInv, NEW rows, Act(rows)
  PROVE  Counts /\ phrases' = rows /\ last' = NoLast
<1>1. /\ count.acts < MaxActs /\ MaxActs \in Nat /\ MaxRebuilds \in Nat
      /\ count' = [count EXCEPT !.acts = @ + 1]
      /\ count \in [acts : 0 .. MaxActs, rebuilds : 0 .. MaxRebuilds]
  BY SourceWordsAssumption DEF Act, RowsInv, TypeOK
<1>2. Counts
  BY <1>1 DEF Counts
<1> QED BY <1>2 DEF Act

(* One row that goes on leaves the rows sound.                             *)
LEMMA OneChange ==
  ASSUME RowsInv, NEW i \in DOMAIN phrases, NEW row, Continues(row, phrases[i]),
         phrases' = [phrases EXCEPT ![i] = row], UNCHANGED <<words, next, knows>>, Counts
  PROVE  RowsInv'
<1>1. DOMAIN phrases' = DOMAIN phrases
      /\ \A n \in DOMAIN phrases : phrases'[n] = IF n = i THEN row ELSE phrases[n]
  OBVIOUS
<1>2. \A n \in DOMAIN phrases : phrases[n] \in PhraseRow
  BY DEF RowsInv, TypeOK
<1>3. RowsHold(phrases')
  <2> DEFINE r == phrases'
  <2>1. Grows(r, phrases)
    BY <1>1, <1>2 DEF Grows, Continues
  <2> HIDE DEF r
  <2>2. RowsHold(r)
    BY <2>1, GrownHold
  <2> QED BY <2>2 DEF r
<1>4. \A n \in DOMAIN phrases' : phrases'[n].word = phrases[n].word
  BY <1>1 DEF Continues
<1>5. /\ DOMAIN phrases' \subseteq 1 .. next' - 1 /\ next' \in 1 .. MaxPhrases + 1
      /\ DOMAIN words' \subseteq Words /\ \A w \in DOMAIN words' : words'[w] \in Data
      /\ \A n \in DOMAIN phrases' : phrases'[n].word \in DOMAIN words'
      /\ knows' \in BOOLEAN
  BY <1>1, <1>4 DEF RowsInv, TypeOK
<1> QED BY <1>3, <1>5, RowsInvFrom DEF Counts

(* So does every write of one row.                                         *)
LEMMA ChangeKeeps ==
  ASSUME RowsInv, NEW i \in DOMAIN phrases, NEW row, Continues(row, phrases[i]),
         Change(i, row) \/ Works(i, row)
  PROVE  RowsInv' /\ last' = NoLast
<1>1. CASE Change(i, row)
  <2>1. Act([phrases EXCEPT ![i] = row]) /\ UNCHANGED <<words, next, knows>>
    BY <1>1 DEF Change
  <2>2. Counts /\ phrases' = [phrases EXCEPT ![i] = row] /\ last' = NoLast
    BY <2>1, ActCounts
  <2> QED BY <2>1, <2>2, OneChange
<1>2. CASE Works(i, row)
  <2>1. phrases' = [phrases EXCEPT ![i] = row] /\ UNCHANGED <<words, next, knows, count>>
        /\ last' = NoLast
    BY <1>2 DEF Works
  <2>2. Counts
    BY <2>1 DEF Counts, RowsInv, TypeOK
  <2> QED BY <2>1, <2>2, OneChange
<1> QED BY <1>1, <1>2

-----------------------------------------------------------------------------
(* What users do to one phrase.                                            *)

(* The text shown is a text.                                               *)
LEMMA ShownIs ==
  ASSUME NEW o \in PhraseRow
  PROVE  Shown(o) \in Texts
BY RowsAre DEF RowTypes, Shown, ShowsPolish

(* A press keeps the rows sound.                                           *)
LEMMA PressKeeps ==
  ASSUME RowsInv, NEW i \in DOMAIN phrases, NEW c \in {"learn", "skip"}, Press(i, c)
  PROVE  RowsInv' /\ last' = NoLast
<1> DEFINE o == phrases[i]
           v == IF o.choice = c THEN "none" ELSE c
           r == [o EXCEPT !.choice = v]
<1>1. o \in PhraseRow /\ v \in {"none", "learn", "skip"}
  BY DEF RowsInv, TypeOK
<1>2. Change(i, r)
  BY DEF Press
<1> HIDE DEF o, v
<1>3. AsideFrom(r, o, {"choice"})
  BY <1>1, SetChoice
<1> HIDE DEF r
<1>4. Continues(r, o)
  BY <1>1, <1>3, AsideContinues
<1> QED BY <1>2, <1>4, ChangeKeeps DEF o

(* A new boundary keeps the rows sound: only a phrase without a place      *)
(* takes one, and that is none of the analysis's.                          *)
LEMMA SetBoundaryKeeps ==
  ASSUME RowsInv, NEW i \in DOMAIN phrases, NEW t \in Texts, NEW k \in Keys, SetBoundary(i, t, k)
  PROVE  RowsInv' /\ last' = NoLast
<1> DEFINE o == phrases[i]
           s == EarnedBy(o, t)
           r == [o EXCEPT !.text = t, !.polish = NoText, !.reverted = FALSE,
                          !.facts = 0, !.key = k, !.edited = TRUE, !.section = s]
<1>1. o \in PhraseRow /\ s \in SectionNames
  BY EarnedIs DEF RowsInv, TypeOK, EarnedBy
<1>2. Change(i, r) /\ (k = o.key \/ o.key = Unplaced)
  BY DEF SetBoundary
<1>3. o.origin = "auto" => o.key \in Keys
  <2>1. o.word \in Words /\ Selectable(Of(o.word))
    BY <1>1, RowsAre DEF RowTypes, RowsInv
  <2>2. i \in DOMAIN Of(o.word) /\ Of(o.word)[i] = o
    BY DEF Of, RowsOf
  <2> QED BY <2>1, <2>2 DEF Selectable
<1>8. k \in Keys \cup {Unplaced}
  OBVIOUS
<1> HIDE DEF o, s
<1>4. AsideWith(r, o, {"text", "polish", "reverted", "facts", "key", "edited", "section"}, "key", k)
  BY <1>1, <1>8, SetBoundaryRow
<1> HIDE DEF r
<1>5. o.origin = "auto" => r.key = o.key
  BY <1>2, <1>3, <1>4, KeysAre DEF AsideWith
<1>6. r \in PhraseRow /\ r.word = o.word /\ r.origin = o.origin /\ r.shown = o.shown
  BY <1>4 DEF AsideWith, AsideFrom, Fields
<1>7. Continues(r, o)
  BY <1>5, <1>6 DEF Continues
<1> QED BY <1>2, <1>7, ChangeKeeps DEF o

(* A typed text keeps the rows sound.                                      *)
LEMMA EditKeeps ==
  ASSUME RowsInv, NEW i \in DOMAIN phrases, NEW t \in Texts, EditPhrase(i, t)
  PROVE  RowsInv' /\ last' = NoLast
<1> DEFINE o == phrases[i]
           s == EarnedBy(o, t)
           r == [o EXCEPT !.polish = t, !.reverted = FALSE, !.section = s]
<1>1. o \in PhraseRow /\ s \in SectionNames
  BY EarnedIs DEF RowsInv, TypeOK, EarnedBy
<1>2. Change(i, r)
  BY DEF EditPhrase
<1> HIDE DEF o, s
<1>3. AsideFrom(r, o, {"polish", "reverted", "section"})
  BY <1>1, EditRow
<1> HIDE DEF r
<1>4. Continues(r, o)
  BY <1>1, <1>3, AsideContinues
<1> QED BY <1>2, <1>4, ChangeKeeps DEF o

(* A revert keeps the rows sound.                                          *)
LEMMA RevertKeeps ==
  ASSUME RowsInv, NEW i \in DOMAIN phrases, RevertPolish(i)
  PROVE  RowsInv' /\ last' = NoLast
<1> DEFINE o == phrases[i]
           back == ~o.reverted
           none == {}
           shown == [o EXCEPT !.reverted = back]
           s == EarnedBy(o, Shown(shown))
           r == [shown EXCEPT !.section = s, !.made = none]
<1>1. o \in PhraseRow /\ s \in SectionNames /\ back \in BOOLEAN /\ none \in SUBSET {"meaning", "speech"}
  BY EarnedIs DEF RowsInv, TypeOK, EarnedBy
<1>2. Change(i, r)
  BY DEF RevertPolish
<1> HIDE DEF o, s, back, none
<1>3. AsideFrom(r, o, {"reverted", "section", "made"})
  BY <1>1, RevertRow
<1> HIDE DEF r
<1>4. Continues(r, o)
  BY <1>1, <1>3, AsideContinues
<1> QED BY <1>2, <1>4, ChangeKeeps DEF o

(* Work queued, begun or dropped keeps the rows sound.                     *)
LEMMA JobKeeps ==
  ASSUME RowsInv, NEW i \in DOMAIN phrases, Enqueue(i) \/ Claim(i) \/ Drop(i)
  PROVE  RowsInv' /\ last' = NoLast
<1> DEFINE o == phrases[i]
<1>1. o \in PhraseRow
  BY DEF RowsInv, TypeOK
<1>2. PICK v \in {"none", "queued", "running"} :
         Change(i, [o EXCEPT !.job = v]) \/ Works(i, [o EXCEPT !.job = v])
  BY DEF Enqueue, Claim, Drop
<1> DEFINE r == [o EXCEPT !.job = v]
<1>3. Change(i, r) \/ Works(i, r)
  BY <1>2
<1> HIDE DEF o
<1>4. Differs(r, o, "job", v)
  BY <1>1, SetJob
<1> HIDE DEF r
<1>5. Continues(r, o)
  BY <1>1, <1>4, AsideContinues DEF Differs, AsideFrom
<1> QED BY <1>3, <1>5, ChangeKeeps DEF o

(* Work that ends keeps the rows sound.                                    *)
LEMMA FinishKeeps ==
  ASSUME RowsInv, NEW i \in DOMAIN phrases, NEW k \in {"meaning", "speech"}, Finish(i, k)
  PROVE  RowsInv' /\ last' = NoLast
<1> DEFINE o == phrases[i]
           made == o.made \cup {k}
           r == [o EXCEPT !.job = "none", !.made = made]
<1>1. o \in PhraseRow
  BY DEF RowsInv, TypeOK
<1>2. made \in SUBSET {"meaning", "speech"}
  BY <1>1, RowsAre DEF RowTypes
<1>3. Works(i, r)
  BY DEF Finish
<1> HIDE DEF o, made
<1>4. AsideFrom(r, o, {"job", "made"})
  BY <1>1, <1>2, FinishRow
<1> HIDE DEF r
<1>5. Continues(r, o)
  BY <1>1, <1>4, AsideContinues
<1> QED BY <1>3, <1>5, ChangeKeeps DEF o

(* A polish that ends keeps the rows sound.                                *)
LEMMA FinishPolishKeeps ==
  ASSUME RowsInv, NEW i \in DOMAIN phrases, NEW t \in Texts, FinishPolish(i, t)
  PROVE  RowsInv' /\ last' = NoLast
<1> DEFINE o == phrases[i]
           made == IF t = o.text THEN o.made ELSE {}
           s == EarnedBy(o, t)
           r == [o EXCEPT !.job = "none", !.polish = t, !.made = made, !.section = s]
<1>1. o \in PhraseRow /\ s \in SectionNames
  BY EarnedIs DEF RowsInv, TypeOK, EarnedBy
<1>2. made \in SUBSET {"meaning", "speech"}
  BY <1>1, RowsAre DEF RowTypes
<1>3. Works(i, r)
  BY DEF FinishPolish
<1> HIDE DEF o, made, s
<1>4. AsideFrom(r, o, {"job", "polish", "made", "section"})
  BY <1>1, <1>2, FinishPolishRow
<1> HIDE DEF r
<1>5. Continues(r, o)
  BY <1>1, <1>4, AsideContinues
<1> QED BY <1>3, <1>5, ChangeKeeps DEF o

(* A word learnt keeps the rows sound.                                     *)
LEMMA LearnKeeps ==
  ASSUME RowsInv, Learn
  PROVE  RowsInv' /\ last' = NoLast
<1>1. /\ knows' = TRUE /\ Act(phrases) /\ UNCHANGED <<words, next>>
  BY DEF Learn
<1>2. Counts /\ phrases' = phrases /\ last' = NoLast
  BY <1>1, ActCounts
<1>3. RowsHold(phrases)
  BY DEF RowsHold, RowsInv, TypeOK, Of
<1>4. RowsHold(phrases')
  BY <1>2, <1>3
<1>5. /\ DOMAIN phrases' \subseteq 1 .. next' - 1 /\ next' \in 1 .. MaxPhrases + 1
      /\ DOMAIN words' \subseteq Words /\ \A w \in DOMAIN words' : words'[w] \in Data
      /\ \A n \in DOMAIN phrases' : phrases'[n].word \in DOMAIN words'
      /\ knows' \in BOOLEAN
  BY <1>1, <1>2 DEF RowsInv, TypeOK
<1> QED BY <1>2, <1>4, <1>5, RowsInvFrom DEF Counts

-----------------------------------------------------------------------------
(* Cards users make.                                                       *)

(* A phrase with a card of the user's.                                     *)
IsCard(r, w, key, origin) ==
    r \in PhraseRow /\ r.word = w /\ r.key = key /\ r.origin = origin /\ r.shown = "user"

(* A phrase made by hand is a card of its word, and none of the            *)
(* analysis's.                                                             *)
LEMMA ManualIs ==
  ASSUME NEW w \in Words, NEW key \in Keys \cup {Unplaced}, NEW origin \in {"manual", "example"},
         NEW text \in Texts, NEW polish \in Texts \cup {NoText},
         NEW r, r = Manual(w, key, origin, text, polish)
  PROVE  IsCard(r, w, key, origin)
<1> DEFINE occ == [text |-> text, facts |-> 0, score |-> 0]
           s == Earned(IF polish = NoText THEN text ELSE polish, Looked[w], knows)
           o == Phrase(w, key, origin, "user", occ, s)
<1>1. r = [o EXCEPT !.polish = polish]
  BY DEF Manual
<1>2. occ \in Found /\ s \in SectionNames /\ origin \in {"auto", "manual", "example"}
      /\ "user" \in {"none", "selection", "user"}
  BY EarnedIs DEF Found
<1>3. IsPhrase(o, w, key, origin, "user")
  <2> HIDE DEF occ, s
  <2> QED BY <1>2, PhraseIs
<1> HIDE DEF o
<1>4. AsideFrom(r, o, {"polish"})
  BY <1>1, <1>3, SetPolish DEF IsPhrase
<1>5. r \in PhraseRow /\ \A f \in {"word", "key", "origin", "shown"} : r[f] = o[f]
  BY <1>4 DEF AsideFrom, Fields
<1> QED BY <1>3, <1>5 DEF IsPhrase, IsCard

(* A stored phrase with a card goes on as the phrase it was.               *)
LEMMA ShowExistingIs ==
  ASSUME RowsInv, NEW i \in DOMAIN phrases, NEW polish \in Texts \cup {NoText},
         NEW r, r = ShowExisting(i, polish)
  PROVE  Continues(r, phrases[i]) /\ r.shown = "user"
<1> DEFINE o == phrases[i]
           text == IF polish = NoText THEN Shown(o) ELSE polish
           replaces == o.replaces \/ o.shown = "selection"
           said == IF text # Shown(o) THEN polish ELSE o.polish
           reverted == IF text # Shown(o) THEN FALSE ELSE o.reverted
           choice == IF o.choice = "skip" /\ ~IsDecided(Of(o.word)) THEN "none" ELSE o.choice
           s == Earned(text, Looked[o.word], knows)
<1>1. r = [o EXCEPT !.replaces = replaces, !.shown = "user", !.polish = said,
                    !.reverted = reverted, !.choice = choice, !.section = s]
  BY DEF ShowExisting
<1>2. o \in PhraseRow /\ s \in SectionNames
  BY EarnedIs DEF RowsInv, TypeOK
<1>3. RowTypes(o)
  BY <1>2, RowsAre
<1>4. /\ replaces \in BOOLEAN /\ said \in Texts \cup {NoText} /\ reverted \in BOOLEAN
      /\ choice \in {"none", "learn", "skip"}
  <2>1. replaces \in BOOLEAN
    OBVIOUS
  <2>2. said \in Texts \cup {NoText}
    BY <1>3 DEF RowTypes
  <2>3. reverted \in BOOLEAN
    BY <1>3 DEF RowTypes
  <2>4. choice \in {"none", "learn", "skip"}
    BY <1>3 DEF RowTypes
  <2> HIDE DEF replaces, said, reverted, choice
  <2> QED BY <2>1, <2>2, <2>3, <2>4
<1> HIDE DEF o, replaces, said, reverted, choice, s
<1>5. AsideWith(r, o, {"replaces", "shown", "polish", "reverted", "choice", "section"}, "shown", "user")
  BY <1>1, <1>2, <1>4, ShowRow
<1>6. r \in PhraseRow /\ r.word = o.word /\ r.origin = o.origin /\ r.key = o.key /\ r.shown = "user"
  BY <1>5 DEF AsideWith, AsideFrom, Fields
<1> QED BY <1>6 DEF Continues, o

(* A card: a new phrase, or a stored one with a card.                      *)
CardFits(id, row, w, insteadOf) ==
    /\ row \in PhraseRow /\ row.word = w /\ row.shown = "user"
    /\ \/ id = next /\ HandMade(row)
       \/ id \in DOMAIN phrases \ insteadOf /\ Continues(row, phrases[id])

(* A card is a new phrase, or a stored one of the same word.               *)
LEMMA ShowIs ==
  ASSUME RowsInv, NEW w \in Words, NEW key \in Keys \cup {Unplaced}, NEW text \in Texts,
         NEW polish \in Texts \cup {NoText}, NEW insteadOf,
         NEW card, card = Show(w, key, text, polish, insteadOf)
  PROVE  CardFits(card.id, card.row, w, insteadOf)
<1> DEFINE found == At(w, key, text, insteadOf)
<1>1. \A i \in found : i \in DOMAIN phrases \ insteadOf /\ phrases[i].word = w
  BY DEF At, Of, RowsOf
<1>2. CASE found = {}
  <2> DEFINE row == Manual(w, key, "manual", text, polish)
  <2>1. card = [id |-> next, row |-> row]
    BY <1>2 DEF Show
  <2>2. IsCard(row, w, key, "manual")
    BY ManualIs
  <2> HIDE DEF row
  <2>3. card.id = next /\ card.row = row
    BY <2>1
  <2> QED BY <2>2, <2>3 DEF IsCard, CardFits, HandMade
<1>3. CASE found # {}
  <2> DEFINE i == Min(found)
             row == ShowExisting(i, polish)
  <2>1. card = [id |-> i, row |-> row]
    BY <1>3 DEF Show
  <2>2. i \in found
    <3>1. found \in SUBSET Nat /\ IsFiniteSet(found)
      <4> DEFINE below == 1 .. next - 1
      <4>1. 1 \in Int /\ next - 1 \in Int /\ DOMAIN phrases \subseteq below /\ below \subseteq Nat
        BY SourceWordsAssumption DEF RowsInv, TypeOK
      <4>2. IsFiniteSet(below)
        BY <4>1, FS_Interval
      <4>3. found \subseteq below
        <5> HIDE DEF below, found
        <5> QED BY <1>1, <4>1
      <4> HIDE DEF below, found
      <4>4. IsFiniteSet(found)
        BY <4>2, <4>3, FS_Subset
      <4>5. found \in SUBSET Nat
        BY <4>1, <4>3
      <4> QED BY <4>4, <4>5
    <3> HIDE DEF found
    <3>2. \E m \in found : \A k \in found : m <= k
      BY <1>3, <3>1, MinExists
    <3> QED BY <3>2 DEF Min
  <2> HIDE DEF found, i
  <2>3. i \in DOMAIN phrases \ insteadOf /\ phrases[i].word = w
    BY <1>1, <2>2
  <2>4. Continues(row, phrases[i]) /\ row.shown = "user"
    BY <2>3, ShowExistingIs
  <2> HIDE DEF row
  <2>5. card.id = i /\ card.row = row
    BY <2>1
  <2> QED BY <2>3, <2>4, <2>5 DEF CardFits, Continues
<1> QED BY <1>2, <1>3

(* The phrases with a card among them.                                     *)
WithCard(r, rows, card) ==
    /\ Grows(r, phrases) /\ DOMAIN r = DOMAIN rows \cup {card.id}
    /\ r[card.id] = card.row
    /\ \A n \in DOMAIN rows \ {card.id} : r[n] = rows[n]

(* The phrases and the words once a card is made.                          *)
LEMMA MadeGrows ==
  ASSUME NEW rows, Grows(rows, phrases), NEW card, NEW w, NEW out, CardFits(card.id, card.row, w, out),
         NEW r, r = WithPhrase(rows, card)
  PROVE  WithCard(r, rows, card)
<1>1. /\ DOMAIN r = DOMAIN rows \cup {card.id}
      /\ \A n \in DOMAIN r : r[n] = IF n = card.id THEN card.row ELSE rows[n]
  BY DEF WithPhrase
<1> QED BY <1>1 DEF WithCard, Grows, CardFits

(* Rows once a card of a word is made.                                     *)
MadeFits(r, w) ==
    /\ RowsHold(r) /\ DOMAIN r \subseteq DOMAIN phrases \cup {next}
    /\ \A n \in DOMAIN r : r[n].word = w \/ r[n].word \in DOMAIN words

(* A card made keeps the rows sound: it has a new id or that of a stored   *)
(* phrase, and its word is stored.                                         *)
LEMMA MakesKeeps ==
  ASSUME RowsInv, NEW w \in Words, NEW card, card.row.word = w, Makes(card),
         card.id = next \/ card.id \in DOMAIN phrases, NEW r, Act(r), MadeFits(r, w),
         next \in DOMAIN r => card.id = next
  PROVE  RowsInv' /\ last' = NoLast
<1>1. Counts /\ phrases' = r /\ last' = NoLast
  BY ActCounts
<1>2. /\ next <= MaxPhrases /\ next' = (IF card.id = next THEN next + 1 ELSE next)
      /\ words' = Joint(words, [v \in {w} |-> Looked[v]])
      /\ knows' = knows
  BY DEF Makes
<1>3. /\ next \in 1 .. MaxPhrases + 1 /\ DOMAIN phrases \subseteq 1 .. next - 1 /\ MaxPhrases \in Nat
      /\ knows \in BOOLEAN /\ DOMAIN words \subseteq Words /\ \A v \in DOMAIN words : words[v] \in Data
  BY SourceWordsAssumption DEF RowsInv, TypeOK
<1>4. next' \in 1 .. MaxPhrases + 1 /\ DOMAIN r \subseteq 1 .. next' - 1
  <2>1. \A n \in DOMAIN r : n \in DOMAIN phrases \/ (n = next /\ card.id = next)
    BY DEF MadeFits
  <2>2. CASE card.id = next
    BY <1>2, <1>3, <2>1, <2>2
  <2>3. CASE card.id # next
    BY <1>2, <1>3, <2>1, <2>3
  <2> QED BY <2>2, <2>3
<1>5. /\ DOMAIN words' = DOMAIN words \cup {w}
      /\ \A v \in DOMAIN words' : words'[v] = IF v \in DOMAIN words THEN words[v] ELSE Looked[v]
  BY <1>2 DEF Joint
<1>6. Looked[w] \in Data
  BY SourceWordsAssumption DEF Data
<1>7. /\ DOMAIN words' \subseteq Words /\ \A v \in DOMAIN words' : words'[v] \in Data
      /\ \A n \in DOMAIN r : r[n].word \in DOMAIN words'
  BY <1>3, <1>5, <1>6 DEF MadeFits
<1> QED BY <1>1, <1>2, <1>3, <1>4, <1>7, RowsInvFrom DEF Counts, MadeFits

(* The rows as they are go on as they are, and their words are stored.     *)
LEMMA StillGrows ==
  ASSUME RowsInv
  PROVE  Grows(phrases, phrases) /\ \A n \in DOMAIN phrases : phrases[n].word \in DOMAIN words
BY DEF RowsInv, TypeOK, Grows, Continues

(* A card added by hand keeps the rows sound.                              *)
LEMMA AddKeeps ==
  ASSUME RowsInv, NEW w \in Words, NEW k \in Places, NEW t \in Texts, AddManual(w, k, t)
  PROVE  RowsInv' /\ last' = NoLast
<1> DEFINE card == Show(w, k, t, NoText, {})
           r == WithPhrase(phrases, card)
<1>1. Act(r) /\ Makes(card)
  BY Zenon DEF AddManual
<1>2. k \in Keys \cup {Unplaced}
  BY SourceWordsAssumption DEF Keys
<1>3. NoText \in Texts \cup {NoText} /\ card = Show(w, k, t, NoText, {})
  OBVIOUS
<1> HIDE DEF card
<1>4. CardFits(card.id, card.row, w, {})
  BY <1>2, <1>3, ShowIs
<1>5. r = WithPhrase(phrases, card)
  OBVIOUS
<1> HIDE DEF r
<1>6. WithCard(r, phrases, card)
  BY <1>4, <1>5, StillGrows, MadeGrows
<1>7. card.row.word = w /\ (card.id = next \/ card.id \in DOMAIN phrases)
  BY <1>4 DEF CardFits
<1>8. MadeFits(r, w)
  BY <1>6, <1>7, StillGrows, GrownHold DEF MadeFits, WithCard
<1>9. next \in DOMAIN r => card.id = next
  <2>1. next \notin DOMAIN phrases
    BY SourceWordsAssumption DEF RowsInv, TypeOK
  <2> QED BY <1>6, <2>1 DEF WithCard
<1> QED BY <1>1, <1>7, <1>8, <1>9, MakesKeeps

(* An example in the place of a card keeps the rows sound.                 *)
LEMMA ReplaceKeeps ==
  ASSUME RowsInv, NEW i \in DOMAIN phrases, NEW t \in Texts, Replace(i, t)
  PROVE  RowsInv' /\ last' = NoLast
<1> DEFINE o == phrases[i]
           b == Manual(o.word, Unplaced, "example", t, NoText)
           stands == StandsForSelection(o)
           s == EarnedBy(o, t)
           choice == IF o.choice = "learn" THEN "learn" ELSE "none"
           row == [b EXCEPT !.replaces = stands, !.job = "queued", !.section = s, !.choice = choice]
           left == IF o.choice = "learn" THEN "none" ELSE o.choice
           rows == [phrases EXCEPT ![i].shown = "none",
                                   ![i].choice = IF @ = "learn" THEN "none" ELSE @]
           hidden == [o EXCEPT !.shown = "none", !.choice = left]
           card == [id |-> next, row |-> row]
           r == WithPhrase(rows, card)
<1>1. Act(r) /\ Makes(card)
  BY Zenon DEF Replace
<1>2. o \in PhraseRow /\ o.word \in Words /\ o.word \in DOMAIN words /\ i \in DOMAIN phrases
  BY DEF RowsInv, TypeOK
<1>3. IsCard(b, o.word, Unplaced, "example")
  BY <1>2, ManualIs
<1>4. /\ stands \in BOOLEAN /\ s \in SectionNames /\ choice \in {"none", "learn", "skip"}
      /\ left \in {"none", "learn", "skip"}
  <2>1. stands \in BOOLEAN
    BY DEF StandsForSelection
  <2>2. s \in SectionNames
    BY EarnedIs DEF EarnedBy
  <2>3. left \in {"none", "learn", "skip"}
    BY <1>2, RowsAre DEF RowTypes
  <2> HIDE DEF stands, s
  <2> QED BY <2>1, <2>2, <2>3
<1>5. DOMAIN rows = DOMAIN phrases /\ \A n \in DOMAIN phrases : rows[n] = IF n = i THEN hidden ELSE phrases[n]
  <2>1. rows = [phrases EXCEPT ![i] = hidden]
    <3>1. hidden = [[o EXCEPT !.shown = "none"] EXCEPT !.choice = left]
      OBVIOUS
    <3>2. [o EXCEPT !.shown = "none"].choice = o.choice
      BY <1>2 DEF PhraseRow
    <3>3. rows = [phrases EXCEPT ![i] = [[o EXCEPT !.shown = "none"] EXCEPT !.choice = left]]
      BY <1>2, <3>2
    <3> QED BY <3>1, <3>3
  <2> HIDE DEF rows, hidden
  <2> QED BY <2>1
<1> HIDE DEF o, b, stands, s, choice, left, rows, r
<1>6. AsideFrom(row, b, {"replaces", "job", "section", "choice"})
  BY <1>3, <1>4, ExampleRow DEF IsCard
<1>7. AsideWith(hidden, o, {"shown", "choice"}, "shown", "none")
  BY <1>2, <1>4, HiddenRow
<1> HIDE DEF row, hidden
<1>8. card.id = next /\ card.row = row
  OBVIOUS
<1> HIDE DEF card
<1>9. CardFits(card.id, card.row, o.word, {})
  <2>1. row \in PhraseRow /\ row.word = b.word /\ row.origin = b.origin /\ row.shown = b.shown
    BY <1>6 DEF AsideFrom, Fields
  <2> QED BY <1>3, <1>8, <2>1 DEF IsCard, CardFits, HandMade
<1>10. Continues(hidden, o)
  <2>1. hidden \in PhraseRow /\ hidden.word = o.word /\ hidden.origin = o.origin
        /\ hidden.key = o.key /\ hidden.shown = "none"
    BY <1>7 DEF AsideWith, AsideFrom, Fields
  <2> QED BY <2>1 DEF Continues
<1>11. Grows(rows, phrases) /\ \A n \in DOMAIN rows : rows[n].word \in DOMAIN words
  <2>1. \A n \in DOMAIN phrases : phrases[n] \in PhraseRow /\ phrases[n].word \in DOMAIN words
    BY DEF RowsInv, TypeOK
  <2> QED BY <1>2, <1>5, <1>10, <2>1 DEF Grows, Continues, o
<1>12. WithCard(r, rows, card)
  <2>1. r = WithPhrase(rows, card)
    BY DEF r, card
  <2> QED BY <1>9, <1>11, <2>1, MadeGrows
<1>13. card.row.word = o.word
  BY <1>9 DEF CardFits
<1>14. MadeFits(r, o.word)
  BY <1>5, <1>8, <1>11, <1>12, <1>13, GrownHold DEF MadeFits, WithCard
<1>15. Act(r) /\ Makes(card)
  BY <1>1
<1> QED BY <1>2, <1>8, <1>13, <1>14, <1>15, MakesKeeps

-----------------------------------------------------------------------------
(* Another target.                                                         *)

(* The marks of a word set and cleared, and nothing else.                  *)
MarkedAs(r, made) ==
    /\ RowsHold(r) /\ DOMAIN r = DOMAIN made
    /\ \A n \in DOMAIN made : r[n].word = made[n].word

(* The selection made again for one word leaves every word one mark at     *)
(* most, and nothing else changes.                                         *)
LEMMA MarksHold ==
  ASSUME NEW made, RowsHold(made), NEW v \in Words, NEW decided \in BOOLEAN, NEW known,
         NEW c, c = Selection(RowsOf(made, v), decided, known),
         NEW r, r = [j \in DOMAIN made |->
                       CASE j \in c.clear -> [made[j] EXCEPT !.shown = "none"]
                         [] j \in c.set   -> [made[j] EXCEPT !.shown = "selection"]
                         [] OTHER         -> made[j]]
  PROVE  MarkedAs(r, made)
<1> DEFINE rows == RowsOf(made, v)
           kept == Marked(rows) \ c.clear
<1>1. Selectable(rows) /\ \A n \in DOMAIN made : made[n] \in PhraseRow
  BY DEF RowsHold
<1>2. SelectionFits(rows, decided, c, kept)
  <2> HIDE DEF rows
  <2> QED BY <1>1, SelectionIs DEF rows
<1>3. /\ c.clear \subseteq Marked(rows) /\ c.set \cap Marked(rows) = {}
      /\ c.set \subseteq DOMAIN rows /\ \A i, j \in kept \cup c.set : i = j
  BY <1>2 DEF SelectionFits
<1>4. \A n \in DOMAIN rows : n \in DOMAIN made /\ made[n].word = v /\ rows[n] = made[n]
  BY DEF RowsOf
<1>5. DOMAIN r = DOMAIN made
  OBVIOUS
<1>6. \A n \in DOMAIN made :
         /\ r[n] \in PhraseRow /\ \A f \in Fields \ {"shown"} : r[n][f] = made[n][f]
         /\ r[n].shown = "selection" => n \in c.set \/ (n \notin c.clear /\ made[n].shown = "selection")
  <2> TAKE n \in DOMAIN made
  <2>1. made[n] \in PhraseRow
    BY <1>1
  <2>2. CASE n \in c.clear
    <3>1. r[n] = [made[n] EXCEPT !.shown = "none"]
      BY <1>3, <2>2
    <3>2. Differs(r[n], made[n], "shown", "none")
      BY <2>1, <3>1, SetShown
    <3> QED BY <3>2 DEF Differs
  <2>3. CASE n \in c.set
    <3>1. r[n] = [made[n] EXCEPT !.shown = "selection"]
      BY <1>3, <2>3
    <3>2. Differs(r[n], made[n], "shown", "selection")
      BY <2>1, <3>1, SetShown
    <3> QED BY <2>3, <3>2 DEF Differs
  <2>4. CASE n \notin c.clear /\ n \notin c.set
    <3>1. r[n] = made[n]
      BY <2>4
    <3> QED BY <2>1, <2>4, <3>1
  <2> QED BY <2>2, <2>3, <2>4
<1> HIDE DEF rows
<1>7. \A n \in DOMAIN made : r[n].word = made[n].word /\ r[n].key = made[n].key /\ r[n].origin = made[n].origin
  BY <1>6 DEF Fields
<1>8. ASSUME NEW u \in Words PROVE Selectable(RowsOf(r, u))
  <2> DEFINE now == RowsOf(r, u)
             then == RowsOf(made, u)
  <2>1. Selectable(then)
    BY DEF RowsHold
  <2>2. DOMAIN now = DOMAIN then /\ \A n \in DOMAIN now : now[n] = r[n] /\ then[n] = made[n]
    BY <1>5, <1>7 DEF RowsOf
  <2>3. \A n \in DOMAIN now : n \in DOMAIN made /\ made[n].word = u
    BY <1>5, <1>7 DEF RowsOf
  <2> HIDE DEF now, then
  <2>4. \A n \in DOMAIN now : /\ now[n] \in PhraseRow
                              /\ now[n].key = then[n].key /\ now[n].origin = then[n].origin
    BY <1>6, <1>7, <2>2, <2>3
  <2>5. \A m, n \in DOMAIN now : now[m].shown = "selection" /\ now[n].shown = "selection" => m = n
    <3>1. CASE u = v
      <4>1. now = rows \/ then = rows
        BY <3>1 DEF then, rows
      <4>2. \A n \in DOMAIN now : now[n].shown = "selection" => n \in kept \cup c.set
        <5>1. \A n \in DOMAIN now : n \in DOMAIN rows /\ rows[n] = made[n]
          BY <2>2, <3>1 DEF then, rows
        <5> QED BY <1>6, <2>2, <2>3, <5>1 DEF Marked
      <4> QED BY <1>3, <4>2
    <3>2. CASE u # v
      <4>1. \A n \in DOMAIN now : n \notin c.set
        BY <1>3, <1>4, <2>3, <3>2
      <4>2. \A n \in DOMAIN now : now[n].shown = "selection" => then[n].shown = "selection"
        BY <1>6, <2>2, <2>3, <4>1
      <4> QED BY <2>1, <2>2, <4>2 DEF Selectable
    <3> QED BY <3>1, <3>2
  <2>6. Selectable(now)
    BY <2>1, <2>2, <2>4, <2>5 DEF Selectable
  <2> QED BY <2>6 DEF now
<1> QED BY <1>5, <1>6, <1>7, <1>8 DEF MarkedAs, RowsHold

(* Another target keeps the rows sound: a phrase goes, a card comes, and   *)
(* the selection of the old word is made again.                            *)
LEMMA TargetKeeps ==
  ASSUME RowsInv, NEW i \in DOMAIN phrases, NEW w \in Words,
         NEW key \in Places \cup {Unplaced, phrases[i].key}, ChangeTarget(i, w, key)
  PROVE  RowsInv' /\ last' = NoLast
<1> DEFINE o == phrases[i]
           polish == IF key = Unplaced \/ Shown(o) # o.text THEN Shown(o) ELSE NoText
           text == IF key = Unplaced THEN Shown(o) ELSE o.text
           card == Show(w, key, text, polish, {i})
           replaces == card.row.replaces \/ (w = o.word /\ StandsForSelection(o))
           row == [card.row EXCEPT !.replaces = replaces, !.job = "queued"]
           gone == [o EXCEPT !.removed = TRUE, !.shown = "none", !.job = "none"]
           retired == [phrases EXCEPT ![i] = gone]
           new == [id |-> card.id, row |-> row]
           made == WithPhrase(retired, new)
           rows == RowsOf(made, o.word)
           decided == IsDecided(rows)
           c == Selection(rows, decided, knows)
           r == [j \in DOMAIN made |->
                   CASE j \in c.clear -> [made[j] EXCEPT !.shown = "none"]
                     [] j \in c.set   -> [made[j] EXCEPT !.shown = "selection"]
                     [] OTHER         -> made[j]]
<1>1. Act(r) /\ Makes(card)
  BY Zenon DEF ChangeTarget
<1>2. o \in PhraseRow /\ o.word \in Words /\ o.word \in DOMAIN words
  BY DEF RowsInv, TypeOK
<1>3. key \in Keys \cup {Unplaced} /\ text \in Texts /\ polish \in Texts \cup {NoText}
  <2>1. key \in Keys \cup {Unplaced}
    <3>1. o.key \in Keys \cup {Unplaced}
      <4> HIDE DEF o
      <4> QED BY <1>2, RowsAre DEF RowTypes
    <3> QED BY <3>1, SourceWordsAssumption DEF Keys
  <2>2. Shown(o) \in Texts
    <3> HIDE DEF o
    <3> QED BY <1>2, ShownIs
  <2>3. o.text \in Texts /\ o.polish \in Texts \cup {NoText}
    <3> HIDE DEF o
    <3> QED BY <1>2, RowsAre DEF RowTypes
  <2> QED BY <2>1, <2>2, <2>3
<1>4. CardFits(card.id, card.row, w, {i})
  <2>1. card = Show(w, key, text, polish, {i})
    OBVIOUS
  <2> HIDE DEF card, text, polish, o
  <2> QED BY <1>3, <2>1, ShowIs
<1>5. replaces \in BOOLEAN /\ decided \in BOOLEAN
  BY DEF IsDecided
<1>6. DOMAIN retired = DOMAIN phrases
      /\ \A n \in DOMAIN phrases : retired[n] = IF n = i THEN gone ELSE phrases[n]
  OBVIOUS
<1>7. made = WithPhrase(retired, new)
  OBVIOUS
<1>8. /\ c = Selection(RowsOf(made, o.word), decided, knows)
      /\ r = [j \in DOMAIN made |->
                CASE j \in c.clear -> [made[j] EXCEPT !.shown = "none"]
                  [] j \in c.set   -> [made[j] EXCEPT !.shown = "selection"]
                  [] OTHER         -> made[j]]
  OBVIOUS
<1>9. AsideWith(gone, o, {"removed", "shown", "job"}, "shown", "none")
  <2> HIDE DEF o
  <2> QED BY <1>2, RetiredRow
<1>10. new.id = card.id /\ new.row = row
  OBVIOUS
<1>11. AsideFrom(row, card.row, {"replaces", "job"})
  <2>1. card.row \in PhraseRow
    BY <1>4 DEF CardFits
  <2> HIDE DEF card, replaces
  <2> QED BY <1>5, <2>1, TargetRow
<1> HIDE DEF r, c, decided, rows, made, new, retired, gone, row, replaces, card, text, polish
<1>12. Continues(gone, o)
  <2>1. gone \in PhraseRow /\ gone.word = o.word /\ gone.origin = o.origin
        /\ gone.key = o.key /\ gone.shown = "none"
    BY <1>9 DEF AsideWith, AsideFrom, Fields
  <2> QED BY <2>1 DEF Continues
<1>13. Grows(retired, phrases) /\ \A n \in DOMAIN retired : retired[n].word \in DOMAIN words
  <2>1. \A n \in DOMAIN phrases : phrases[n] \in PhraseRow /\ phrases[n].word \in DOMAIN words
    BY DEF RowsInv, TypeOK
  <2> QED BY <1>2, <1>6, <1>12, <2>1 DEF Grows, Continues, o
<1>14. CardFits(new.id, new.row, w, {i}) /\ new.row.word = w
  <2>1. /\ row \in PhraseRow /\ row.word = card.row.word /\ row.origin = card.row.origin
        /\ row.key = card.row.key /\ row.shown = card.row.shown
    BY <1>11 DEF AsideFrom, Fields
  <2> QED BY <1>4, <1>10, <2>1 DEF CardFits, HandMade, Continues
<1>15. WithCard(made, retired, new)
  BY <1>7, <1>13, <1>14, MadeGrows
<1>16. RowsHold(made)
  BY <1>15, GrownHold DEF WithCard
<1>17. MarkedAs(r, made)
  BY <1>2, <1>5, <1>8, <1>16, MarksHold
<1>18. card.row.word = w /\ (card.id = next \/ card.id \in DOMAIN phrases)
  BY <1>4 DEF CardFits
<1>19. \A n \in DOMAIN made : made[n].word = w \/ made[n].word \in DOMAIN words
  BY <1>13, <1>14, <1>15 DEF WithCard
<1>20. DOMAIN made = DOMAIN phrases \cup {card.id}
  BY <1>6, <1>10, <1>15 DEF WithCard
<1>21. MadeFits(r, w)
  BY <1>17, <1>18, <1>19, <1>20 DEF MadeFits, MarkedAs
<1>22. next \in DOMAIN r => card.id = next
  <2>1. next \notin DOMAIN phrases
    BY SourceWordsAssumption DEF RowsInv, TypeOK
  <2> QED BY <1>17, <1>20, <2>1 DEF MarkedAs
<1> QED BY <1>1, <1>18, <1>21, <1>22, MakesKeeps

-----------------------------------------------------------------------------
(* The invariant and the theorems.                                         *)

(* What every state reached satisfies.                                     *)
SourceInv == RowsInv /\ OneSelection /\ WrittenAsPlanned /\ EveryPlaceIsHeld /\ WordIsShown

(* Without a rebuild just done, only the rows matter.                      *)
LEMMA NothingRebuilt ==
  ASSUME RowsInv, last = NoLast
  PROVE  SourceInv
<1>1. last.mode = "none"
  BY DEF NoLast
<1>2. OneSelection
  <2>1. ASSUME NEW w \in DOMAIN words, NEW i \in Selected(w), NEW j \in Selected(w)
        PROVE  i = j
    <3>1. w \in Words /\ Selectable(Of(w))
      BY DEF RowsInv, TypeOK
    <3>2. i \in DOMAIN Of(w) /\ j \in DOMAIN Of(w) /\ Of(w)[i] = phrases[i] /\ Of(w)[j] = phrases[j]
      BY DEF Selected, Of, RowsOf
    <3>3. phrases[i].shown = "selection" /\ phrases[j].shown = "selection"
      BY DEF Selected
    <3> QED BY <3>1, <3>2, <3>3 DEF Selectable
  <2> QED BY <1>1, <2>1 DEF OneSelection, Rebuilt
<1> QED BY <1>1, <1>2 DEF SourceInv, WrittenAsPlanned, EveryPlaceIsHeld, WordIsShown, Rebuilt

(* An empty source is sound.                                               *)
LEMMA InitRows ==
  ASSUME Init
  PROVE  RowsInv /\ last = NoLast
<1>1. /\ words = <<>> /\ phrases = <<>> /\ next = 1 /\ knows = FALSE
      /\ count = [acts |-> 0, rebuilds |-> 0] /\ last = NoLast
  BY DEF Init
<1>2. DOMAIN words = {} /\ DOMAIN phrases = {}
  BY <1>1
<1>3. next \in 1 .. MaxPhrases + 1 /\ count \in [acts : 0 .. MaxActs, rebuilds : 0 .. MaxRebuilds]
  BY <1>1, SourceWordsAssumption
<1>4. TypeOK
  BY <1>1, <1>2, <1>3 DEF TypeOK
<1>5. \A w \in Words : DOMAIN Of(w) = {}
  BY <1>2 DEF Of, RowsOf
<1>6. \A w \in Words : Selectable(Of(w))
  BY <1>5 DEF Selectable
<1> QED BY <1>1, <1>4, <1>6 DEF RowsInv

(* What a step other than a rebuild does.                                  *)
LEMMA UserKeeps ==
  ASSUME RowsInv,
         \/ Learn
         \/ \E i \in DOMAIN phrases :
              \/ \E c \in {"learn", "skip"} : Press(i, c)
              \/ \E t \in Texts, k \in Keys : SetBoundary(i, t, k)
              \/ \E t \in Texts : EditPhrase(i, t) \/ FinishPolish(i, t) \/ Replace(i, t)
              \/ RevertPolish(i) \/ Enqueue(i) \/ Claim(i) \/ Drop(i)
              \/ \E k \in {"meaning", "speech"} : Finish(i, k)
              \/ \E w \in Words, k \in Places \cup {Unplaced, phrases[i].key} : ChangeTarget(i, w, k)
         \/ \E w \in Words, k \in Places, t \in Texts : AddManual(w, k, t)
  PROVE  RowsInv' /\ last' = NoLast
<1>1. CASE Learn
  BY <1>1, LearnKeeps
<1>2. ASSUME NEW i \in DOMAIN phrases, NEW c \in {"learn", "skip"}, Press(i, c)
      PROVE  RowsInv' /\ last' = NoLast
  BY <1>2, PressKeeps
<1>3. ASSUME NEW i \in DOMAIN phrases, NEW t \in Texts, NEW k \in Keys, SetBoundary(i, t, k)
      PROVE  RowsInv' /\ last' = NoLast
  BY <1>3, SetBoundaryKeeps
<1>4. ASSUME NEW i \in DOMAIN phrases, NEW t \in Texts, EditPhrase(i, t)
      PROVE  RowsInv' /\ last' = NoLast
  BY <1>4, EditKeeps
<1>5. ASSUME NEW i \in DOMAIN phrases, NEW t \in Texts, FinishPolish(i, t)
      PROVE  RowsInv' /\ last' = NoLast
  BY <1>5, FinishPolishKeeps
<1>6. ASSUME NEW i \in DOMAIN phrases, NEW t \in Texts, Replace(i, t)
      PROVE  RowsInv' /\ last' = NoLast
  BY <1>6, ReplaceKeeps
<1>7. ASSUME NEW i \in DOMAIN phrases, RevertPolish(i)
      PROVE  RowsInv' /\ last' = NoLast
  BY <1>7, RevertKeeps
<1>8. ASSUME NEW i \in DOMAIN phrases, Enqueue(i) \/ Claim(i) \/ Drop(i)
      PROVE  RowsInv' /\ last' = NoLast
  BY <1>8, JobKeeps
<1>9. ASSUME NEW i \in DOMAIN phrases, NEW k \in {"meaning", "speech"}, Finish(i, k)
      PROVE  RowsInv' /\ last' = NoLast
  BY <1>9, FinishKeeps
<1>10. ASSUME NEW i \in DOMAIN phrases, NEW w \in Words,
              NEW k \in Places \cup {Unplaced, phrases[i].key}, ChangeTarget(i, w, k)
       PROVE  RowsInv' /\ last' = NoLast
  BY <1>10, TargetKeeps
<1>11. ASSUME NEW w \in Words, NEW k \in Places, NEW t \in Texts, AddManual(w, k, t)
       PROVE  RowsInv' /\ last' = NoLast
  BY <1>11, AddKeeps
<1> QED BY <1>1, <1>2, <1>3, <1>4, <1>5, <1>6, <1>7, <1>8, <1>9, <1>10, <1>11

(* A rebuild, whatever its analysis and its rules.                         *)
LEMMA RebuildKeeps ==
  ASSUME RowsInv, NEW a \in Analyses, NEW mode, NEW done, Rebuild(a, mode, done)
  PROVE  SourceInv'
<1> DEFINE x == Given(a, mode, done)
           plan == PlanAt(x)
<1>1. x = Given(a, mode, done) /\ plan = PlanAt(x)
  OBVIOUS
<1> HIDE DEF x, plan
<1>2. Rebuilds(x, plan, a, mode)
  BY <1>1, RebuildIs
<1>3. RowsInv'
  BY <1>2, RebuildKeepsRows
<1>4. OneSelection'
  BY <1>2, RebuildOneSelection
<1>5. WrittenAsPlanned'
  BY <1>2, RebuildWrites
<1>6. EveryPlaceIsHeld'
  BY <1>2, RebuildHolds
<1>7. WordIsShown'
  BY <1>2, RebuildShows
<1> QED BY <1>3, <1>4, <1>5, <1>6, <1>7 DEF SourceInv

(* Every step keeps the invariant.                                         *)
LEMMA StepKeeps ==
  ASSUME SourceInv, [Next]_vars
  PROVE  SourceInv'
<1>1. RowsInv
  BY DEF SourceInv
<1>2. CASE \E a \in Analyses, mode \in {"update", "recut"}, done \in SUBSET (Elsewhere \cap DOMAIN words) :
             Rebuild(a, mode, done)
  BY <1>1, <1>2, RebuildKeeps
<1>3. (RowsInv /\ last = NoLast => SourceInv)'
  BY NothingRebuilt, PTL
<1>4. CASE UNCHANGED vars
  <2>1. /\ words' = words /\ phrases' = phrases /\ next' = next /\ knows' = knows
        /\ count' = count /\ last' = last
    BY <1>4 DEF vars
  <2>2. \A w : Of(w)' = Of(w)
    BY <2>1 DEF Of
  <2>3. RowsInv'
    BY <1>1, <2>1, <2>2 DEF RowsInv, TypeOK
  <2>4. Rebuilt' = Rebuilt
    BY <2>1 DEF Rebuilt
  <2>5. OneSelection'
    BY <2>1, <2>2, <2>4 DEF SourceInv, OneSelection, Selected
  <2>6. WrittenAsPlanned'
    BY <2>1, <2>4 DEF SourceInv, WrittenAsPlanned
  <2>7. EveryPlaceIsHeld'
    BY <2>1, <2>2, <2>4 DEF SourceInv, EveryPlaceIsHeld
  <2>8. WordIsShown'
    BY <2>1, <2>2, <2>4 DEF SourceInv, WordIsShown, Replaced
  <2> QED BY <2>3, <2>5, <2>6, <2>7, <2>8 DEF SourceInv
<1> QED BY <1>1, <1>2, <1>3, <1>4, UserKeeps DEF Next

(* The invariant holds in every state: the rows are apart and marked once, *)
(* and what a rebuild just left is what it promises (plan_rebuild,         *)
(* apply_rebuild, select_phrases).                                         *)
THEOREM SourceAlwaysSound == Spec => []SourceInv
<1>1. Init => SourceInv
  BY InitRows, NothingRebuilt
<1> QED BY <1>1, StepKeeps, PTL DEF Spec

(* The tables are always what their unique indexes and the selection       *)
(* promise: one selection card a word, no two phrases of the analysis at   *)
(* one key.                                                                *)
THEOREM RowsAlwaysSound == Spec => []RowsAreSound
<1>1. SourceInv => RowsAreSound
  <2> SUFFICES ASSUME SourceInv PROVE NoTwins
    BY DEF SourceInv, RowsInv, RowsAreSound
  <2> SUFFICES ASSUME NEW i \in DOMAIN phrases, NEW j \in DOMAIN phrases,
                      IsTwin(phrases[i], phrases[j])
               PROVE  i = j
    BY DEF NoTwins
  <2>1. phrases[i].word \in Words /\ phrases[i].word = phrases[j].word
    BY DEF SourceInv, RowsInv, TypeOK, IsTwin
  <2>2. Selectable(Of(phrases[i].word))
    BY <2>1 DEF SourceInv, RowsInv
  <2>3. /\ i \in DOMAIN Of(phrases[i].word) /\ j \in DOMAIN Of(phrases[i].word)
        /\ Of(phrases[i].word)[i] = phrases[i] /\ Of(phrases[i].word)[j] = phrases[j]
    BY <2>1 DEF Of, RowsOf
  <2> QED BY <2>2, <2>3 DEF Selectable, IsTwin
<1> QED BY <1>1, SourceAlwaysSound, PTL

(* What a rebuild stores is what its plan took it to be: no statement of   *)
(* the write undoes another (apply_rebuild).                               *)
THEOREM PlansAlwaysWritten == Spec => []WrittenAsPlanned
<1>1. SourceInv => WrittenAsPlanned
  BY DEF SourceInv
<1> QED BY <1>1, SourceAlwaysSound, PTL

(* After a rebuild every place of the analysis has a phrase, or its line   *)
(* is held by one kept from an older text (plan_rebuild).                  *)
THEOREM PlacesAlwaysHeld == Spec => []EveryPlaceIsHeld
<1>1. SourceInv => EveryPlaceIsHeld
  BY DEF SourceInv
<1> QED BY <1>1, SourceAlwaysSound, PTL

(* After a rebuild a word that is not decided and has a phrase to show has *)
(* a card (select_phrases).                                                *)
THEOREM WordsAlwaysShown == Spec => []WordIsShown
<1>1. SourceInv => WordIsShown
  BY DEF SourceInv
<1> QED BY <1>1, SourceAlwaysSound, PTL

(* What a rebuild keeps.                                                   *)
Kept ==
    last'.mode # "none" => \A i \in DOMAIN phrases :
          IsUntouchable(phrases[i]) \/ IsDecided(Of(phrases[i].word))
            => i \in DOMAIN phrases' /\ Work(phrases'[i]) = Work(phrases[i])

(* A step that is a rebuild keeps the work; no other step says it rebuilt. *)
LEMMA StepKeepsWork ==
  ASSUME SourceInv, [Next]_vars
  PROVE  Kept \/ UNCHANGED vars
<1>1. RowsInv
  BY DEF SourceInv
<1>2. ASSUME NEW a \in Analyses, NEW mode, NEW done, Rebuild(a, mode, done) PROVE Kept
  <2> DEFINE x == Given(a, mode, done)
             plan == PlanAt(x)
  <2>1. x = Given(a, mode, done) /\ plan = PlanAt(x)
    OBVIOUS
  <2> HIDE DEF x, plan
  <2>2. Rebuilds(x, plan, a, mode)
    BY <1>1, <1>2, <2>1, RebuildIs
  <2> QED BY <1>1, <2>2, RebuildKeepsWork DEF Kept
<1>3. last' = NoLast => Kept
  BY DEF Kept, NoLast
<1> QED BY <1>1, <1>2, <1>3, UserKeeps DEF Next

(* No rebuild ever loses what a user made of a phrase, or a phrase of a    *)
(* decided word (plan_rebuild).                                            *)
THEOREM WorkAlwaysKept == Spec => WorkIsKept
<1>1. SourceInv /\ [Next]_vars => [Kept]_vars
  BY StepKeepsWork
<1>2. Spec => [][Kept]_vars
  BY <1>1, SourceAlwaysSound, PTL DEF Spec
<1> QED BY <1>2 DEF WorkIsKept, Kept

=============================================================================
