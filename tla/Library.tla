------------------------------ MODULE Library ------------------------------
(* The collections of the sources screen and where the sources lie.         *)
(*                                                                          *)
(* Collections make a tree in manual order. One is deleted softly with      *)
(* everything below it, its sources go to its parent and where they lay is  *)
(* kept for Undo. A collection moves among its siblings or to another       *)
(* parent; the answer tells where it was, and the same call undoes it.      *)
(* Every operation is one write of the database.                            *)
(*                                                                          *)
(* The moment of a delete is named by the collection deleted: nothing else  *)
(* is deleted at that moment. A name stands for all its spellings that      *)
(* differ by case or outer blanks.                                          *)
EXTENDS Integers, SequencesExt, FiniteSetsExt

CONSTANTS
    Names,
    MaxDepth,         \* levels of the tree
    MaxCollections,   \* bound: collections ever made
    MaxSources,       \* bound: sources at a time
    MaxRows,          \* bound: collections, sources and favorites together
    MaxPosition,      \* bound: the positions asked for
    Permanent         \* the built-in sources

ASSUME LibraryAssumption ==
    /\ MaxDepth \in Nat \ {0}
    /\ MaxCollections \in Nat
    /\ MaxSources \in Nat
    /\ MaxRows \in Nat
    /\ MaxPosition \in Nat
    /\ Permanent \subseteq 1 .. MaxSources
    /\ 0 \notin Names

VARIABLES
    cols,        \* the collections ever made, by id
    shelf,       \* the collection of every source, Top when unsorted
    evictions,   \* where deletes moved sources
    favorites,   \* the favorites in the order they were added
    strays       \* history: sources added to a collection already deleted

vars == <<cols, shelf, evictions, favorites, strays>>

(* No collection: the parent of the top level, the place of the unsorted.   *)
Top == 0

-----------------------------------------------------------------------------
(* The tree of the live collections.                                        *)

Live(cs) == {c \in DOMAIN cs : cs[c].dead = 0}

Before(cs, a, b) ==
    \/ cs[a].position < cs[b].position
    \/ cs[a].position = cs[b].position /\ a < b

ChildrenOf(cs, p) == {c \in Live(cs) : cs[c].parent = p}

InOrder(cs, S) ==
    [i \in 1 .. Cardinality(S) |->
        CHOOSE c \in S : Cardinality({d \in S : Before(cs, d, c)}) = i - 1]

Children(cs, p) == InOrder(cs, ChildrenOf(cs, p))

(* The children of p, c itself aside.                                       *)
Others(cs, p, c) == InOrder(cs, ChildrenOf(cs, p) \ {c})

(* What of S hangs on c: the least part of S that holds c and, with a       *)
(* collection, its children.                                                *)
Closed(cs, S, c) ==
    {T \in SUBSET S : c \in T /\ \A x \in S \ T : cs[x].parent \notin T}
Below(cs, S, c) ==
    LET closed == Closed(cs, S, c)
    IN  {d \in S : \A T \in closed : d \in T}

Subtree(cs, c) == Below(cs, Live(cs), c)

(* The live collections that c hangs below.                                 *)
Ancestors(cs, c) == {d \in Live(cs) \ {c} : c \in Subtree(cs, d)}

Depth(cs, c) == Cardinality(Ancestors(cs, c)) + 1

Height(cs, c) ==
    LET own == Subtree(cs, c)
    IN  1 + Max({Cardinality(Ancestors(cs, d) \cap own) : d \in own})

CanHoldChildren(cs, c) == Depth(cs, c) < MaxDepth

NextPosition(cs, p) ==
    LET siblings == Children(cs, p)
    IN  IF siblings = <<>> THEN 0 ELSE cs[Last(siblings)].position + 1

(* Mutant: the number kept in the row, which deletes leave with gaps.       *)
NumberOf(cs, c) == cs[c].position

IndexOf(cs, c) == CHOOSE i \in 0 .. Cardinality(Live(cs)) :
                     i + 1 \in DOMAIN Children(cs, cs[c].parent)
                     /\ Children(cs, cs[c].parent)[i + 1] = c

(* The name is free among the children of p, c itself aside.                *)
NameIsFree(cs, name, p, c) ==
    \A d \in ChildrenOf(cs, p) : cs[d].name = name => d = c

ParentIsFit(cs, p) == p = Top \/ (p \in Live(cs) /\ CanHoldChildren(cs, p))

Fits(cs, c) == Depth(cs, c) + Height(cs, c) - 1 <= MaxDepth

PlaceIsFit(cs, c, p) ==
    p = Top \/ ( /\ p \in Live(cs) \ Subtree(cs, c)
                 /\ Depth(cs, p) + Height(cs, c) <= MaxDepth )

MayMove(cs, c, p) ==
    /\ PlaceIsFit(cs, c, p)
    /\ cs[c].parent # p => NameIsFree(cs, cs[c].name, p, c)

(* The parents offered in the menu of a collection.                         *)
MoveTargets(cs, c) ==
    LET own == Subtree(cs, c)
        room == MaxDepth - Height(cs, c)
    IN  {Top} \cup {p \in Live(cs) : p \notin own /\ Depth(cs, p) <= room}

(* The collections of `order` numbered from 0.                              *)
Renumbered(cs, order) ==
    [i \in DOMAIN cs |->
        IF i \in Range(order)
        THEN [cs[i] EXCEPT !.position = (CHOOSE k \in DOMAIN order : order[k] = i) - 1]
        ELSE cs[i]]

(* c among the children of p, at index i of the others; the siblings it     *)
(* leaves and the ones it comes to are numbered anew.                       *)
Placed(cs, c, p, i) ==
    LET others == Others(cs, p, c)
        index == Min({i, Len(others)})
        here == Renumbered([cs EXCEPT ![c].parent = p], InsertAt(others, index + 1, c))
    IN  IF cs[c].parent = p
        THEN here
        ELSE Renumbered(here, Others(cs, cs[c].parent, c))

-----------------------------------------------------------------------------
(* A delete and its undo, on collections, places and evictions together.    *)

Library == [cols |-> cols, shelf |-> shelf, evictions |-> evictions]

Marked(cs, gone, stamp) ==
    [i \in DOMAIN cs |-> IF i \in gone THEN [cs[i] EXCEPT !.dead = stamp] ELSE cs[i]]

(* The sources named by places lie there now, the others where they lay.    *)
Laid(places, sh) ==
    [s \in DOMAIN places \cup DOMAIN sh |->
        IF s \in DOMAIN places THEN places[s] ELSE sh[s]]

(* Mutant: the sources of subcollections stay where they are.               *)
DeletedFlat(lib, c) ==
    LET evicted == {s \in DOMAIN lib.shelf : lib.shelf[s] = c}
    IN  [cols |-> Marked(lib.cols, Subtree(lib.cols, c), c),
         shelf |-> Laid([s \in evicted |-> lib.cols[c].parent], lib.shelf),
         evictions |-> lib.evictions \cup
             {[of |-> c, source |-> s, previous |-> c, moved |-> lib.cols[c].parent] :
                  s \in evicted}]

Deleted(lib, c) ==
    LET gone == Subtree(lib.cols, c)
        target == lib.cols[c].parent
        evicted == {s \in DOMAIN lib.shelf : lib.shelf[s] \in gone}
    IN  [cols |-> Marked(lib.cols, gone, c),
         shelf |-> Laid([s \in evicted |-> target], lib.shelf),
         evictions |-> lib.evictions \cup
             {[of |-> c, source |-> s, previous |-> lib.shelf[s], moved |-> target] :
                  s \in evicted}]

(* c and what was deleted at the same moment below it.                      *)
DeletedWith(cs, c) == Below(cs, {d \in DOMAIN cs : cs[d].dead = cs[c].dead}, c)

(* Mutant: the depth of what comes back with it is forgotten.               *)
CanRestoreShallow(cs, c) ==
    /\ ParentIsFit(cs, cs[c].parent)
    /\ NameIsFree(cs, cs[c].name, cs[c].parent, 0)

CanRestore(cs, c) ==
    /\ ParentIsFit(cs, cs[c].parent)
    /\ NameIsFree(cs, cs[c].name, cs[c].parent, 0)
    /\ Fits(Marked(cs, DeletedWith(cs, c), 0), c)

(* A source goes back if it still lies where the delete put it.             *)
Restored(lib, c) ==
    LET taken == {e \in lib.evictions : e.of = c}
        back == {e \in taken : e.source \in DOMAIN lib.shelf
                               /\ lib.shelf[e.source] = e.moved}
    IN  [cols |-> Marked(lib.cols, DeletedWith(lib.cols, c), 0),
         shelf |-> Laid([s \in {e.source : e \in back} |->
                            (CHOOSE e \in back : e.source = s).previous], lib.shelf),
         evictions |-> lib.evictions \ taken]

-----------------------------------------------------------------------------
(* The sources of a scope: all, the unsorted, or a collection with its      *)
(* subcollections.                                                          *)
Unsorted == {s \in DOMAIN shelf : shelf[s] = Top}
Members(c) == {s \in DOMAIN shelf : shelf[s] \in Subtree(cols, c)}

NextSource == IF DOMAIN shelf = {} THEN 1 ELSE Max(DOMAIN shelf) + 1

(* The rows still within the bounds.                                        *)
RoomFor(collections, sources) ==
    /\ Len(cols) + collections <= MaxCollections
    /\ NextSource + sources - 1 <= MaxSources
    /\ Len(cols) + collections + Cardinality(DOMAIN shelf) + sources + Len(favorites)
           <= MaxRows

TypeOK ==
    /\ cols \in Seq([name : Names, parent : Nat, position : Nat, dead : Nat])
    /\ Len(cols) <= MaxCollections
    /\ DOMAIN shelf \subseteq 1 .. MaxSources
    /\ shelf \in [DOMAIN shelf -> 0 .. Len(cols)]
    /\ evictions \subseteq [of : DOMAIN cols, source : DOMAIN shelf,
                            previous : DOMAIN cols, moved : 0 .. Len(cols)]
    /\ favorites \in Seq(DOMAIN cols)
    /\ strays \subseteq DOMAIN shelf

Init ==
    /\ cols = <<>>
    /\ shelf = [s \in Permanent |-> Top]
    /\ evictions = {}
    /\ favorites = <<>>
    /\ strays = {}

(* A source is a stray until it lies in a live collection or in none.       *)
StraysAmong(candidates) ==
    strays' = {s \in candidates \cap DOMAIN shelf' :
                   shelf'[s] # Top /\ shelf'[s] \notin Live(cols')}

Record(name, p, position) == [name |-> name, parent |-> p, position |-> position, dead |-> 0]

Create(name, p) ==
    /\ RoomFor(1, 0)
    /\ ParentIsFit(cols, p)
    /\ NameIsFree(cols, name, p, 0)
    /\ cols' = Append(cols, Record(name, p, NextPosition(cols, p)))
    /\ UNCHANGED <<shelf, evictions, favorites, strays>>

Rename(c, name) ==
    /\ c \in Live(cols)
    /\ NameIsFree(cols, name, cols[c].parent, c)
    /\ cols' = [cols EXCEPT ![c].name = name]
    /\ UNCHANGED <<shelf, evictions, favorites, strays>>

Move(c, p, i) ==
    /\ c \in Live(cols)
    /\ MayMove(cols, c, p)
    /\ cols' = Placed(cols, c, p, i)
    /\ UNCHANGED <<shelf, evictions, favorites, strays>>

AddToFavorites(c) ==
    /\ c \in Live(cols)
    /\ ~ \E k \in DOMAIN favorites : favorites[k] = c
    /\ Len(cols) + Cardinality(DOMAIN shelf) + Len(favorites) < MaxRows
    /\ favorites' = Append(favorites, c)
    /\ UNCHANGED <<cols, shelf, evictions, strays>>

RemoveFromFavorites(c) ==
    /\ c \in Live(cols)
    /\ \E k \in DOMAIN favorites :
           favorites[k] = c /\ favorites' = RemoveAt(favorites, k)
    /\ UNCHANGED <<cols, shelf, evictions, strays>>

Delete(c) ==
    /\ c \in Live(cols)
    /\ LET after == Deleted(Library, c)
       IN  /\ cols' = after.cols
           /\ shelf' = after.shelf
           /\ evictions' = after.evictions
    /\ StraysAmong(strays)
    /\ UNCHANGED favorites

Restore(c) ==
    /\ c \in DOMAIN cols \ Live(cols)
    /\ CanRestore(cols, c)
    /\ LET after == Restored(Library, c)
       IN  /\ cols' = after.cols
           /\ shelf' = after.shelf
           /\ evictions' = after.evictions
    /\ StraysAmong(strays)
    /\ UNCHANGED favorites

(* The answer holds the previous places: the same call with it is Undo.     *)
PlaceSources(places) ==
    /\ DOMAIN places \subseteq DOMAIN shelf
    /\ \A s \in DOMAIN places : places[s] # Top => places[s] \in Live(cols)
    /\ shelf' = Laid(places, shelf)
    /\ UNCHANGED <<cols, evictions, favorites>>
    /\ StraysAmong(strays)

AddOne ==
    /\ RoomFor(0, 1)
    /\ shelf' = Laid([s \in {NextSource} |-> Top], shelf)
    /\ UNCHANGED <<cols, evictions, favorites, strays>>

(* n sources at once, all in collection c.                                  *)
GroupAdded(n, c) ==
    shelf' = Laid([s \in NextSource .. NextSource + n - 1 |-> c], shelf)

(* The dialog names a collection it was shown, or none; nobody asks whether *)
(* the collection is still there.                                           *)
AddGroup(n, c) ==
    /\ RoomFor(0, n)
    /\ GroupAdded(n, c)
    /\ UNCHANGED <<cols, evictions, favorites>>
    /\ StraysAmong(strays \cup DOMAIN shelf')

(* A name typed into the dialog: the top-level collection of this name, or  *)
(* a new one.                                                               *)
AddGroupNamed(n, name) ==
    LET found == {c \in ChildrenOf(cols, Top) : cols[c].name = name}
    IN  /\ found # {} =>
               /\ RoomFor(0, n)
               /\ GroupAdded(n, CHOOSE c \in found : TRUE)
               /\ UNCHANGED cols
        /\ found = {} =>
               /\ RoomFor(1, n)
               /\ cols' = Append(cols, Record(name, Top, NextPosition(cols, Top)))
               /\ GroupAdded(n, Len(cols) + 1)
        /\ UNCHANGED <<evictions, favorites, strays>>

(* The evictions of a source go with its row.                               *)
DeleteSource(s) ==
    /\ s \in DOMAIN shelf \ Permanent
    /\ shelf' = [d \in DOMAIN shelf \ {s} |-> shelf[d]]
    /\ evictions' = {e \in evictions : e.source # s}
    /\ strays' = strays \ {s}
    /\ UNCHANGED <<cols, favorites>>

Places == 0 .. Len(cols)

Next ==
    \/ \E name \in Names, p \in Places : Create(name, p)
    \/ \E c \in DOMAIN cols, name \in Names : Rename(c, name)
    \/ \E c \in DOMAIN cols, p \in Places, i \in 0 .. MaxPosition : Move(c, p, i)
    \/ \E c \in DOMAIN cols : AddToFavorites(c)
    \/ \E c \in DOMAIN cols : RemoveFromFavorites(c)
    \/ \E c \in DOMAIN cols : Delete(c)
    \/ \E c \in DOMAIN cols : Restore(c)
    \/ \E S \in SUBSET DOMAIN shelf \ {{}} :
           \E places \in [S -> Places] : PlaceSources(places)
    \/ AddOne
    \/ \E n \in 2 .. MaxSources, c \in Places : AddGroup(n, c)
    \/ \E n \in 2 .. MaxSources, name \in Names : AddGroupNamed(n, name)
    \/ \E s \in DOMAIN shelf : DeleteSource(s)

Spec == Init /\ [][Next]_vars

-----------------------------------------------------------------------------
(* The live collections form trees: every parent is live, nothing is below  *)
(* itself, no collection is deeper than the limit and siblings have         *)
(* different names, whatever was deleted, moved and restored in between.    *)
ParentsAreLive == \A c \in Live(cols) : cols[c].parent \in Live(cols) \cup {Top}
NothingIsBelowItself == \A c \in Live(cols) : cols[c].parent \notin Subtree(cols, c)
DepthIsKept == \A c \in Live(cols) : Depth(cols, c) <= MaxDepth
NamesAreUnique ==
    \A c, d \in Live(cols) :
        cols[c].parent = cols[d].parent /\ cols[c].name = cols[d].name => c = d

TreeIsSound ==
    /\ TypeOK
    /\ ParentsAreLive
    /\ NothingIsBelowItself
    /\ DepthIsKept
    /\ NamesAreUnique

(* Every source is listed once: under Unsorted or under one collection of   *)
(* the top level. Only a source added to a collection that was deleted      *)
(* while the dialog stood open is in neither.                               *)
ListedUnder(s) == {r \in ChildrenOf(cols, Top) : s \in Members(r)}
                     \cup {r \in {Top} : s \in Unsorted}
SourcesAreListed == \A s \in DOMAIN shelf \ strays : Cardinality(ListedUnder(s)) = 1

(* What Undo would do now: a delete and its restore change nothing at all,  *)
(* a move and the move back to the answered place leave every list of       *)
(* children as it was.                                                      *)
DeleteIsUndone ==
    \A c \in Live(cols) :
        LET after == Deleted(Library, c)
        IN  CanRestore(after.cols, c) /\ Restored(after, c) = Library

MoveIsUndone ==
    \A c \in Live(cols) :
        LET home == cols[c].parent
            index == IndexOf(cols, c)
        IN  \A p \in MoveTargets(cols, c), i \in 0 .. MaxPosition :
                NameIsFree(cols, cols[c].name, p, c) =>
                    LET after == Placed(cols, c, p, i)
                        back == Placed(after, c, home, index)
                    IN  /\ MayMove(after, c, home)
                        /\ \A q \in {p, home} : Children(back, q) = Children(cols, q)

(* The menu offers a parent if and only if the move to it is taken, the     *)
(* names of its children aside: two rules written apart.                    *)
MovesAreOffered ==
    \A c \in Live(cols) :
        MoveTargets(cols, c) = {p \in Places : PlaceIsFit(cols, c, p)}

(* What the screen offers is taken, and what its Undo does is exact.        *)
OffersAndUndoHold == MovesAreOffered /\ DeleteIsUndone /\ MoveIsUndone

=============================================================================
