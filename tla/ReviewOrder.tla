---------------------------- MODULE ReviewOrder ----------------------------
(***************************************************************************)
(* The order of an open review and the list it shows. An order is a        *)
(* sequence of held cards [id, section, key]; a key is the tuple a card is *)
(* sorted by. Ids start at 1 and 0 is no card.                             *)
(***************************************************************************)
EXTENDS Sequences, FiniteSetsExt, Lines

CONSTANT Sectioned   \* whether the list is cut into sections; text order is not

ASSUME SectionedAssumption == Sectioned \in BOOLEAN

SectionOrder == <<"ready", "extra", "probably_known", "reviewed">>
Sections == {SectionOrder[i] : i \in DOMAIN SectionOrder}
PartOf(s) == CHOOSE i \in DOMAIN SectionOrder : SectionOrder[i] = s
FoldedByDefault == Sections \ {"ready"}

-----------------------------------------------------------------------------
Below(k, l) ==
    \E i \in DOMAIN k : k[i] < l[i] /\ \A j \in 1..(i - 1) : k[j] = l[j]

KeyBelow(c, d) == Below(c.key, d.key)

(* Cards by partition, then by word, placed by its best card there, then   *)
(* by card: c -> <<partition, best, word, own, c>>.                        *)
GroupedKeys(cards, part, word, own) ==
    LET Family(c) == {d \in cards : word[d] = word[c] /\ part[d] = part[c]}
        Best(c) == CHOOSE b \in {own[d] : d \in Family(c)} : \A d \in Family(c) : b <= own[d]
    IN  [c \in cards |-> <<part[c], Best(c), word[c], own[c], c>>]

Ids(order) == {order[i].id : i \in DOMAIN order}
IndexOf(order, id) == CHOOSE i \in DOMAIN order : order[i].id = id
CardOf(order, id) == order[IndexOf(order, id)]
InSection(order, s) == Picked(order, {i \in DOMAIN order : order[i].section = s})

(* What a search has left: from the first bound to the second.             *)
Bounds(order) == (0..Len(order)) \X (0..Len(order))

(* Mutant: the search stops short of the end.                              *)
PlaceBeforeLast(order, key) ==
    LET search[at \in Bounds(order)] ==
            LET middle == (at[1] + at[2]) \div 2 IN
            IF at[1] >= at[2] THEN at[1]
            ELSE IF Below(order[middle + 1].key, key) THEN search[<<middle + 1, at[2]>>]
            ELSE search[<<at[1], middle>>]
    IN  search[<<0, IF order = <<>> THEN 0 ELSE Len(order) - 1>>]

(* The binary search for the last held card below the key.                 *)
PlaceOf(order, key) ==
    LET search[at \in Bounds(order)] ==
            LET middle == (at[1] + at[2]) \div 2 IN
            IF at[1] >= at[2] THEN at[1]
            ELSE IF Below(order[middle + 1].key, key) THEN search[<<middle + 1, at[2]>>]
            ELSE search[<<at[1], middle>>]
    IN  search[<<0, Len(order)>>]

InKeyOrder(cards) == LineUp([c \in cards |-> {d \in cards : KeyBelow(d, c)}])

(* The held cards as they stand and the new ones each after its place,     *)
(* those of one place by their keys.                                       *)
PlaceByKey(order, new) ==
    LET cards == {order[i] : i \in DOMAIN order} \cup new
        At(c) == IF c \in new THEN PlaceOf(order, c.key) ELSE IndexOf(order, c.id)
        Ahead(d, c) == \/ At(d) < At(c)
                       \/ At(d) = At(c) /\ c \in new /\ (d \notin new \/ KeyBelow(d, c))
    IN  LineUp([c \in cards |-> {d \in cards : Ahead(d, c)}])

(* The new card under the key it takes over.                               *)
ReplaceCard(order, old, new) ==
    [i \in DOMAIN order |-> IF order[i].id = old THEN [new EXCEPT !.key = order[i].key]
                            ELSE order[i]]
RemoveCards(order, ids) == Picked(order, {i \in DOMAIN order : order[i].id \notin ids})

-----------------------------------------------------------------------------
Unfolded(order, opened, current) ==
    IF ~Sectioned THEN {}
    ELSE {s \in FoldedByDefault :
            /\ \E c \in Ids(order) : CardOf(order, c).section = s
            /\ s \in opened \/ (current \in Ids(order) /\ CardOf(order, current).section = s)}

CardRow(id, position) == [id |-> id, position |-> position]
SectionRow(s, count, open) == [section |-> s, count |-> count, open |-> open]
IsCard(row) == "id" \in DOMAIN row

(* The rows of a list, each card row with its place among the cards.       *)
Numbered(rows) ==
    [i \in DOMAIN rows |->
        IF IsCard(rows[i])
        THEN CardRow(rows[i].id, Cardinality({j \in 1..i : IsCard(rows[j])}))
        ELSE rows[i]]

(* The Ready cards, then the row of each folding section that holds a      *)
(* card, with its cards under it when it is among the shown ones.          *)
LayoutOf(order, shown) ==
    LET Rows(cards) == [i \in DOMAIN cards |-> CardRow(cards[i].id, 0)]
        Block(s) == LET held == InSection(order, s) IN
            IF held = <<>> THEN <<>>
            ELSE <<SectionRow(s, Len(held), s \in shown)>>
                 \o (IF s \in shown THEN Rows(held) ELSE <<>>)
    IN  Numbered(IF ~Sectioned THEN Rows(order)
                 ELSE Rows(InSection(order, "ready"))
                      \o Block("extra") \o Block("probably_known") \o Block("reviewed"))

Layout(order, opened, current) == LayoutOf(order, Unfolded(order, opened, current))

ShownCards(rows) == {rows[i].id : i \in {j \in DOMAIN rows : IsCard(rows[j])}}
RowOf(rows, id) == CHOOSE i \in DOMAIN rows : IsCard(rows[i]) /\ rows[i].id = id

-----------------------------------------------------------------------------
FirstOf(cards, places) == IF places = {} THEN 0 ELSE cards[Min(places)].id

InitialFocus(order, done, requested) ==
    LET pending == {i \in DOMAIN order : order[i].id \notin done}
    IN  IF requested \in Ids(order) THEN requested
        ELSE FirstOf(order, IF pending # {} THEN pending ELSE DOMAIN order)

(* The first card after it in its section that is not done, from the top   *)
(* when none is left after it; nowhere unless the press made it done.      *)
FocusAfterPress(order, pressed, wasDone, done) ==
    IF wasDone \/ pressed \notin Ids(order) \/ pressed \notin done THEN 0
    ELSE LET run == IF Sectioned THEN InSection(order, CardOf(order, pressed).section) ELSE order
             pending == {i \in DOMAIN run : run[i].id # pressed /\ run[i].id \notin done}
             after == {i \in pending : i > IndexOf(run, pressed)}
         IN  FirstOf(run, IF after # {} THEN after ELSE pending)

(* The row next to a card's, of these: the first one under it, else the    *)
(* nearest one above it.                                                   *)
NextTo(rows, id, places) ==
    LET under == {i \in places : i > RowOf(rows, id)}
        above == {i \in places : i < RowOf(rows, id)}
    IN  IF under # {} THEN rows[Min(under)].id
        ELSE IF above # {} THEN rows[Max(above)].id ELSE 0

(* Mutant: the next card row, gone or not.                                 *)
FocusOnNext(before, current, removed) ==
    IF current \notin ShownCards(before) THEN 0
    ELSE NextTo(before, current, {i \in DOMAIN before : IsCard(before[i])})

(* The next card row under it in the list as it stood that is not gone     *)
(* too; else the nearest one above it.                                     *)
FocusAfterRemoval(before, current, removed) ==
    IF current \notin ShownCards(before) THEN 0
    ELSE NextTo(before, current, {i \in DOMAIN before : /\ IsCard(before[i])
                                                        /\ before[i].id \notin removed})

=============================================================================
