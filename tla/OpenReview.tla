----------------------------- MODULE OpenReview -----------------------------
(***************************************************************************)
(* An open review on the server: what a request does to it and what the    *)
(* answer holds. `stored` is the projection, card -> [live, section, rev]; *)
(* a card's text and facts stand for the revision it was written at.       *)
(***************************************************************************)
EXTENDS ReviewOrder

CONSTANTS
    Cards,        \* the cards of the set's sources, live or not
    WordOf, SourceOf, OwnKey,   \* card -> its word, its source, its own sort key
    Around,       \* REVIEW_WINDOW_AROUND
    RowsAtMost,   \* REVIEW_ROWS_MAX
    PlacedAtMost  \* PLACED_ONE_BY_ONE_AT_MOST

ASSUME CardsAssumption == Cards \subseteq Nat \ {0} /\ IsFiniteSet(Cards)
ASSUME CardKeysAssumption == \A c \in Cards : {WordOf[c], OwnKey[c]} \subseteq Nat
ASSUME SizesAssumption == {Around, RowsAtMost, PlacedAtMost} \subseteq Nat

(* A card has a revision once there is one.                                *)
Made(stored, c) == stored[c].rev > 0

Revision(stored) == Max({0} \cup {stored[c].rev : c \in Cards})
LiveIn(stored, sources) == {c \in Cards : stored[c].live /\ SourceOf[c] \in sources}
DoneIn(stored) == {c \in Cards : ~stored[c].live \/ stored[c].section = "reviewed"}

-----------------------------------------------------------------------------
(* An open review: [sources, order, opened, current, served, version,      *)
(* shown]; `shown` is <<>> until a list was built from the order.          *)

HeldCards(cards, stored) ==
    LET keys == GroupedKeys(cards, [c \in cards |-> PartOf(stored[c].section)], WordOf, OwnKey)
    IN  {[id |-> c, section |-> stored[c].section, key |-> keys[c]] : c \in cards}

OpenedOrder(stored, sources) ==
    InKeyOrder(HeldCards(LiveIn(stored, sources), stored))

Opened(stored, sources, sections, requested) ==
    LET order == OpenedOrder(stored, sources) IN
    [sources |-> sources, order |-> order, opened |-> sections, served |-> {},
     current |-> InitialFocus(order, DoneIn(stored), requested),
     version |-> 0, shown |-> <<>>]

Reordered(r, order) == [r EXCEPT !.order = order, !.version = @ + 1, !.shown = <<>>]

(* The list built anew when other sections show; only then the version     *)
(* moves on.                                                               *)
Laid(r) ==
    LET shown == <<Unfolded(r.order, r.opened, r.current)>> IN
    IF r.shown = shown THEN r
    ELSE [r EXCEPT !.shown = shown, !.version = IF r.shown = <<>> THEN @ ELSE @ + 1]

RowsOf(r) == Layout(r.order, r.opened, r.current)
At(r, current) == Laid([r EXCEPT !.current = current])

-----------------------------------------------------------------------------
RowsFrom(rows, start, count) == (start .. (start + count - 1)) \cap DOMAIN rows

WindowAround(rows, id) ==
    LET center == IF id \in ShownCards(rows) THEN RowOf(rows, id) ELSE 1
        first == IF center > Around THEN center - Around ELSE 1
    IN  RowsFrom(rows, first, center + Around + 1 - first)

NoWindow == {0}

(* Mutant: only what this answer sends counts as served.                   *)
AnswerAnew(r, rows, stored, window, replace, focus, changed, removed) ==
    LET sending == IF replace THEN WindowAround(rows, r.current) ELSE window \ NoWindow
        sent == {rows[i].id : i \in {j \in sending : IsCard(rows[j])}}
                \cup (changed \cap (IF replace THEN {} ELSE r.served))
        layout == [version |-> r.version, total |-> Len(rows), replace |-> replace,
                   rows |-> [i \in sending |-> rows[i]]]
    IN  [review |-> [r EXCEPT !.served = sent],
         answer |-> [revision |-> Revision(stored), focus |-> focus, removed |-> removed,
                     layout |-> IF ~replace /\ window = NoWindow THEN <<>> ELSE <<layout>>,
                     cards |-> [c \in {d \in sent : stored[d].live} |-> stored[c].rev]]]

(* What the review r answers: the rows of the window with their cards, and *)
(* the changed cards it served before. A replaced list drops what was      *)
(* served. Gives the answer and the review after it.                       *)
Answer(r, rows, stored, window, replace, focus, changed, removed) ==
    LET sending == IF replace THEN WindowAround(rows, r.current) ELSE window \ NoWindow
        served == IF replace THEN {} ELSE r.served
        sent == {rows[i].id : i \in {j \in sending : IsCard(rows[j])}} \cup (changed \cap served)
        layout == [version |-> r.version, total |-> Len(rows), replace |-> replace,
                   rows |-> [i \in sending |-> rows[i]]]
    IN  [review |-> [r EXCEPT !.served = served \cup sent],
         answer |-> [revision |-> Revision(stored), focus |-> focus, removed |-> removed,
                     layout |-> IF ~replace /\ window = NoWindow THEN <<>> ELSE <<layout>>,
                     cards |-> [c \in {d \in sent : stored[d].live} |-> stored[c].rev]]]

Answered(r, stored, window, replace, focus, changed, removed) ==
    Answer(r, RowsOf(r), stored, window, replace, focus, changed, removed)

-----------------------------------------------------------------------------
(* Reads of a window.                                                      *)

ReadRows(r, stored, ctx, start, count) ==
    LET now == At(r, ctx.current)
    IN  Answered(now, stored, RowsFrom(RowsOf(now), start, Min({count, RowsAtMost})),
                 now.version # r.version, 0, {}, {})

ReadAround(r, stored, id) ==
    LET now == At(r, id)
    IN  Answered(now, stored, WindowAround(RowsOf(now), id), now.version # r.version, id, {}, {})

SetSection(r, stored, ctx, section, open) ==
    LET opened == IF open THEN r.opened \cup {section} ELSE r.opened \ {section}
        now == At([r EXCEPT !.opened = opened], ctx.current)
    IN  Answered(now, stored, {}, now.version # r.version, 0, {}, {})

-----------------------------------------------------------------------------
(* What changed since the client's revision, placed into the held order.   *)

(* The cards of these words where an order opened now puts them; a kept    *)
(* card stays where it is.                                                 *)
Placed(order, stored, sources, words, kept) ==
    IF Cardinality(words) > PlacedAtMost THEN OpenedOrder(stored, sources)
    ELSE LET rows == {c \in LiveIn(stored, sources) : WordOf[c] \in words}
             moved == {h \in HeldCards(rows, stored) :
                         ~ \E c \in Ids(order) :
                             c = h.id /\ (c \in kept \/ CardOf(order, c) = h)}
         IN  IF moved = {} THEN order
             ELSE PlaceByKey(RemoveCards(order, {h.id : h \in moved}), moved)

(* Mutant: a source that left leaves its cards.                            *)
ChangedHere(r, stored, sources, since) ==
    LET changed == {c \in Cards : SourceOf[c] \in sources /\ stored[c].rev > since}
        joined == {c \in Cards : SourceOf[c] \in sources \ r.sources}
    IN  [removed |-> {c \in changed : ~stored[c].live},
         live |-> {c \in changed \cup joined : stored[c].live}]

(* The cards gone from the set and the ones that changed or joined; a      *)
(* source that left takes its cards out, one that joined brings them all.  *)
ChangedSince(r, stored, sources, since) ==
    LET changed == {c \in Cards : SourceOf[c] \in sources /\ stored[c].rev > since}
        left == {c \in Cards : SourceOf[c] \in r.sources \ sources}
        joined == {c \in Cards : SourceOf[c] \in sources \ r.sources}
    IN  [removed |-> {c \in changed : ~stored[c].live} \cup left,
         live |-> {c \in changed \cup joined : stored[c].live}]

(* A replacing card takes the place of the one it replaces.                *)
Succeeded(order, stored, live, old, new) ==
    IF new \in live \ Ids(order) /\ old \in Ids(order)
    THEN ReplaceCard(order, old, [id |-> new, section |-> stored[new].section, key |-> <<>>])
    ELSE order

Many(live) == Cardinality({WordOf[c] : c \in live}) > PlacedAtMost

Merged(r, stored, sources, ch, old, new) ==
    Placed(RemoveCards(Succeeded(r.order, stored, ch.live, old, new), ch.removed),
           stored, sources, {WordOf[c] : c \in ch.live}, {new} \ {0})

(* Where the focus goes: where the user saw it go, and a removed current   *)
(* card hands it to its neighbour.                                         *)
NextFocus(before, ctx, asked, gone) ==
    IF asked = 0 /\ ctx.current \in gone
    THEN FocusAfterRemoval(RowsOf(before), ctx.current, gone) ELSE asked

(* The answer after the list `now`; the focus brings its rows if the       *)
(* client never had its card.                                              *)
Told(r, now, stored, next, ch) ==
    LET replace == now.version # r.version
        window == IF ~replace /\ next # 0 /\ next \notin now.served
                  THEN WindowAround(RowsOf(now), next) ELSE NoWindow
    IN  Answered(now, stored, window, replace, next, ch.live, ch.removed)

Relaid(r, before, order, next, stored, ctx, ch) ==
    LET placed == IF order # r.order \/ Many(ch.live) THEN Reordered(before, order) ELSE before
    IN  Told(r, At(placed, IF next # 0 THEN next ELSE ctx.current), stored, next, ch)

Updated(r, before, stored, sources, ctx, asked, ch, old, new) ==
    Relaid(r, before, Merged(r, stored, sources, ch, old, new),
            NextFocus(before, ctx, asked, ch.removed \cap Ids(r.order)), stored, ctx, ch)

(* `asked`: where the focus goes by the list the user saw, 0 for nowhere.  *)
Build(r, stored, sources, ctx, asked, old, new) ==
    Updated(r, At([r EXCEPT !.sources = sources], ctx.current), stored, sources, ctx, asked,
            ChangedSince(r, stored, sources, ctx.since), old, new)

Changes(r, stored, sources, ctx) == Build(r, stored, sources, ctx, 0, 0, 0)

(* `after`: the projection as the press left it.                           *)
Pressed(r, stored, after, sources, ctx, id) ==
    LET wasDone == stored[id].live /\ stored[id].section = "reviewed"
    IN  Build(r, after, sources, ctx, FocusAfterPress(r.order, id, wasDone, DoneIn(after)), 0, 0)

Replaced(r, after, sources, ctx, old, new) == Build(r, after, sources, ctx, new, old, new)

=============================================================================
