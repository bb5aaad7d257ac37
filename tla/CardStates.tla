----------------------------- MODULE CardStates -----------------------------
(***************************************************************************)
(* The stored projection of card state: a row for every shown card and for *)
(* every word, computed from the facts and a moment.  A write projects     *)
(* only what it changed: the words it names are read anew, the cards of    *)
(* the changed lemmas get their status, and the cards whose phrase holds   *)
(* one get that word's newness.  A tick does the same for the lemmas whose *)
(* timer came due (card_state_projector.py, card_state_calculator.py).     *)
(***************************************************************************)
EXTENDS WordFacts

Newness(f, l, now) ==
    LET lk == Knowledge(f, l)
    IN  CASE lk.unknown \/ Elsewhere(lk, now) \in {"learning", "learn"} -> "always"
          [] ~lk.unknown /\ IsKnown(lk, now) -> "never"
          [] OTHER -> "by_level"

StatusValues(f, c, now) ==
    LET word == WordOfCard(f, c)
        lk == KnowledgeOfCard(f, c)
    IN  [done |-> IsDone(word, word[c], lk, now),
         wants |-> WantsGeneration(word, word[c], lk, now),
         changes |-> ChangesAt(lk, now)]

NewnessValues(f, c, now) == [l \in Holds[c] |-> Newness(f, l, now)]

RowOf(f, c, now) ==
    [status |-> StatusValues(f, c, now), newness |-> NewnessValues(f, c, now)]

(* rebuild, and the live computation the projection is tested against.     *)
AllRows(f, now) ==
    [cards |-> [c \in Shown(f) |-> RowOf(f, c, now)],
     words |-> [w \in LiveWords(f) |-> DecisionStatus(Word(f, w))]]

-----------------------------------------------------------------------------
(* ChangedFacts: lemmas whose knowledge changed, words read anew.          *)
Changes(lemmas, words) == [lemmas |-> lemmas, words |-> words]

ReadAnew(ch) == {c \in Cards : WordOf[c] \in ch.words}
Own(f, ch) == {c \in Shown(f) : LemmaOfCard(c) \in ch.lemmas}
Holding(rows, f, ch) == {c \in DOMAIN rows.cards \cap Shown(f) : Holds[c] \cap ch.lemmas # {}}

Partly(f, c, kept, ch, now) ==
    [status |-> IF LemmaOfCard(c) \in ch.lemmas THEN StatusValues(f, c, now) ELSE kept.status,
     newness |-> [l \in Holds[c] |->
                     IF l \in ch.lemmas THEN Newness(f, l, now) ELSE kept.newness[l]]]

(* _Increment.apply: read anew, own, holding; then the word rows.          *)
Projected(rows, f, ch, now) ==
    LET reached == ((ReadAnew(ch) \cap Shown(f)) \cup Own(f, ch) \cup Holding(rows, f, ch))
        kept == DOMAIN rows.cards \ (ReadAnew(ch) \ Shown(f))
        words == {w \in LiveWords(f) : w \in ch.words \/ LemmaOf[w] \in ch.lemmas}
    IN  [rows EXCEPT
            !.cards = [c \in kept \cup reached |->
                IF c \in reached
                THEN IF c \in ReadAnew(ch) \/ c \notin DOMAIN rows.cards
                     THEN RowOf(f, c, now) ELSE Partly(f, c, rows.cards[c], ch, now)
                ELSE rows.cards[c]],
            !.words = [w \in (DOMAIN @ \ ch.words) \cup words |->
                IF w \in words THEN DecisionStatus(Word(f, w)) ELSE @[w]]]

-----------------------------------------------------------------------------
(* What a tick at `now` finds: rows that change by then, and active notes  *)
(* whose timer came due since the last tick.                               *)
ChangingBy(rows, now) ==
    {LemmaOfCard(c) : c \in {d \in DOMAIN rows.cards :
        /\ rows.cards[d].status.changes # Never
        /\ rows.cards[d].status.changes <= now}}

DueBetween(f, after, until) ==
    {l \in Lemmas : \E s \in Knowledge(f, l).since : ~Due(s, after) /\ Due(s, until)}

FindsByRows(rows, f, ticked, now) == ChangingBy(rows, now)
TickFinds(rows, f, ticked, now) == ChangingBy(rows, now) \cup DueBetween(f, ticked, now)

=============================================================================
