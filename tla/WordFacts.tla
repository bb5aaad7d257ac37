------------------------------ MODULE WordFacts ------------------------------
(***************************************************************************)
(* The facts the decisions write: the choice and the note of every card,   *)
(* the notes whose card is gone, the Known and Unknown marks.  Every write *)
(* of the user is an operator from the facts to the facts it leaves, with  *)
(* what follows it (decision_effects.py): the marks and the removal of     *)
(* Known from every other word of the lemma.                               *)
(***************************************************************************)
EXTENDS DecisionRules

CONSTANTS
    Lemmas, Sources,
    Words,      \* the words of the sources
    LemmaOf,    \* a word's lemma
    SourceOf,   \* a word's source
    Cards,      \* the phrases of words, the ones not made yet included
    WordOf,     \* a card's word
    Holds       \* the lemmas of the other words of a card's phrase

ASSUME WordsAssumption ==
    /\ LemmaOf \in [Words -> Lemmas]
    /\ SourceOf \in [Words -> Sources]
    /\ WordOf \in [Cards -> Words]
    /\ Holds \in [Cards -> SUBSET Lemmas]

LemmaOfCard(c) == LemmaOf[WordOf[c]]

(* cards: the cards of the words that exist; hidden: those not shown;      *)
(* sources: the ones that exist; orphans: active notes without a card.     *)
WordCards(f, w) == {c \in DOMAIN f.cards : WordOf[c] = w}
Word(f, w) == [c \in WordCards(f, w) |-> f.cards[c]]
LiveWords(f) == {w \in Words : SourceOf[w] \in f.sources}
WordsOfLemma(f, l) == {w \in LiveWords(f) : LemmaOf[w] = l}
Shown(f) == DOMAIN f.cards \ f.hidden

CardsOfLemma(f, l) == {c \in DOMAIN f.cards : LemmaOfCard(c) = l}
BoundCards(f, l) == {c \in CardsOfLemma(f, l) : f.cards[c].note # None}
AwaitsExport(card) == card.choice \in Kinds /\ card.note = None

(* KnowledgeSnapshot.of.                                                   *)
Knowledge(f, l) ==
    [listed |-> l \in f.known,
     unknown |-> l \in f.unknown,
     awaiting |-> \E c \in CardsOfLemma(f, l) : AwaitsExport(f.cards[c]),
     since |-> {f.cards[c].since : c \in BoundCards(f, l)}
                  \cup {o.since : o \in {p \in f.orphans : p.lemma = l}}]

WithWord(f, word) ==
    [f EXCEPT !.cards = [c \in DOMAIN f.cards \cup DOMAIN word |->
                            IF c \in DOMAIN word THEN word[c] ELSE f.cards[c]]]

-----------------------------------------------------------------------------
(* The marks: Known or Unknown, never both.                                *)

MarkKnown(f, ls) ==
    [f EXCEPT !.known = @ \cup ls, !.unknown = @ \ ls]
ForgetUnknown(f, l) == [f EXCEPT !.unknown = @ \ {l}]

KnownRemovedHere(f, l, lk, now, acting) == [f EXCEPT !.known = @ \ {l}]

(* The words of the lemma revoked by the rules, on the knowledge from      *)
(* before Known was forgotten; the acting word keeps what its press made.  *)
KnownRemoved(f, l, lk, now, acting) ==
    LET revoked == {w \in WordsOfLemma(f, l) \ acting :
                        \E r \in RemovalRule(Word(f, w), lk, now) : r.revoke}
    IN  [f EXCEPT
            !.cards = [c \in DOMAIN f.cards |->
                          IF WordOf[c] \in revoked
                          THEN Revoked(Word(f, WordOf[c]))[c] ELSE f.cards[c]],
            !.known = @ \ {l},
            !.orphans = {o \in @ : o.lemma # l \/ ~OrphanReleased(o, now)}]

(* The effects of a user's change of word w from status `before` to        *)
(* `after`: g already holds the word's new cards.                          *)
WithEffects(f, g, w, before, after, marks, now) ==
    LET l == LemmaOf[w]
        marked == IF marks \/ MarksLemma(before, after) THEN MarkKnown(g, {l}) ELSE g
        told == IF ForgetsUnknown(after) THEN ForgetUnknown(marked, l) ELSE marked
    IN  IF RemovesKnown(before, after)
        THEN KnownRemoved(told, l, Knowledge(f, l), now, {w}) ELSE told

-----------------------------------------------------------------------------
(* The writes.                                                             *)

KnowledgeOfCard(f, c) == Knowledge(f, LemmaOfCard(c))
WordOfCard(f, c) == Word(f, WordOf[c])

RowsOfPress(f, c, p, now) ==
    PressRule(WordOfCard(f, c), c, p, KnowledgeOfCard(f, c), now)

Granted(f, c, p, now) ==
    {r \in RowsOfPress(f, c, p, now) : r.to # Refused}

AfterPress(f, c, row, now) ==
    LET word == Pressed(WordOfCard(f, c), c, row)
    IN  WithEffects(f, WithWord(f, word), WordOf[c],
                    StatusOf(WordOfCard(f, c), KnowledgeOfCard(f, c), now),
                    DecisionStatus(word), FALSE, now)

AfterMove(f, c, new, row, now) ==
    LET lk == KnowledgeOfCard(f, c)
        word == Moved(WordOfCard(f, c), c, new, row)
        g == [WithWord(f, word) EXCEPT !.hidden = @ \cup {c}]
    IN  WithEffects(f, g, WordOf[c],
                    StatusOf(WordOfCard(f, c), lk, now), StatusOf(word, lk, now),
                    MarksKnown(f.cards[c], lk, now), now)

(* mark_unknown: a Known lemma loses Known first and is asked about again. *)
AfterUnknown(f, l, now) ==
    LET lk == Knowledge(f, l)
        left == IF UnknownMark(lk, now) = "remove_known_first"
                THEN KnownRemoved(f, l, lk, now, {}) ELSE f
    IN  IF UnknownMark(Knowledge(left, l), now) = "mark"
        THEN [left EXCEPT !.unknown = @ \cup {l}] ELSE left

(* A source deleted: its active notes stay, with the choice or the kind    *)
(* their card had.                                                         *)
Orphan(f, c) ==
    [lemma |-> LemmaOfCard(c), since |-> f.cards[c].since,
     choice |-> IF IsDecision(f.cards[c]) THEN f.cards[c].choice ELSE f.cards[c].note]

WithoutSource(f, s) ==
    LET gone == {c \in DOMAIN f.cards : SourceOf[WordOf[c]] = s}
    IN  [f EXCEPT !.cards = [c \in DOMAIN @ \ gone |-> @[c]],
                  !.hidden = @ \ gone,
                  !.sources = @ \ {s},
                  !.orphans = @ \cup {Orphan(f, c) : c \in {d \in gone : f.cards[d].note # None}}]

(* Learning only of the notes whose cards the export still finds as they   *)
(* were when their notes were made.                                        *)
AfterExport(f, bound, now) ==
    [f EXCEPT !.cards = [c \in DOMAIN @ |->
        IF c \in bound THEN Bound(WordOfCard(f, c), c, now)[c] ELSE @[c]]]

=============================================================================
