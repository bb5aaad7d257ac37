------------------------ MODULE WordDecisionsProofs ------------------------
(***************************************************************************)
(* Theorems about WordDecisions: a word has one decision, every state has  *)
(* a row in each table, Unknown and learned exclude each other, Known can  *)
(* be taken from a lemma, and the projection is current.                   *)
(***************************************************************************)
EXTENDS WordDecisions, FiniteSetTheorems, NaturalsInduction, WellFoundedInduction, TLAPS

-----------------------------------------------------------------------------
(* What holds of the facts.                                                *)

(* A word has one decision at most.                                        *)
Sole(f) ==
    \A c, d \in DOMAIN f.cards :
        WordOf[c] = WordOf[d] /\ IsDecision(f.cards[c]) /\ IsDecision(f.cards[d]) => c = d

(* A note sits on its decision, or on one turned Known since.              *)
NoteFits(card) == card.note # None => card.choice \in {card.note, "known"}
NotesFit(f) == \A c \in DOMAIN f.cards : NoteFits(f.cards[c])

(* Of an Unknown lemma nothing is learned or waits for it.                 *)
Idles(card) == card.note = None /\ card.choice \notin Kinds
IdleLemma(f, l) ==
    /\ \A o \in f.orphans : o.lemma # l
    /\ \A c \in CardsOfLemma(f, l) : Idles(f.cards[c])
UnknownIdles(f) == \A l \in f.unknown : IdleLemma(f, l)

(* A card is of a word there is, and of each word one is shown.            *)
Housed(f) ==
    \A c \in DOMAIN f.cards :
        /\ SourceOf[WordOf[c]] \in f.sources
        /\ \E d \in Shown(f) : WordOf[d] = WordOf[c]

FactsInv(f) == FactsOK(f) /\ Sole(f) /\ NotesFit(f) /\ UnknownIdles(f) /\ Housed(f)

(* The constants relate as assumed.                                        *)
LEMMA Given ==
  /\ \A c \in Cards : WordOf[c] \in Words /\ Holds[c] \subseteq Lemmas
  /\ \A w \in Words : LemmaOf[w] \in Lemmas /\ SourceOf[w] \in Sources
  /\ \A c \in Cards : LemmaOfCard(c) \in Lemmas
<1>1. /\ \A c \in Cards : WordOf[c] \in Words /\ Holds[c] \subseteq Lemmas
      /\ \A w \in Words : LemmaOf[w] \in Lemmas /\ SourceOf[w] \in Sources
  BY WordsAssumption
<1> QED BY <1>1 DEF LemmaOfCard

(* The types of the facts, one by one.                                     *)
LEMMA FactsParts ==
  ASSUME NEW f, FactsOK(f)
  PROVE  /\ DOMAIN f.cards \subseteq Cards
         /\ \A c \in DOMAIN f.cards : f.cards[c] \in CardFact
         /\ f.cards \in [DOMAIN f.cards -> CardFact]
         /\ f.hidden \subseteq DOMAIN f.cards
         /\ f.sources \subseteq Sources /\ f.orphans \subseteq OrphanFact
         /\ f.known \subseteq Lemmas /\ f.unknown \subseteq Lemmas
         /\ f.known \cap f.unknown = {}
         /\ DOMAIN f = {"cards", "hidden", "sources", "orphans", "known", "unknown"}
<1>1. f \in [cards : [DOMAIN f.cards -> CardFact], hidden : SUBSET DOMAIN f.cards,
             sources : SUBSET Sources, orphans : SUBSET OrphanFact,
             known : SUBSET Lemmas, unknown : SUBSET Lemmas]
  BY DEF FactsOK
<1>2. f.cards \in [DOMAIN f.cards -> CardFact]
  BY <1>1
<1>3. DOMAIN f = {"cards", "hidden", "sources", "orphans", "known", "unknown"}
  BY <1>1
<1> QED BY <1>1, <1>2, <1>3 DEF FactsOK

(* Facts put together from their parts.                                    *)
LEMMA FactsMade ==
  ASSUME NEW cards, NEW hidden, NEW sources, NEW orphans, NEW known, NEW unknown,
         DOMAIN cards \subseteq Cards, cards \in [DOMAIN cards -> CardFact],
         hidden \subseteq DOMAIN cards, sources \subseteq Sources,
         orphans \subseteq OrphanFact, known \subseteq Lemmas, unknown \subseteq Lemmas,
         known \cap unknown = {}
  PROVE  FactsOK([cards |-> cards, hidden |-> hidden, sources |-> sources,
                  orphans |-> orphans, known |-> known, unknown |-> unknown])
BY DEF FactsOK

(* Facts are their six parts.                                              *)
LEMMA FactsAre ==
  ASSUME NEW f, FactsOK(f)
  PROVE  f = [cards |-> f.cards, hidden |-> f.hidden, sources |-> f.sources,
              orphans |-> f.orphans, known |-> f.known, unknown |-> f.unknown]
<1>1. f \in [cards : [DOMAIN f.cards -> CardFact], hidden : SUBSET DOMAIN f.cards,
             sources : SUBSET Sources, orphans : SUBSET OrphanFact,
             known : SUBSET Lemmas, unknown : SUBSET Lemmas]
  BY DEF FactsOK
<1> QED BY <1>1

-----------------------------------------------------------------------------
(* What follows a change of a word of lemma l: marks, and Known removed    *)
(* from the other words.                                                   *)

(* h is g with decisions of l revoked, notes of l released and l marked.   *)
Eased(g, h, l) ==
    /\ h.hidden = g.hidden /\ h.sources = g.sources
    /\ h.orphans \subseteq g.orphans
    /\ \A o \in g.orphans : o.lemma # l => o \in h.orphans
    /\ h.unknown \subseteq g.unknown
    /\ \A k \in Lemmas : k # l => (k \in h.known <=> k \in g.known)
                                 /\ (k \in h.unknown <=> k \in g.unknown)
    /\ DOMAIN h.cards = DOMAIN g.cards
    /\ \A c \in DOMAIN g.cards :
           \/ h.cards[c] = g.cards[c]
           \/ LemmaOfCard(c) = l /\ IsDecision(g.cards[c]) /\ h.cards[c] = Blank

(* One after the other is one.                                             *)
LEMMA EasedTwice ==
  ASSUME NEW g, NEW h, NEW k, NEW l, Eased(g, h, l), Eased(h, k, l)
  PROVE  Eased(g, k, l)
BY DEF Eased, IsDecision, Blank, Decisions, Kinds, None

(* Nothing eased is as it was.                                             *)
LEMMA EasedNot ==
  ASSUME NEW g, NEW l PROVE Eased(g, g, l)
BY DEF Eased

(* The blank card is a card and no decision.                               *)
LEMMA BlankIsCard ==
  Blank \in CardFact /\ ~ IsDecision(Blank) /\ NoteFits(Blank) /\ Idles(Blank)
<1>1. MaxTime \in Nat
  BY BoundsAssumption
<1> QED BY <1>1 DEF Blank, CardFact, KindOrNone, Choices, Presses, Decisions, Kinds, None, IsDecision,
                    NoteFits, Idles

(* What is eased keeps one decision a word, and its notes fit.             *)
LEMMA EasedKeeps ==
  ASSUME NEW g, NEW h, NEW l, Eased(g, h, l)
  PROVE  /\ Sole(g) => Sole(h)
         /\ NotesFit(g) => NotesFit(h)
         /\ Housed(g) => Housed(h)
<1>1. \A c \in DOMAIN h.cards : IsDecision(h.cards[c]) => IsDecision(g.cards[c])
  BY BlankIsCard DEF Eased
<1>2. Sole(g) => Sole(h)
  BY <1>1 DEF Eased, Sole
<1>3. NotesFit(g) => NotesFit(h)
  BY BlankIsCard DEF Eased, NotesFit
<1>4. Housed(g) => Housed(h)
  BY DEF Eased, Housed, Shown
<1> QED BY <1>2, <1>3, <1>4

(* Lemmas marked Known.                                                    *)
LEMMA MarkedKnown ==
  ASSUME NEW g, FactsOK(g), NEW ls \in SUBSET Lemmas
  PROVE  LET h == MarkKnown(g, ls)
         IN  /\ FactsOK(h)
             /\ h.known = g.known \cup ls /\ h.unknown = g.unknown \ ls
             /\ h.cards = g.cards /\ h.hidden = g.hidden
             /\ h.sources = g.sources /\ h.orphans = g.orphans
<1> DEFINE h == MarkKnown(g, ls)
<1>1. h = [cards |-> g.cards, hidden |-> g.hidden, sources |-> g.sources,
           orphans |-> g.orphans, known |-> g.known \cup ls, unknown |-> g.unknown \ ls]
  <2>1. h = [g EXCEPT !.known = g.known \cup ls, !.unknown = g.unknown \ ls]
    BY DEF MarkKnown
  <2>2. g = [cards |-> g.cards, hidden |-> g.hidden, sources |-> g.sources,
             orphans |-> g.orphans, known |-> g.known, unknown |-> g.unknown]
    BY FactsAre
  <2> HIDE DEF h
  <2> QED BY <2>1, <2>2
<1> HIDE DEF h
<1>2. /\ DOMAIN g.cards \subseteq Cards /\ g.cards \in [DOMAIN g.cards -> CardFact]
      /\ g.hidden \subseteq DOMAIN g.cards /\ g.sources \subseteq Sources
      /\ g.orphans \subseteq OrphanFact
      /\ g.known \cup ls \subseteq Lemmas /\ g.unknown \ ls \subseteq Lemmas
      /\ (g.known \cup ls) \cap (g.unknown \ ls) = {}
  BY FactsParts
<1>3. FactsOK(h)
  BY <1>1, <1>2, FactsMade
<1> QED BY <1>1, <1>3 DEF h

(* A lemma no longer marked Unknown.                                       *)
LEMMA ForgottenUnknown ==
  ASSUME NEW g, FactsOK(g), NEW l
  PROVE  LET h == ForgetUnknown(g, l)
         IN  /\ FactsOK(h)
             /\ h.unknown = g.unknown \ {l} /\ h.known = g.known
             /\ h.cards = g.cards /\ h.hidden = g.hidden
             /\ h.sources = g.sources /\ h.orphans = g.orphans
<1> DEFINE h == ForgetUnknown(g, l)
<1>1. h = [cards |-> g.cards, hidden |-> g.hidden, sources |-> g.sources,
           orphans |-> g.orphans, known |-> g.known, unknown |-> g.unknown \ {l}]
  BY FactsAre DEF ForgetUnknown
<1> HIDE DEF h
<1>2. /\ DOMAIN g.cards \subseteq Cards /\ g.cards \in [DOMAIN g.cards -> CardFact]
      /\ g.hidden \subseteq DOMAIN g.cards /\ g.sources \subseteq Sources
      /\ g.orphans \subseteq OrphanFact
      /\ g.known \subseteq Lemmas /\ g.unknown \ {l} \subseteq Lemmas
      /\ g.known \cap (g.unknown \ {l}) = {}
  BY FactsParts
<1>3. FactsOK(h)
  BY <1>1, <1>2, FactsMade
<1> QED BY <1>1, <1>3 DEF h

(* The words that lose Known with lemma l.                                 *)
Revoking(g, l, lk, now, acting) ==
    {w \in WordsOfLemma(g, l) \ acting : \E r \in RemovalRule(Word(g, w), lk, now) : r.revoke}

(* Known removed: their decisions go, and the notes without a card.        *)
LEMMA RemovedKnown ==
  ASSUME NEW g, FactsOK(g), NEW l, NEW lk, NEW now, NEW acting
  PROVE  LET h == KnownRemoved(g, l, lk, now, acting)
         IN  /\ FactsOK(h)
             /\ h.unknown = g.unknown /\ h.known = g.known \ {l}
             /\ h.hidden = g.hidden /\ h.sources = g.sources
             /\ h.orphans = {o \in g.orphans : o.lemma # l \/ ~ OrphanReleased(o, now)}
             /\ DOMAIN h.cards = DOMAIN g.cards
             /\ \A c \in DOMAIN g.cards :
                    IF WordOf[c] \in Revoking(g, l, lk, now, acting) /\ IsDecision(g.cards[c])
                    THEN h.cards[c] = Blank ELSE h.cards[c] = g.cards[c]
<1> DEFINE h == KnownRemoved(g, l, lk, now, acting)
           gone == Revoking(g, l, lk, now, acting)
           cards == [c \in DOMAIN g.cards |->
                        IF WordOf[c] \in gone
                        THEN Revoked(Word(g, WordOf[c]))[c] ELSE g.cards[c]]
           orphans == {o \in g.orphans : o.lemma # l \/ ~ OrphanReleased(o, now)}
<1>1. h = [cards |-> cards, hidden |-> g.hidden, sources |-> g.sources,
           orphans |-> orphans, known |-> g.known \ {l}, unknown |-> g.unknown]
  <2>1. h = [g EXCEPT !.cards = cards, !.known = g.known \ {l}, !.orphans = orphans]
    BY DEF KnownRemoved, Revoking
  <2>2. g = [cards |-> g.cards, hidden |-> g.hidden, sources |-> g.sources,
             orphans |-> g.orphans, known |-> g.known, unknown |-> g.unknown]
    BY FactsAre
  <2> HIDE DEF h, cards, orphans
  <2> QED BY <2>1, <2>2
<1> HIDE DEF h, gone
<1>2. ASSUME NEW c \in DOMAIN g.cards
      PROVE  /\ cards[c] \in CardFact
             /\ IF WordOf[c] \in gone /\ IsDecision(g.cards[c])
                THEN cards[c] = Blank ELSE cards[c] = g.cards[c]
  <2>1. c \in WordCards(g, WordOf[c])
    BY DEF WordCards
  <2>2. Revoked(Word(g, WordOf[c]))[c] = IF IsDecision(g.cards[c]) THEN Blank ELSE g.cards[c]
    BY <2>1 DEF Revoked, Word
  <2>3. g.cards[c] \in CardFact
    BY FactsParts
  <2> QED BY <2>2, <2>3, BlankIsCard
<1>3. DOMAIN cards = DOMAIN g.cards /\ cards \in [DOMAIN cards -> CardFact]
  BY <1>2
<1> HIDE DEF cards
<1>4. /\ DOMAIN cards \subseteq Cards
      /\ g.hidden \subseteq DOMAIN cards /\ g.sources \subseteq Sources
      /\ orphans \subseteq OrphanFact
      /\ g.known \ {l} \subseteq Lemmas /\ g.unknown \subseteq Lemmas
      /\ (g.known \ {l}) \cap g.unknown = {}
  BY <1>3, FactsParts
<1> HIDE DEF orphans
<1>5. FactsOK(h)
  BY <1>1, <1>3, <1>4, FactsMade
<1> QED BY <1>1, <1>2, <1>3, <1>5 DEF h, gone, orphans

-----------------------------------------------------------------------------
(* The rows of the tables.                                                 *)

(* What a row of a press that is granted says.                             *)
Says(row) ==
    /\ row.to \in Choices /\ row.release \in BOOLEAN
    /\ row.role \in {"open", "decision"}
    /\ row.role = "open" => row.notes = {None}
    /\ \A note \in row.notes : note # None /\ ~ row.release => row.to = "known"

(* The fields of a row.                                                    *)
LEMMA PressRowParts ==
  ASSUME NEW role, NEW notes, NEW reads, NEW elsewhere, NEW before, NEW presses, NEW to,
         NEW release
  PROVE  LET row == PressRow(role, notes, reads, elsewhere, before, presses, to, release)
         IN  /\ row.role = role /\ row.notes = notes /\ row.reads = reads
             /\ row.elsewhere = elsewhere /\ row.before = before /\ row.presses = presses
             /\ row.to = to /\ row.release = release
BY DEF PressRow

(* A row of an open word, or one that releases its note, says what it may. *)
LEMMA RowSays ==
  ASSUME NEW role \in {"open", "decision"}, NEW notes, NEW reads, NEW elsewhere, NEW before,
         NEW presses, NEW to \in Choices, NEW release \in BOOLEAN,
         notes = {None} \/ (role = "decision" /\ (release \/ to = "known"))
  PROVE  Says(PressRow(role, notes, reads, elsewhere, before, presses, to, release))
BY PressRowParts DEF Says

(* The rows for a decision with a note, one after the other.               *)
BoundListed(row) ==
    \/ \E k \in Kinds :
           row = PressRow("decision", {k}, FALSE, FALSE, {k}, {"known"}, "known", FALSE)
    \/ \E k \in Kinds : row = BoundRow(k, FALSE, {k}, {k}, None)
    \/ \E k \in Kinds : row = BoundRow(k, FALSE, {k}, {OtherKind(k)}, OtherKind(k))
    \/ \E k \in Kinds : row = BoundRow(k, FALSE, {k}, {"skip"}, "skip")
    \/ \E k \in Kinds : row = BoundRow(k, FALSE, {"known"}, {"known"}, None)
    \/ \E k \in Kinds, p \in Kinds \cup {"skip"} : row = BoundRow(k, FALSE, {"known"}, {p}, p)
    \/ \E k \in Kinds : row = BoundRow(k, TRUE, {k}, {"known"}, None)
    \/ \E k \in Kinds, p \in Kinds \cup {"skip"} : row = BoundRow(k, TRUE, {k}, {p}, p)

(* They are the table's.                                                   *)
LEMMA BoundRowsAre ==
  ASSUME NEW row
  PROVE  row \in BoundRows <=> BoundListed(row)
<1> DEFINE turned == {BoundRow(r[1], FALSE, {"known"}, {r[2]}, r[2]) :
                         r \in Kinds \X (Kinds \cup {"skip"})}
           again == {BoundRow(r[1], TRUE, {r[1]}, {r[2]}, r[2]) :
                         r \in Kinds \X (Kinds \cup {"skip"})}
<1>1. row \in turned <=>
          \E k \in Kinds, p \in Kinds \cup {"skip"} : row = BoundRow(k, FALSE, {"known"}, {p}, p)
  <2>1. ASSUME NEW k \in Kinds, NEW p \in Kinds \cup {"skip"},
               row = BoundRow(k, FALSE, {"known"}, {p}, p)
        PROVE  row \in turned
    <3> DEFINE r == <<k, p>>
    <3>1. r \in Kinds \X (Kinds \cup {"skip"}) /\ r[1] = k /\ r[2] = p
      OBVIOUS
    <3> QED BY <2>1, <3>1
  <2> QED BY <2>1
<1>2. row \in again <=>
          \E k \in Kinds, p \in Kinds \cup {"skip"} : row = BoundRow(k, TRUE, {k}, {p}, p)
  <2>1. ASSUME NEW k \in Kinds, NEW p \in Kinds \cup {"skip"},
               row = BoundRow(k, TRUE, {k}, {p}, p)
        PROVE  row \in again
    <3> DEFINE r == <<k, p>>
    <3>1. r \in Kinds \X (Kinds \cup {"skip"}) /\ r[1] = k /\ r[2] = p
      OBVIOUS
    <3> QED BY <2>1, <3>1
  <2> QED BY <2>1
<1>3. row \in BoundRows <=>
          \/ row \in {PressRow("decision", {k}, FALSE, FALSE, {k}, {"known"}, "known", FALSE) :
                        k \in Kinds}
          \/ row \in {BoundRow(k, FALSE, {k}, {k}, None) : k \in Kinds}
          \/ row \in {BoundRow(k, FALSE, {k}, {OtherKind(k)}, OtherKind(k)) : k \in Kinds}
          \/ row \in {BoundRow(k, FALSE, {k}, {"skip"}, "skip") : k \in Kinds}
          \/ row \in {BoundRow(k, FALSE, {"known"}, {"known"}, None) : k \in Kinds}
          \/ row \in turned
          \/ row \in {BoundRow(k, TRUE, {k}, {"known"}, None) : k \in Kinds}
          \/ row \in again
  BY DEF BoundRows
<1> HIDE DEF turned, again
<1> QED BY <1>1, <1>2, <1>3 DEF BoundListed

(* So do the rows of the table.                                            *)
LEMMA PressSays ==
  ASSUME NEW row \in PressRows, row.to # Refused
  PROVE  Says(row)
<1>0. /\ None \in Choices /\ "skip" \in Choices /\ "known" \in Choices
      /\ \A k \in Kinds : k \in Choices /\ OtherKind(k) \in Choices
      /\ \A p \in Decisions : p \in Choices
      /\ \A p \in Kinds \cup {"skip"} : p \in Choices
      /\ \A p \in {"known", "skip"} : p \in Choices
      /\ Refused \notin Choices
  BY DEF Choices, Presses, Decisions, Kinds, None, OtherKind, Refused
<1>1. CASE row \in OpenRows
  <2>1. CASE \E p \in Decisions :
              row = PressRow("open", {None}, FALSE, FALSE, {None, "skip"}, {p}, p, FALSE)
    <3>1. PICK p \in Decisions :
              row = PressRow("open", {None}, FALSE, FALSE, {None, "skip"}, {p}, p, FALSE)
      BY <2>1
    <3> QED BY <1>0, <3>1, RowSays
  <2>2. CASE \/ row = PressRow("open", {None}, FALSE, FALSE, {None}, {"skip"}, "skip", FALSE)
             \/ row = PressRow("open", {None}, FALSE, FALSE, {"skip"}, {"skip"}, None, FALSE)
    BY <1>0, <2>2, RowSays
  <2>3. CASE row = PressRow("open", {None}, FALSE, TRUE, {None, "skip"}, Presses, Refused, FALSE)
    <3>1. row.to = Refused
      BY <2>3 DEF PressRow
    <3> QED BY <3>1
  <2> QED BY <1>1, <2>1, <2>2, <2>3 DEF OpenRows
<1>2. CASE row \in UnboundRows
  <2>1. \/ \E k \in Kinds : row = UnboundRow(FALSE, {k}, {k}, None)
        \/ \E k \in Kinds : row = UnboundRow(FALSE, {k}, {OtherKind(k)}, OtherKind(k))
        \/ \E k \in Kinds : row = UnboundRow(TRUE, {k}, {"known"}, None)
        \/ \E p \in Kinds \cup {"skip"} : row = UnboundRow(TRUE, Kinds, {p}, p)
        \/ \E p \in {"known", "skip"} : row = UnboundRow(FALSE, Kinds, {p}, p)
        \/ row = UnboundRow(FALSE, {"known"}, {"known"}, None)
        \/ \E p \in Kinds \cup {"skip"} : row = UnboundRow(FALSE, {"known"}, {p}, p)
    BY <1>2 DEF UnboundRows
  <2>2. PICK reads, before, presses, to :
            to \in Choices /\ row = UnboundRow(reads, before, presses, to)
    BY <1>0, <2>1, Zenon
  <2> QED BY <2>2, RowSays DEF UnboundRow
<1>3. CASE row \in BoundRows
  <2>1. BoundListed(row)
    BY <1>3, BoundRowsAre
  <2>2. CASE \E k \in Kinds :
              row = PressRow("decision", {k}, FALSE, FALSE, {k}, {"known"}, "known", FALSE)
    <3>1. PICK k \in Kinds :
              row = PressRow("decision", {k}, FALSE, FALSE, {k}, {"known"}, "known", FALSE)
      BY <2>2
    <3> QED BY <1>0, <3>1, RowSays
  <2>3. CASE ~ \E k \in Kinds :
              row = PressRow("decision", {k}, FALSE, FALSE, {k}, {"known"}, "known", FALSE)
    <3>1. PICK kind, reads, before, presses, to :
              to \in Choices /\ row = BoundRow(kind, reads, before, presses, to)
      BY <1>0, <2>1, <2>3, Zenon DEF BoundListed
    <3> QED BY <3>1, RowSays DEF BoundRow
  <2> QED BY <2>2, <2>3
<1>4. CASE row \in PressRows \ (OpenRows \cup UnboundRows \cup BoundRows)
  <2>1. row = PressRow("other", {None}, FALSE, FALSE, {None, "skip"}, Presses, Refused, FALSE)
    BY <1>4 DEF PressRows
  <2>2. row.to = Refused
    BY <2>1 DEF PressRow
  <2> QED BY <2>2
<1> QED BY <1>1, <1>2, <1>3, <1>4

(* What a row of a move says.                                              *)
LEMMA MoveSays ==
  ASSUME NEW row \in MoveRows
  PROVE  /\ row.new \in Decisions \cup {None} /\ row.old \in {None, "skip"}
         /\ \A x \in row.before : row.new # None => x \in Decisions
         /\ row.new \in Kinds => row.before = {row.new}
BY DEF MoveRows, MoveRow, Choices, Presses, Decisions, Kinds, None

(* The decision of a word that has one is that one.                        *)
LEMMA DecisionIs ==
  ASSUME NEW word, NEW c \in DOMAIN word, IsDecision(word[c]),
         \A d \in DOMAIN word : IsDecision(word[d]) => d = c
  PROVE  Decided(word) /\ DecisionOf(word) = word[c]
BY DEF Decided, DecisionOf

(* A word decided for learning, not exported yet, has the status learn.    *)
LEMMA LearnIs ==
  ASSUME NEW word, NEW c \in DOMAIN word, word[c].choice \in Kinds, word[c].note = None,
         \A d \in DOMAIN word : IsDecision(word[d]) => d = c
  PROVE  DecisionStatus(word) = "learn"
<1>1. IsDecision(word[c])
  BY DEF IsDecision, Decisions
<1>2. DecisionOf(word) = word[c]
  BY <1>1, DecisionIs
<1> QED BY <1>2 DEF DecisionStatus, Kinds, None

-----------------------------------------------------------------------------
(* A word written with what follows it.                                    *)

(* The cards of a word written.                                            *)
LEMMA WordWritten ==
  ASSUME NEW f, FactsOK(f), NEW word, DOMAIN word \subseteq Cards,
         \A c \in DOMAIN word : word[c] \in CardFact
  PROVE  LET g == WithWord(f, word)
         IN  /\ FactsOK(g)
             /\ DOMAIN g.cards = DOMAIN f.cards \cup DOMAIN word
             /\ \A c \in DOMAIN word : g.cards[c] = word[c]
             /\ \A c \in DOMAIN f.cards \ DOMAIN word : g.cards[c] = f.cards[c]
             /\ g.hidden = f.hidden /\ g.sources = f.sources /\ g.orphans = f.orphans
             /\ g.known = f.known /\ g.unknown = f.unknown
<1> DEFINE g == WithWord(f, word)
           cards == [c \in DOMAIN f.cards \cup DOMAIN word |->
                        IF c \in DOMAIN word THEN word[c] ELSE f.cards[c]]
<1>1. g = [cards |-> cards, hidden |-> f.hidden, sources |-> f.sources,
           orphans |-> f.orphans, known |-> f.known, unknown |-> f.unknown]
  <2>1. g = [f EXCEPT !.cards = cards]
    BY DEF WithWord
  <2>2. f = [cards |-> f.cards, hidden |-> f.hidden, sources |-> f.sources,
             orphans |-> f.orphans, known |-> f.known, unknown |-> f.unknown]
    BY FactsAre
  <2> HIDE DEF g, cards
  <2> QED BY <2>1, <2>2
<1> HIDE DEF g
<1>2. /\ DOMAIN cards = DOMAIN f.cards \cup DOMAIN word
      /\ \A c \in DOMAIN word : cards[c] = word[c]
      /\ \A c \in DOMAIN f.cards \ DOMAIN word : cards[c] = f.cards[c]
  OBVIOUS
<1>3. \A c \in DOMAIN f.cards : f.cards[c] \in CardFact
  BY FactsParts
<1>4. cards \in [DOMAIN cards -> CardFact]
  BY <1>2, <1>3
<1> HIDE DEF cards
<1>5. /\ DOMAIN cards \subseteq Cards /\ f.hidden \subseteq DOMAIN cards
      /\ f.sources \subseteq Sources /\ f.orphans \subseteq OrphanFact
      /\ f.known \subseteq Lemmas /\ f.unknown \subseteq Lemmas
      /\ f.known \cap f.unknown = {}
  BY <1>2, FactsParts
<1>6. FactsOK(g)
  BY <1>1, <1>4, <1>5, FactsMade
<1> QED BY <1>1, <1>2, <1>6 DEF g

(* The effects of a change of status: the rest of the lemma is eased, and  *)
(* a lemma that is to be learned is not Unknown.                           *)
LEMMA EffectsEase ==
  ASSUME NEW f, NEW g, FactsOK(g), NEW w \in Words, NEW before, NEW after, NEW marks, NEW now
  PROVE  LET h == WithEffects(f, g, w, before, after, marks, now)
         IN  /\ FactsOK(h)
             /\ Eased(g, h, LemmaOf[w])
             /\ after = "learn" => LemmaOf[w] \notin h.unknown
<1> DEFINE l == LemmaOf[w]
           marked == IF marks \/ MarksLemma(before, after) THEN MarkKnown(g, {l}) ELSE g
           told == IF ForgetsUnknown(after) THEN ForgetUnknown(marked, l) ELSE marked
           lk == Knowledge(f, l)
           h == WithEffects(f, g, w, before, after, marks, now)
<1>0. l \in Lemmas
  BY Given
<1> HIDE DEF l
<1>1. FactsOK(marked) /\ Eased(g, marked, l)
  <2>1. CASE marks \/ MarksLemma(before, after)
    <3>1. marked = MarkKnown(g, {l})
      BY <2>1
    <3> HIDE DEF marked
    <3>2. {l} \in SUBSET Lemmas
      BY <1>0
    <3>3. /\ FactsOK(marked) /\ marked.known = g.known \cup {l}
          /\ marked.unknown = g.unknown \ {l}
          /\ marked.cards = g.cards /\ marked.hidden = g.hidden
          /\ marked.sources = g.sources /\ marked.orphans = g.orphans
      BY <3>1, <3>2, MarkedKnown
    <3> QED BY <3>3 DEF Eased
  <2>2. CASE ~ (marks \/ MarksLemma(before, after))
    BY <2>2, EasedNot
  <2> QED BY <2>1, <2>2
<1> HIDE DEF marked
<1>2. FactsOK(told) /\ Eased(marked, told, l) /\ (after = "learn" => l \notin told.unknown)
  <2>1. CASE ForgetsUnknown(after)
    <3>1. told = ForgetUnknown(marked, l)
      BY <2>1
    <3> HIDE DEF told
    <3>2. /\ FactsOK(told) /\ told.unknown = marked.unknown \ {l} /\ told.known = marked.known
          /\ told.cards = marked.cards /\ told.hidden = marked.hidden
          /\ told.sources = marked.sources /\ told.orphans = marked.orphans
      BY <1>1, <3>1, ForgottenUnknown
    <3> QED BY <3>2 DEF Eased
  <2>2. CASE ~ ForgetsUnknown(after)
    BY <1>1, <2>2, EasedNot DEF ForgetsUnknown
  <2> QED BY <2>1, <2>2
<1>3. h = IF RemovesKnown(before, after) THEN KnownRemoved(told, l, lk, now, {w}) ELSE told
  BY DEF WithEffects, told, marked, l, lk
<1> HIDE DEF told, h, lk
<1>4. FactsOK(h) /\ Eased(told, h, l) /\ h.unknown = told.unknown
  <2>1. CASE RemovesKnown(before, after)
    <3>1. h = KnownRemoved(told, l, lk, now, {w})
      BY <1>3, <2>1
    <3>2. /\ FactsOK(h) /\ h.unknown = told.unknown /\ h.known = told.known \ {l}
          /\ h.hidden = told.hidden /\ h.sources = told.sources
          /\ h.orphans = {o \in told.orphans : o.lemma # l \/ ~ OrphanReleased(o, now)}
          /\ DOMAIN h.cards = DOMAIN told.cards
          /\ \A c \in DOMAIN told.cards :
                IF WordOf[c] \in Revoking(told, l, lk, now, {w}) /\ IsDecision(told.cards[c])
                THEN h.cards[c] = Blank ELSE h.cards[c] = told.cards[c]
      BY <1>2, <3>1, RemovedKnown
    <3>3. \A c \in DOMAIN told.cards :
              WordOf[c] \in Revoking(told, l, lk, now, {w}) => LemmaOfCard(c) = l
      BY DEF Revoking, WordsOfLemma, LemmaOfCard
    <3> QED BY <3>2, <3>3 DEF Eased
  <2>2. CASE ~ RemovesKnown(before, after)
    BY <1>2, <1>3, <2>2, EasedNot
  <2> QED BY <2>1, <2>2
<1>5. Eased(g, h, l)
  BY <1>1, <1>2, <1>4, EasedTwice
<1> QED BY <1>2, <1>4, <1>5 DEF h, l

-----------------------------------------------------------------------------
(* What a write leaves alone.                                              *)

(* Of lemmas outside ls nothing changed from f to h.                       *)
Apart(f, h, ls) ==
    /\ \A k \in Lemmas \ ls : (k \in h.known <=> k \in f.known)
                              /\ (k \in h.unknown <=> k \in f.unknown)
    /\ \A o \in f.orphans \cup h.orphans :
          o.lemma \notin ls => o \in f.orphans /\ o \in h.orphans
    /\ \A c \in DOMAIN f.cards \cup DOMAIN h.cards :
          LemmaOfCard(c) \notin ls =>
              c \in DOMAIN f.cards /\ c \in DOMAIN h.cards /\ h.cards[c] = f.cards[c]

(* One write after the other, of the same lemmas.                          *)
LEMMA ApartTwice ==
  ASSUME NEW f, NEW g, NEW h, NEW ls, Apart(f, g, ls), Apart(g, h, ls)
  PROVE  Apart(f, h, ls)
BY DEF Apart

(* What follows a change of a lemma is apart from the others.              *)
LEMMA EasedApart ==
  ASSUME NEW g, NEW h, NEW l, Eased(g, h, l)
  PROVE  Apart(g, h, {l})
BY DEF Eased, Apart

(* It leaves an idle lemma idle.                                           *)
LEMMA EasedIdle ==
  ASSUME NEW g, NEW h, NEW l, NEW k, Eased(g, h, l), IdleLemma(g, k)
  PROVE  IdleLemma(h, k)
BY BlankIsCard DEF Eased, IdleLemma, CardsOfLemma

(* It keeps the facts in order.                                            *)
LEMMA EasedInv ==
  ASSUME NEW g, NEW h, NEW l, Eased(g, h, l), FactsInv(g), FactsOK(h)
  PROVE  FactsInv(h)
<1>1. UnknownIdles(h)
  <2> SUFFICES ASSUME NEW k \in h.unknown PROVE IdleLemma(h, k)
    BY DEF UnknownIdles
  <2>1. IdleLemma(g, k)
    BY DEF FactsInv, UnknownIdles, Eased
  <2> QED BY <2>1, EasedIdle
<1> QED BY <1>1, EasedKeeps DEF FactsInv

(* The knowledge of the lemmas apart, and their words, are as they were.   *)
LEMMA ApartSame ==
  ASSUME NEW f, NEW h, NEW ls, Apart(f, h, ls)
  PROVE  /\ \A k \in Lemmas \ ls : Knowledge(h, k) = Knowledge(f, k)
         /\ \A w \in Words : LemmaOf[w] \notin ls => Word(h, w) = Word(f, w)
<1>1. ASSUME NEW k \in Lemmas \ ls PROVE Knowledge(h, k) = Knowledge(f, k)
  <2>1. CardsOfLemma(h, k) = CardsOfLemma(f, k)
    BY DEF Apart, CardsOfLemma
  <2>2. \A c \in CardsOfLemma(f, k) : h.cards[c] = f.cards[c]
    BY DEF Apart, CardsOfLemma
  <2>3. BoundCards(h, k) = BoundCards(f, k)
    BY <2>1, <2>2 DEF BoundCards
  <2>4. {h.cards[c].since : c \in BoundCards(h, k)} = {f.cards[c].since : c \in BoundCards(f, k)}
    BY <2>2, <2>3 DEF BoundCards
  <2>5. {p \in h.orphans : p.lemma = k} = {p \in f.orphans : p.lemma = k}
    BY DEF Apart
  <2>6. (\E c \in CardsOfLemma(h, k) : AwaitsExport(h.cards[c]))
            = (\E c \in CardsOfLemma(f, k) : AwaitsExport(f.cards[c]))
    BY <2>1, <2>2
  <2>7. ((k \in h.known) = (k \in f.known)) /\ ((k \in h.unknown) = (k \in f.unknown))
    BY DEF Apart
  <2>8. {o.since : o \in {p \in h.orphans : p.lemma = k}}
            = {o.since : o \in {p \in f.orphans : p.lemma = k}}
    BY <2>5
  <2> QED BY <2>4, <2>6, <2>7, <2>8, Zenon DEF Knowledge
<1>2. ASSUME NEW w \in Words, LemmaOf[w] \notin ls PROVE Word(h, w) = Word(f, w)
  <2>1. WordCards(h, w) = WordCards(f, w)
    BY <1>2 DEF Apart, WordCards, LemmaOfCard
  <2>2. \A c \in WordCards(f, w) : h.cards[c] = f.cards[c]
    BY <1>2 DEF Apart, WordCards, LemmaOfCard
  <2> QED BY <2>1, <2>2 DEF Word
<1> QED BY <1>1, <1>2

-----------------------------------------------------------------------------
(* The writes keep the facts in order.                                     *)

(* Every lemma Unknown before is idle again after the change of a word, or *)
(* is Unknown no longer.                                                   *)
LEMMA ChangeIdles ==
  ASSUME NEW f, NEW g, NEW h, NEW l, FactsInv(f), Eased(g, h, l),
         g.unknown = f.unknown, g.orphans = f.orphans, Apart(f, g, {l}),
         l \in h.unknown => IdleLemma(g, l)
  PROVE  UnknownIdles(h)
<1> SUFFICES ASSUME NEW k \in h.unknown PROVE IdleLemma(h, k)
  BY DEF UnknownIdles
<1>1. IdleLemma(f, k)
  BY DEF FactsInv, UnknownIdles, Eased
<1>2. k # l => IdleLemma(g, k)
  BY <1>1 DEF Apart, IdleLemma, CardsOfLemma
<1> QED BY <1>2, EasedIdle

(* No card gets a note it had not.                                         *)
NotesKept(f, h) ==
    \A c \in DOMAIN f.cards \cap DOMAIN h.cards : h.cards[c].note \in {None, f.cards[c].note}

(* The cards of the facts as before, and those of another word with them:  *)
(* what a write of the word of card c leaves of the rest.                  *)
WrittenFor(f, h, c) ==
    FactsInv(h) /\ Apart(f, h, {LemmaOfCard(c)}) /\ h.sources = f.sources /\ NotesKept(f, h)

(* The word of a card holds it.                                            *)
LEMMA WordHolds ==
  ASSUME NEW f, NEW c \in DOMAIN f.cards
  PROVE  LET word == WordOfCard(f, c)
         IN  /\ DOMAIN word = WordCards(f, WordOf[c]) /\ c \in DOMAIN word
             /\ \A d \in DOMAIN word : d \in DOMAIN f.cards /\ word[d] = f.cards[d]
                                       /\ WordOf[d] = WordOf[c]
BY DEF WordOfCard, Word, WordCards

(* What a granted press meets: a word with no decision, or the decision.   *)
LEMMA PressMeets ==
  ASSUME NEW f, FactsInv(f), NEW c \in DOMAIN f.cards, NEW p, NEW now,
         NEW row \in Granted(f, c, p, now)
  PROVE  /\ Says(row)
         /\ f.cards[c].note \in row.notes
         /\ \A d \in DOMAIN f.cards :
                WordOf[d] = WordOf[c] /\ IsDecision(f.cards[d]) => d = c
<1> DEFINE word == WordOfCard(f, c)
<1>1. /\ DOMAIN word = WordCards(f, WordOf[c]) /\ c \in DOMAIN word
      /\ \A d \in DOMAIN word : word[d] = f.cards[d]
  BY WordHolds
<1>2. row \in PressRule(word, c, p, KnowledgeOfCard(f, c), now) /\ row.to # Refused
  BY DEF Granted, RowsOfPress
<1> HIDE DEF word
<1>3. row \in PressRows /\ row.role = RoleOf(word, word[c]) /\ word[c].note \in row.notes
  BY <1>2 DEF PressRule
<1>4. Says(row)
  BY <1>2, <1>3, PressSays
<1>5. ASSUME NEW d \in DOMAIN f.cards, WordOf[d] = WordOf[c], IsDecision(f.cards[d])
      PROVE  d = c
  <2>1. d \in DOMAIN word /\ IsDecision(word[d])
    BY <1>1, <1>5 DEF WordCards
  <2>2. Decided(word)
    BY <2>1 DEF Decided
  <2>3. IsDecision(word[c])
    BY <1>3, <1>4, <2>2 DEF Says, RoleOf
  <2> QED BY <1>1, <1>5, <2>3 DEF FactsInv, Sole
<1> QED BY <1>1, <1>3, <1>4, <1>5

(* The card of a press: what the row makes of it.                          *)
LEMMA PressedCard ==
  ASSUME NEW f, FactsOK(f), NEW c \in DOMAIN f.cards, NEW row, Says(row),
         NoteFits(f.cards[c]), f.cards[c].note \in row.notes
  PROVE  LET word == Pressed(WordOfCard(f, c), c, row)
         IN  /\ DOMAIN word = WordCards(f, WordOf[c])
             /\ \A d \in DOMAIN word : d # c => word[d] = f.cards[d]
             /\ word[c] \in CardFact /\ NoteFits(word[c])
             /\ word[c].choice = row.to
             /\ word[c].note \in {None, f.cards[c].note}
             /\ word[c].note # None => row.to = "known"
<1> DEFINE old == WordOfCard(f, c)
           word == Pressed(old, c, row)
           card == IF row.release THEN Unbound(row.to) ELSE [f.cards[c] EXCEPT !.choice = row.to]
<1>1. /\ DOMAIN old = WordCards(f, WordOf[c]) /\ c \in DOMAIN old
      /\ \A d \in DOMAIN old : old[d] = f.cards[d]
  BY WordHolds
<1>2. f.cards[c] \in CardFact
  BY FactsParts
<1>3. MaxTime \in Nat
  BY BoundsAssumption
<1>4. row.to \in Choices
  BY DEF Says
<1>5. /\ card \in CardFact /\ card.choice = row.to
      /\ card.note \in {None, f.cards[c].note}
      /\ card.note # None => ~ row.release
  BY <1>2, <1>3, <1>4 DEF CardFact, KindOrNone, Unbound, Blank, None
<1>6. card.note # None => row.to = "known"
  BY <1>5 DEF Says
<1>7. NoteFits(card)
  BY <1>5, <1>6 DEF NoteFits
<1>8. word = [old EXCEPT ![c] = card]
  BY <1>1 DEF Pressed
<1> HIDE DEF word, old, card
<1>9. /\ DOMAIN word = DOMAIN old /\ word[c] = card
      /\ \A d \in DOMAIN word : d # c => word[d] = old[d]
  BY <1>1, <1>8
<1> QED BY <1>1, <1>5, <1>6, <1>7, <1>9 DEF word, old

(* A press keeps the facts in order.                                       *)
LEMMA PressKeeps ==
  ASSUME NEW f, FactsInv(f), NEW c \in DOMAIN f.cards, NEW p, NEW now,
         NEW row \in Granted(f, c, p, now)
  PROVE  LET h == AfterPress(f, c, row, now)
         IN  WrittenFor(f, h, c) /\ h.hidden = f.hidden /\ DOMAIN h.cards = DOMAIN f.cards
<1> DEFINE word == Pressed(WordOfCard(f, c), c, row)
           g == WithWord(f, word)
           l == LemmaOfCard(c)
           before == StatusOf(WordOfCard(f, c), KnowledgeOfCard(f, c), now)
           after == DecisionStatus(word)
           h == AfterPress(f, c, row, now)
<1>1. /\ Says(row) /\ f.cards[c].note \in row.notes
      /\ \A d \in DOMAIN f.cards : WordOf[d] = WordOf[c] /\ IsDecision(f.cards[d]) => d = c
  BY PressMeets
<1>2. /\ FactsOK(f) /\ NoteFits(f.cards[c]) /\ c \in Cards /\ WordOf[c] \in Words
      /\ \A d \in DOMAIN f.cards : f.cards[d] \in CardFact
      /\ DOMAIN f.cards \subseteq Cards
  BY FactsParts, Given DEF FactsInv, NotesFit
<1>3. /\ DOMAIN word = WordCards(f, WordOf[c])
      /\ \A d \in DOMAIN word : d # c => word[d] = f.cards[d]
      /\ word[c] \in CardFact /\ NoteFits(word[c])
      /\ word[c].choice = row.to
      /\ word[c].note \in {None, f.cards[c].note}
      /\ word[c].note # None => row.to = "known"
  BY <1>1, <1>2, PressedCard
<1>4. h = WithEffects(f, g, WordOf[c], before, after, FALSE, now)
  BY DEF AfterPress
<1>5. l = LemmaOf[WordOf[c]]
  BY DEF LemmaOfCard
<1> HIDE DEF word, before, h, l
<1>6. /\ c \in DOMAIN word /\ DOMAIN word \subseteq DOMAIN f.cards
      /\ \A d \in DOMAIN word : WordOf[d] = WordOf[c] /\ LemmaOfCard(d) = l
      /\ \A d \in DOMAIN f.cards \ DOMAIN word : WordOf[d] # WordOf[c]
  BY <1>3, <1>5 DEF WordCards, LemmaOfCard
<1>7. /\ DOMAIN word \subseteq Cards
      /\ \A d \in DOMAIN word : word[d] \in CardFact
  BY <1>2, <1>3, <1>6
<1>8. /\ FactsOK(g)
      /\ DOMAIN g.cards = DOMAIN f.cards \cup DOMAIN word
      /\ \A d \in DOMAIN word : g.cards[d] = word[d]
      /\ \A d \in DOMAIN f.cards \ DOMAIN word : g.cards[d] = f.cards[d]
      /\ g.hidden = f.hidden /\ g.sources = f.sources /\ g.orphans = f.orphans
      /\ g.known = f.known /\ g.unknown = f.unknown
  BY <1>2, <1>7, WordWritten
<1> HIDE DEF g, after
<1>9. /\ DOMAIN g.cards = DOMAIN f.cards
      /\ g.cards[c] = word[c]
      /\ \A d \in DOMAIN f.cards : d # c => g.cards[d] = f.cards[d]
  BY <1>3, <1>6, <1>8
<1>10. Sole(g)
  <2>1. \A d \in DOMAIN g.cards : WordOf[d] = WordOf[c] /\ IsDecision(g.cards[d]) => d = c
    BY <1>1, <1>9
  <2> QED BY <1>9, <2>1 DEF FactsInv, Sole
<1>11. NotesFit(g)
  BY <1>3, <1>9 DEF FactsInv, NotesFit
<1>12. Housed(g)
  BY <1>8, <1>9 DEF FactsInv, Housed, Shown
<1>13. FactsOK(h) /\ Eased(g, h, l) /\ (after = "learn" => l \notin h.unknown)
  BY <1>2, <1>4, <1>5, <1>8, EffectsEase
<1>14. Apart(f, g, {l})
  BY <1>6, <1>8 DEF Apart
<1>15. l \in h.unknown => IdleLemma(g, l)
  <2> SUFFICES ASSUME l \in h.unknown PROVE IdleLemma(g, l)
    OBVIOUS
  <2>1. l \in f.unknown
    BY <1>8, <1>13 DEF Eased
  <2>2. IdleLemma(f, l)
    BY <2>1 DEF FactsInv, UnknownIdles
  <2>3. Idles(f.cards[c])
    BY <1>6, <2>2 DEF IdleLemma, CardsOfLemma
  <2>4. word[c].note = None
    BY <1>3, <2>3 DEF Idles
  <2>5. \A d \in DOMAIN word : IsDecision(word[d]) => d = c
    BY <1>1, <1>3, <1>6
  <2>6. word[c].choice \in Kinds => after = "learn"
    BY <1>6, <2>4, <2>5, LearnIs DEF after
  <2>7. Idles(g.cards[c])
    BY <1>9, <1>13, <2>4, <2>6 DEF Idles
  <2> QED BY <1>8, <1>9, <2>2, <2>7 DEF IdleLemma, CardsOfLemma
<1>16. UnknownIdles(h)
  BY <1>8, <1>13, <1>14, <1>15, ChangeIdles
<1>17. FactsInv(h)
  BY <1>10, <1>11, <1>12, <1>13, <1>16, EasedKeeps DEF FactsInv
<1>18. Apart(f, h, {l})
  BY <1>13, <1>14, EasedApart, ApartTwice
<1>19. NotesKept(f, h)
  BY <1>3, <1>9, <1>13 DEF NotesKept, Eased, Blank
<1> QED BY <1>8, <1>9, <1>13, <1>17, <1>18, <1>19 DEF WrittenFor, Eased, h, l

(* A card hidden.                                                          *)
LEMMA CardHidden ==
  ASSUME NEW g, FactsOK(g), NEW c \in DOMAIN g.cards
  PROVE  LET h == [g EXCEPT !.hidden = @ \cup {c}]
         IN  /\ FactsOK(h) /\ h.hidden = g.hidden \cup {c}
             /\ h.cards = g.cards /\ h.sources = g.sources /\ h.orphans = g.orphans
             /\ h.known = g.known /\ h.unknown = g.unknown
<1> DEFINE h == [g EXCEPT !.hidden = @ \cup {c}]
<1>1. h = [cards |-> g.cards, hidden |-> g.hidden \cup {c}, sources |-> g.sources,
           orphans |-> g.orphans, known |-> g.known, unknown |-> g.unknown]
  <2>1. h = [g EXCEPT !.hidden = g.hidden \cup {c}]
    OBVIOUS
  <2>2. g = [cards |-> g.cards, hidden |-> g.hidden, sources |-> g.sources,
             orphans |-> g.orphans, known |-> g.known, unknown |-> g.unknown]
    BY FactsAre
  <2> HIDE DEF h
  <2> QED BY <2>1, <2>2
<1> HIDE DEF h
<1>2. /\ DOMAIN g.cards \subseteq Cards /\ g.cards \in [DOMAIN g.cards -> CardFact]
      /\ g.hidden \cup {c} \subseteq DOMAIN g.cards /\ g.sources \subseteq Sources
      /\ g.orphans \subseteq OrphanFact
      /\ g.known \subseteq Lemmas /\ g.unknown \subseteq Lemmas
      /\ g.known \cap g.unknown = {}
  BY FactsParts
<1>3. FactsOK(h)
  BY <1>1, <1>2, FactsMade
<1> QED BY <1>1, <1>3 DEF h

(* A card with no note, of one choice or another.                          *)
LEMMA UnboundCard ==
  ASSUME NEW x \in Choices
  PROVE  /\ Unbound(x) \in CardFact /\ NoteFits(Unbound(x))
         /\ Unbound(x).choice = x /\ Unbound(x).note = None
<1>1. MaxTime \in Nat
  BY BoundsAssumption
<1> QED BY <1>1 DEF Unbound, Blank, CardFact, KindOrNone, None, NoteFits

(* A replacement keeps the facts in order; its card shows the word.        *)
LEMMA MoveKeeps ==
  ASSUME NEW f, FactsInv(f), NEW c \in Shown(f), NEW new \in Cards \ DOMAIN f.cards,
         WordOf[new] = WordOf[c], NEW now,
         NEW row \in MoveRule(f.cards[c], KnowledgeOfCard(f, c), now)
  PROVE  LET h == AfterMove(f, c, new, row, now)
         IN  /\ WrittenFor(f, h, c) /\ h.hidden = f.hidden \cup {c}
             /\ DOMAIN h.cards = DOMAIN f.cards \cup {new}
<1> DEFINE word == Moved(WordOfCard(f, c), c, new, row)
           v == WithWord(f, word)
           g == [v EXCEPT !.hidden = @ \cup {c}]
           l == LemmaOfCard(c)
           lk == KnowledgeOfCard(f, c)
           before == StatusOf(WordOfCard(f, c), lk, now)
           after == StatusOf(word, lk, now)
           marks == MarksKnown(f.cards[c], lk, now)
           h == AfterMove(f, c, new, row, now)
<1>1. /\ FactsOK(f) /\ c \in DOMAIN f.cards /\ c \in Cards /\ WordOf[c] \in Words
      /\ DOMAIN f.cards \subseteq Cards /\ f.hidden \subseteq DOMAIN f.cards
      /\ \A d \in DOMAIN f.cards : f.cards[d] \in CardFact
  BY FactsParts, Given DEF FactsInv, Shown
<1>2. /\ row.new \in Decisions \cup {None} /\ row.old \in {None, "skip"}
      /\ row.new # None => IsDecision(f.cards[c])
      /\ row.new \in Kinds => f.cards[c].choice = row.new
  <2>1. row \in MoveRows /\ f.cards[c].choice \in row.before
    BY DEF MoveRule
  <2> QED BY <2>1, MoveSays DEF IsDecision
<1>3. /\ row.new \in Choices /\ row.old \in Choices /\ row.old \notin Decisions
      /\ None \notin Decisions
  BY <1>2 DEF Choices, Presses, Decisions, Kinds, None
<1>4. /\ DOMAIN word = WordCards(f, WordOf[c]) \cup {new}
      /\ word[new] = Unbound(row.new) /\ word[c] = Unbound(row.old)
      /\ \A d \in WordCards(f, WordOf[c]) : d # c => word[d] = f.cards[d]
  <2>1. /\ DOMAIN WordOfCard(f, c) = WordCards(f, WordOf[c])
        /\ \A d \in WordCards(f, WordOf[c]) : WordOfCard(f, c)[d] = f.cards[d]
        /\ c \in WordCards(f, WordOf[c])
    BY <1>1, WordHolds
  <2>2. new \notin WordCards(f, WordOf[c])
    BY DEF WordCards
  <2> QED BY <2>1, <2>2 DEF Moved
<1>5. h = WithEffects(f, g, WordOf[c], before, after, marks, now)
  BY DEF AfterMove
<1>6. l = LemmaOf[WordOf[c]]
  BY DEF LemmaOfCard
<1> HIDE DEF word, before, after, marks, lk, h, l
<1>7. /\ c \in DOMAIN word /\ new \in DOMAIN word /\ DOMAIN word \subseteq DOMAIN f.cards \cup {new}
      /\ \A d \in DOMAIN word : WordOf[d] = WordOf[c] /\ LemmaOfCard(d) = l
      /\ \A d \in DOMAIN f.cards \ DOMAIN word : WordOf[d] # WordOf[c]
  BY <1>1, <1>4, <1>6 DEF WordCards, LemmaOfCard
<1>8. /\ DOMAIN word \subseteq Cards
      /\ \A d \in DOMAIN word : word[d] \in CardFact
  BY <1>1, <1>3, <1>4, <1>7, UnboundCard
<1>9. /\ FactsOK(v)
      /\ DOMAIN v.cards = DOMAIN f.cards \cup DOMAIN word
      /\ \A d \in DOMAIN word : v.cards[d] = word[d]
      /\ \A d \in DOMAIN f.cards \ DOMAIN word : v.cards[d] = f.cards[d]
      /\ v.hidden = f.hidden /\ v.sources = f.sources /\ v.orphans = f.orphans
      /\ v.known = f.known /\ v.unknown = f.unknown
  BY <1>1, <1>8, WordWritten
<1> HIDE DEF v
<1>10. /\ FactsOK(g) /\ g.hidden = f.hidden \cup {c}
       /\ g.cards = v.cards /\ g.sources = f.sources /\ g.orphans = f.orphans
       /\ g.known = f.known /\ g.unknown = f.unknown
  <2>1. c \in DOMAIN v.cards
    BY <1>1, <1>9
  <2> QED BY <1>9, <2>1, CardHidden
<1> HIDE DEF g
<1>11. /\ DOMAIN g.cards = DOMAIN f.cards \cup {new}
       /\ g.cards[c] = Unbound(row.old) /\ g.cards[new] = Unbound(row.new)
       /\ \A d \in DOMAIN f.cards : d # c => g.cards[d] = f.cards[d]
  BY <1>1, <1>4, <1>7, <1>9, <1>10
<1>12. /\ NoteFits(g.cards[c]) /\ NoteFits(g.cards[new])
       /\ ~ IsDecision(g.cards[c])
       /\ IsDecision(g.cards[new]) => IsDecision(f.cards[c])
  BY <1>2, <1>3, <1>11, UnboundCard DEF IsDecision
<1>13. Sole(g)
  <2> SUFFICES ASSUME NEW d \in DOMAIN g.cards, NEW e \in DOMAIN g.cards,
                      WordOf[d] = WordOf[e], IsDecision(g.cards[d]), IsDecision(g.cards[e])
               PROVE  d = e
    BY DEF Sole
  <2>1. CASE d # new /\ e # new
    BY <1>11, <1>12, <2>1 DEF FactsInv, Sole
  <2>2. CASE d = new \/ e = new
    <3>1. IsDecision(f.cards[c])
      BY <1>12, <2>2
    <3>2. \A x \in DOMAIN f.cards : WordOf[x] = WordOf[c] /\ IsDecision(f.cards[x]) => x = c
      BY <1>1, <3>1 DEF FactsInv, Sole
    <3>3. \A x \in DOMAIN g.cards : WordOf[x] = WordOf[c] /\ IsDecision(g.cards[x]) => x = new
      BY <1>11, <1>12, <3>2
    <3> QED BY <2>2, <3>3
  <2> QED BY <2>1, <2>2
<1>14. NotesFit(g)
  BY <1>11, <1>12 DEF FactsInv, NotesFit
<1>15. Housed(g)
  <2>1. new \in Shown(g)
    BY <1>1, <1>10, <1>11 DEF Shown
  <2>2. ASSUME NEW d \in DOMAIN g.cards
        PROVE  SourceOf[WordOf[d]] \in g.sources /\ \E e \in Shown(g) : WordOf[e] = WordOf[d]
    <3>1. SourceOf[WordOf[d]] \in g.sources
      BY <1>1, <1>10, <1>11 DEF FactsInv, Housed
    <3>2. CASE WordOf[d] = WordOf[c]
      BY <2>1, <3>1, <3>2
    <3>3. CASE WordOf[d] # WordOf[c]
      <4>1. PICK e \in Shown(f) : WordOf[e] = WordOf[d]
        BY <1>11, <3>3 DEF FactsInv, Housed
      <4>2. e \in Shown(g)
        BY <1>10, <1>11, <3>3, <4>1 DEF Shown
      <4> QED BY <3>1, <4>1, <4>2
    <3> QED BY <3>2, <3>3
  <2> QED BY <2>2 DEF Housed
<1>16. FactsOK(h) /\ Eased(g, h, l)
  BY <1>1, <1>5, <1>6, <1>10, EffectsEase
<1>17. Apart(f, g, {l})
  BY <1>1, <1>7, <1>10, <1>11 DEF Apart
<1>18. l \in h.unknown => IdleLemma(g, l)
  <2> SUFFICES ASSUME l \in h.unknown PROVE IdleLemma(g, l)
    OBVIOUS
  <2>1. l \in f.unknown
    BY <1>10, <1>16 DEF Eased
  <2>2. IdleLemma(f, l)
    BY <2>1 DEF FactsInv, UnknownIdles
  <2>3. Idles(f.cards[c])
    BY <1>1, <1>7, <2>2 DEF IdleLemma, CardsOfLemma
  <2>4. row.new \notin Kinds /\ row.old \notin Kinds
    BY <1>2, <1>3, <2>3 DEF Idles, Decisions
  <2>5. Idles(g.cards[c]) /\ Idles(g.cards[new])
    BY <1>3, <1>11, <2>4, UnboundCard DEF Idles
  <2> QED BY <1>10, <1>11, <2>2, <2>5 DEF IdleLemma, CardsOfLemma
<1>19. UnknownIdles(h)
  BY <1>10, <1>16, <1>17, <1>18, ChangeIdles
<1>20. FactsInv(h)
  BY <1>13, <1>14, <1>15, <1>16, <1>19, EasedKeeps DEF FactsInv
<1>21. Apart(f, h, {l})
  BY <1>16, <1>17, EasedApart, ApartTwice
<1>22. NotesKept(f, h)
  <2>1. \A d \in DOMAIN f.cards : g.cards[d].note \in {None, f.cards[d].note}
    BY <1>3, <1>11, UnboundCard
  <2> QED BY <1>11, <1>16, <2>1 DEF NotesKept, Eased, Blank
<1> QED BY <1>10, <1>11, <1>16, <1>20, <1>21, <1>22 DEF WrittenFor, Eased, h, l

(* A write of the lists: only marks, notes and decisions of ls.            *)
WrittenTo(f, h, ls) ==
    /\ FactsInv(h) /\ Apart(f, h, ls)
    /\ h.hidden = f.hidden /\ h.sources = f.sources /\ DOMAIN h.cards = DOMAIN f.cards

(* Marks and the removal of Known are writes of the lists.                 *)
LEMMA ListsWritten ==
  ASSUME NEW f, FactsInv(f)
  PROVE  /\ \A ls \in SUBSET Lemmas :
                /\ FactsInv(MarkKnown(f, ls))
                /\ WrittenTo(f, MarkKnown(f, ls), ls \ f.known)
         /\ \A l \in Lemmas : WrittenTo(f, ForgetUnknown(f, l), {l})
         /\ \A l \in Lemmas : \A lk, now : WrittenTo(f, KnownRemoved(f, l, lk, now, {}), {l})
<1>0. FactsOK(f) /\ f.known \cap f.unknown = {}
  BY FactsParts DEF FactsInv
<1>1. ASSUME NEW ls \in SUBSET Lemmas
      PROVE  FactsInv(MarkKnown(f, ls)) /\ WrittenTo(f, MarkKnown(f, ls), ls \ f.known)
  <2> DEFINE h == MarkKnown(f, ls)
  <2>1. /\ FactsOK(h)
        /\ h.known = f.known \cup ls /\ h.unknown = f.unknown \ ls
        /\ h.cards = f.cards /\ h.hidden = f.hidden
        /\ h.sources = f.sources /\ h.orphans = f.orphans
    BY <1>0, MarkedKnown
  <2> HIDE DEF h
  <2>2. FactsInv(h)
    BY <2>1 DEF FactsInv, Sole, NotesFit, UnknownIdles, IdleLemma, CardsOfLemma, Housed, Shown
  <2>3. Apart(f, h, ls \ f.known)
    BY <1>0, <2>1 DEF Apart
  <2> QED BY <2>1, <2>2, <2>3 DEF WrittenTo, h
<1>2. ASSUME NEW l \in Lemmas PROVE WrittenTo(f, ForgetUnknown(f, l), {l})
  <2> DEFINE h == ForgetUnknown(f, l)
  <2>1. /\ FactsOK(h)
        /\ h.unknown = f.unknown \ {l} /\ h.known = f.known
        /\ h.cards = f.cards /\ h.hidden = f.hidden
        /\ h.sources = f.sources /\ h.orphans = f.orphans
    BY <1>0, ForgottenUnknown
  <2> HIDE DEF h
  <2>2. FactsInv(h)
    BY <2>1 DEF FactsInv, Sole, NotesFit, UnknownIdles, IdleLemma, CardsOfLemma, Housed, Shown
  <2>3. Apart(f, h, {l})
    BY <2>1 DEF Apart
  <2> QED BY <2>1, <2>2, <2>3 DEF WrittenTo, h
<1>3. ASSUME NEW l \in Lemmas, NEW lk, NEW now
      PROVE  WrittenTo(f, KnownRemoved(f, l, lk, now, {}), {l})
  <2> DEFINE h == KnownRemoved(f, l, lk, now, {})
  <2>1. /\ FactsOK(h) /\ h.unknown = f.unknown /\ h.known = f.known \ {l}
        /\ h.hidden = f.hidden /\ h.sources = f.sources
        /\ h.orphans = {o \in f.orphans : o.lemma # l \/ ~ OrphanReleased(o, now)}
        /\ DOMAIN h.cards = DOMAIN f.cards
        /\ \A c \in DOMAIN f.cards :
               IF WordOf[c] \in Revoking(f, l, lk, now, {}) /\ IsDecision(f.cards[c])
               THEN h.cards[c] = Blank ELSE h.cards[c] = f.cards[c]
    BY <1>0, RemovedKnown
  <2> HIDE DEF h
  <2>2. \A c \in DOMAIN f.cards :
            WordOf[c] \in Revoking(f, l, lk, now, {}) => LemmaOfCard(c) = l
    BY DEF Revoking, WordsOfLemma, LemmaOfCard
  <2>3. Eased(f, h, l)
    BY <2>1, <2>2 DEF Eased
  <2>4. FactsInv(h) /\ Apart(f, h, {l})
    BY <2>1, <2>3, EasedInv, EasedApart
  <2> QED BY <2>1, <2>4 DEF WrittenTo, h
<1> QED BY <1>1, <1>2, <1>3

(* A lemma marked Unknown, that nothing else stands for.                   *)
LEMMA UnknownMarked ==
  ASSUME NEW f, FactsInv(f), NEW l \in Lemmas, NEW now,
         UnknownMark(Knowledge(f, l), now) = "mark"
  PROVE  WrittenTo(f, [f EXCEPT !.unknown = @ \cup {l}], {l})
<1> DEFINE h == [f EXCEPT !.unknown = @ \cup {l}]
           lk == Knowledge(f, l)
<1>0. FactsOK(f)
  BY DEF FactsInv
<1>1. Elsewhere(lk, now) = None
  BY DEF UnknownMark
<1>2. ~ lk.listed /\ lk.since = {} /\ ~ lk.awaiting
  <2> HIDE DEF lk
  <2> QED BY <1>1 DEF Elsewhere, IsKnown, None
<1>3. l \notin f.known
  BY <1>2 DEF Knowledge
<1>4. IdleLemma(f, l)
  <2> DEFINE bound == BoundCards(f, l)
             left == {p \in f.orphans : p.lemma = l}
  <2>0. lk.since = {f.cards[c].since : c \in bound} \cup {o.since : o \in left}
    BY DEF Knowledge
  <2>1. bound = {} /\ left = {}
    <3> HIDE DEF bound, left, lk
    <3> QED BY <1>2, <2>0
  <2>2. \A c \in CardsOfLemma(f, l) : ~ AwaitsExport(f.cards[c])
    BY <1>2 DEF Knowledge
  <2> QED BY <2>1, <2>2 DEF IdleLemma, BoundCards, Idles, AwaitsExport
<1>5. h = [cards |-> f.cards, hidden |-> f.hidden, sources |-> f.sources,
           orphans |-> f.orphans, known |-> f.known, unknown |-> f.unknown \cup {l}]
  <2>1. h = [f EXCEPT !.unknown = f.unknown \cup {l}]
    OBVIOUS
  <2>2. f = [cards |-> f.cards, hidden |-> f.hidden, sources |-> f.sources,
             orphans |-> f.orphans, known |-> f.known, unknown |-> f.unknown]
    BY <1>0, FactsAre
  <2> HIDE DEF h
  <2> QED BY <2>1, <2>2
<1> HIDE DEF h
<1>6. /\ DOMAIN f.cards \subseteq Cards /\ f.cards \in [DOMAIN f.cards -> CardFact]
      /\ f.hidden \subseteq DOMAIN f.cards /\ f.sources \subseteq Sources
      /\ f.orphans \subseteq OrphanFact
      /\ f.known \subseteq Lemmas /\ f.unknown \cup {l} \subseteq Lemmas
      /\ f.known \cap (f.unknown \cup {l}) = {}
  BY <1>0, <1>3, FactsParts
<1>7. FactsOK(h)
  BY <1>5, <1>6, FactsMade
<1>8. FactsInv(h)
  BY <1>4, <1>5, <1>7 DEF FactsInv, Sole, NotesFit, UnknownIdles, IdleLemma, CardsOfLemma,
                          Housed, Shown
<1>9. Apart(f, h, {l})
  BY <1>5 DEF Apart
<1> QED BY <1>5, <1>8, <1>9 DEF WrittenTo, h

(* A word reported unknown.                                                *)
LEMMA UnknownKeeps ==
  ASSUME NEW f, FactsInv(f), NEW l \in Lemmas, NEW now
  PROVE  WrittenTo(f, AfterUnknown(f, l, now), {l})
<1> DEFINE left == IF UnknownMark(Knowledge(f, l), now) = "remove_known_first"
                   THEN KnownRemoved(f, l, Knowledge(f, l), now, {}) ELSE f
           h == AfterUnknown(f, l, now)
<1>1. h = IF UnknownMark(Knowledge(left, l), now) = "mark"
          THEN [left EXCEPT !.unknown = @ \cup {l}] ELSE left
  BY DEF AfterUnknown
<1>2. WrittenTo(f, left, {l})
  <2>1. WrittenTo(f, f, {l})
    BY DEF WrittenTo, Apart
  <2> QED BY <2>1, ListsWritten
<1> HIDE DEF left, h
<1>3. WrittenTo(left, h, {l})
  <2>1. FactsInv(left)
    BY <1>2 DEF WrittenTo
  <2>2. CASE UnknownMark(Knowledge(left, l), now) = "mark"
    BY <1>1, <2>1, <2>2, UnknownMarked
  <2>3. CASE UnknownMark(Knowledge(left, l), now) # "mark"
    BY <1>1, <2>1, <2>3 DEF WrittenTo, Apart
  <2> QED BY <2>2, <2>3
<1>4. WrittenTo(f, h, {l})
  BY <1>2, <1>3, ApartTwice DEF WrittenTo
<1> QED BY <1>4 DEF h

LemmasOfSource(f, s) == {LemmaOf[w] : w \in {v \in LiveWords(f) : SourceOf[v] = s}}

(* A source deleted: its cards go, its notes stay as orphans.              *)
LEMMA SourceKeeps ==
  ASSUME NEW f, FactsInv(f), NEW s
  PROVE  LET h == WithoutSource(f, s)
         IN  /\ FactsInv(h) /\ Apart(f, h, LemmasOfSource(f, s))
             /\ h.sources = f.sources \ {s}
             /\ DOMAIN h.cards = {c \in DOMAIN f.cards : SourceOf[WordOf[c]] # s}
             /\ h.hidden = {c \in f.hidden : SourceOf[WordOf[c]] # s}
             /\ \A c \in DOMAIN h.cards : h.cards[c] = f.cards[c]
<1> DEFINE gone == {c \in DOMAIN f.cards : SourceOf[WordOf[c]] = s}
           cards == [c \in DOMAIN f.cards \ gone |-> f.cards[c]]
           left == {Orphan(f, c) : c \in {d \in gone : f.cards[d].note # None}}
           h == WithoutSource(f, s)
<1>0. /\ FactsOK(f) /\ DOMAIN f.cards \subseteq Cards
      /\ f.hidden \subseteq DOMAIN f.cards
      /\ \A c \in DOMAIN f.cards : f.cards[c] \in CardFact
  BY FactsParts DEF FactsInv
<1>1. h = [cards |-> cards, hidden |-> f.hidden \ gone, sources |-> f.sources \ {s},
           orphans |-> f.orphans \cup left, known |-> f.known, unknown |-> f.unknown]
  <2>1. h = [f EXCEPT !.cards = cards, !.hidden = f.hidden \ gone,
                      !.sources = f.sources \ {s}, !.orphans = f.orphans \cup left]
    BY DEF WithoutSource
  <2>2. f = [cards |-> f.cards, hidden |-> f.hidden, sources |-> f.sources,
             orphans |-> f.orphans, known |-> f.known, unknown |-> f.unknown]
    BY <1>0, FactsAre
  <2> HIDE DEF h, cards, left, gone
  <2> QED BY <2>1, <2>2
<1> HIDE DEF h
<1>2. \A c \in DOMAIN f.cards : f.cards[c].note # None => Orphan(f, c) \in OrphanFact
  <2> SUFFICES ASSUME NEW c \in DOMAIN f.cards, f.cards[c].note # None
               PROVE  Orphan(f, c) \in OrphanFact
    OBVIOUS
  <2>1. /\ f.cards[c].note \in Kinds /\ f.cards[c].since \in 0 .. MaxTime
        /\ LemmaOfCard(c) \in Lemmas
    BY <1>0, Given DEF CardFact, KindOrNone
  <2>2. (IF IsDecision(f.cards[c]) THEN f.cards[c].choice ELSE f.cards[c].note) \in Decisions
    BY <2>1 DEF IsDecision, Decisions
  <2> QED BY <2>1, <2>2 DEF Orphan, OrphanFact
<1>3. left \subseteq OrphanFact
  BY <1>2
<1>4. \A o \in left : \E c \in gone : o.lemma = LemmaOfCard(c) /\ f.cards[c].note # None
  BY DEF Orphan
<1>5. /\ DOMAIN cards = {c \in DOMAIN f.cards : SourceOf[WordOf[c]] # s}
      /\ \A c \in DOMAIN cards : cards[c] = f.cards[c]
      /\ f.hidden \ gone = {c \in f.hidden : SourceOf[WordOf[c]] # s}
  BY <1>0
<1>6. \A c \in gone : LemmaOfCard(c) \in LemmasOfSource(f, s)
  BY <1>0, Given DEF FactsInv, Housed, LemmasOfSource, LiveWords, LemmaOfCard
<1>7. \A c \in DOMAIN f.cards : c \notin gone => c \in DOMAIN cards
  OBVIOUS
<1>8. \A c \in gone : c \in DOMAIN f.cards
  OBVIOUS
<1> HIDE DEF left, cards, gone
<1>9. cards \in [DOMAIN cards -> CardFact]
  <2>1. \A c \in DOMAIN cards : cards[c] \in CardFact
    BY <1>0, <1>5
  <2>2. cards = [c \in DOMAIN cards |-> cards[c]]
    BY DEF cards
  <2> QED BY <2>1, <2>2
<1>10. /\ DOMAIN cards \subseteq Cards
       /\ f.hidden \ gone \subseteq DOMAIN cards /\ f.sources \ {s} \subseteq Sources
       /\ f.orphans \cup left \subseteq OrphanFact
       /\ f.known \subseteq Lemmas /\ f.unknown \subseteq Lemmas
       /\ f.known \cap f.unknown = {}
  BY <1>0, <1>3, <1>5, FactsParts
<1>11. FactsOK(h)
  BY <1>1, <1>9, <1>10, FactsMade
<1>12. Sole(h)
  BY <1>1, <1>5 DEF FactsInv, Sole
<1>13. NotesFit(h)
  BY <1>1, <1>5 DEF FactsInv, NotesFit
<1>14. Housed(h)
  <2> SUFFICES ASSUME NEW c \in DOMAIN h.cards
               PROVE  /\ SourceOf[WordOf[c]] \in h.sources
                      /\ \E d \in Shown(h) : WordOf[d] = WordOf[c]
    BY DEF Housed
  <2>1. c \in DOMAIN f.cards /\ SourceOf[WordOf[c]] # s
    BY <1>1, <1>5
  <2>2. PICK d \in Shown(f) : WordOf[d] = WordOf[c]
    BY <2>1 DEF FactsInv, Housed
  <2>3. d \in DOMAIN f.cards /\ SourceOf[WordOf[d]] # s /\ d \notin f.hidden
    BY <2>1, <2>2 DEF Shown
  <2>4. d \in Shown(h)
    BY <1>1, <1>5, <2>3 DEF Shown
  <2>5. SourceOf[WordOf[c]] \in h.sources
    BY <1>1, <2>1 DEF FactsInv, Housed
  <2> QED BY <2>2, <2>4, <2>5
<1>15. UnknownIdles(h)
  <2> SUFFICES ASSUME NEW l \in h.unknown PROVE IdleLemma(h, l)
    BY DEF UnknownIdles
  <2>1. IdleLemma(f, l)
    BY <1>1 DEF FactsInv, UnknownIdles
  <2>2. \A o \in left : o.lemma # l
    BY <1>4, <1>8, <2>1 DEF IdleLemma, Idles, CardsOfLemma
  <2> QED BY <1>1, <1>5, <2>1, <2>2 DEF IdleLemma, CardsOfLemma
<1>16. Apart(f, h, LemmasOfSource(f, s))
  BY <1>1, <1>4, <1>5, <1>6, <1>7 DEF Apart
<1> QED BY <1>1, <1>5, <1>11, <1>12, <1>13, <1>14, <1>15, <1>16 DEF FactsInv, h

(* A card with its note.                                                   *)
LEMMA NotedCard ==
  ASSUME NEW card \in CardFact, card.choice \in Kinds, NEW now \in 0 .. MaxTime
  PROVE  LET noted == [card EXCEPT !.note = card.choice, !.since = now]
         IN  /\ noted \in CardFact /\ noted.choice = card.choice
             /\ noted.note = card.choice
BY DEF CardFact, KindOrNone

(* Of the cards of f the bound ones have in h the note of their choice.    *)
BoundAs(f, h, bound) ==
    \A c \in DOMAIN f.cards :
        /\ c \in bound => h.cards[c].note = f.cards[c].choice
        /\ c \notin bound => h.cards[c] = f.cards[c]

(* An export binds decided cards to their notes.                           *)
LEMMA ExportKeeps ==
  ASSUME NEW f, FactsInv(f), NEW bound \in SUBSET DOMAIN f.cards, NEW now \in 0 .. MaxTime,
         \A c \in bound : MayBind(WordOfCard(f, c), c, KnowledgeOfCard(f, c), now)
  PROVE  LET h == AfterExport(f, bound, now)
         IN  /\ WrittenTo(f, h, {LemmaOfCard(c) : c \in bound})
             /\ BoundAs(f, h, bound)
<1> DEFINE cards == [c \in DOMAIN f.cards |->
                        IF c \in bound THEN Bound(WordOfCard(f, c), c, now)[c] ELSE f.cards[c]]
           h == AfterExport(f, bound, now)
<1>0. /\ FactsOK(f) /\ DOMAIN f.cards \subseteq Cards
      /\ \A c \in DOMAIN f.cards : f.cards[c] \in CardFact
  BY FactsParts DEF FactsInv
<1>1. h = [cards |-> cards, hidden |-> f.hidden, sources |-> f.sources,
           orphans |-> f.orphans, known |-> f.known, unknown |-> f.unknown]
  <2>1. h = [f EXCEPT !.cards = cards]
    BY DEF AfterExport
  <2>2. f = [cards |-> f.cards, hidden |-> f.hidden, sources |-> f.sources,
             orphans |-> f.orphans, known |-> f.known, unknown |-> f.unknown]
    BY <1>0, FactsAre
  <2> HIDE DEF h, cards
  <2> QED BY <2>1, <2>2
<1> HIDE DEF h
<1>2. ASSUME NEW c \in bound
      PROVE  /\ cards[c] \in CardFact /\ cards[c].choice = f.cards[c].choice
             /\ cards[c].note = f.cards[c].choice
             /\ f.cards[c].choice \in Kinds /\ f.cards[c].note = None
  <2> DEFINE word == WordOfCard(f, c)
  <2>1. c \in DOMAIN word /\ word[c] = f.cards[c]
    BY WordHolds
  <2>2. MayBind(word, c, KnowledgeOfCard(f, c), now)
    OBVIOUS
  <2>3. cards[c] = Bound(word, c, now)[c]
    OBVIOUS
  <2> HIDE DEF word, cards
  <2>4. f.cards[c].choice \in Kinds /\ f.cards[c].note = None
    BY <2>1, <2>2 DEF MayBind
  <2>5. Bound(word, c, now)[c] = [f.cards[c] EXCEPT !.note = f.cards[c].choice, !.since = now]
    BY <2>1 DEF Bound
  <2>6. f.cards[c] \in CardFact
    BY <1>0
  <2> DEFINE noted == [f.cards[c] EXCEPT !.note = f.cards[c].choice, !.since = now]
  <2>7. /\ noted \in CardFact /\ noted.choice = f.cards[c].choice
        /\ noted.note = f.cards[c].choice
    BY <2>4, <2>6, NotedCard
  <2>8. cards[c] = noted
    BY <2>3, <2>5
  <2> HIDE DEF noted
  <2> QED BY <2>4, <2>7, <2>8
<1>3. /\ DOMAIN cards = DOMAIN f.cards
      /\ \A c \in DOMAIN f.cards \ bound : cards[c] = f.cards[c]
  OBVIOUS
<1>4. \A c \in DOMAIN f.cards : cards[c] \in CardFact /\ cards[c].choice = f.cards[c].choice
  BY <1>0, <1>2, <1>3
<1>5. cards \in [DOMAIN cards -> CardFact]
  <2>1. \A c \in DOMAIN cards : cards[c] \in CardFact
    BY <1>3, <1>4
  <2>2. cards = [c \in DOMAIN cards |-> cards[c]]
    OBVIOUS
  <2> HIDE DEF cards
  <2> QED BY <2>1, <2>2
<1> HIDE DEF cards
<1>6. /\ DOMAIN cards \subseteq Cards
      /\ f.hidden \subseteq DOMAIN cards /\ f.sources \subseteq Sources
      /\ f.orphans \subseteq OrphanFact
      /\ f.known \subseteq Lemmas /\ f.unknown \subseteq Lemmas
      /\ f.known \cap f.unknown = {}
  BY <1>0, <1>3, FactsParts
<1>7. FactsOK(h)
  BY <1>1, <1>5, <1>6, FactsMade
<1>8. Sole(h)
  BY <1>1, <1>3, <1>4 DEF FactsInv, Sole, IsDecision
<1>9. NotesFit(h)
  <2>1. \A c \in bound : NoteFits(cards[c])
    BY <1>2 DEF NoteFits
  <2>2. \A c \in DOMAIN f.cards : NoteFits(cards[c])
    BY <1>3, <2>1 DEF FactsInv, NotesFit
  <2> QED BY <1>1, <1>3, <2>2 DEF NotesFit
<1>10. Housed(h)
  BY <1>1, <1>3 DEF FactsInv, Housed, Shown
<1>11. UnknownIdles(h)
  <2> SUFFICES ASSUME NEW l \in h.unknown PROVE IdleLemma(h, l)
    BY DEF UnknownIdles
  <2>1. IdleLemma(f, l)
    BY <1>1 DEF FactsInv, UnknownIdles
  <2>2. \A c \in CardsOfLemma(f, l) : c \notin bound
    BY <1>2, <2>1 DEF IdleLemma, Idles
  <2> QED BY <1>1, <1>3, <2>1, <2>2 DEF IdleLemma, CardsOfLemma
<1>12. Apart(f, h, {LemmaOfCard(c) : c \in bound})
  BY <1>1, <1>3 DEF Apart
<1>13. WrittenTo(f, h, {LemmaOfCard(c) : c \in bound})
  BY <1>1, <1>3, <1>7, <1>8, <1>9, <1>10, <1>11, <1>12 DEF FactsInv, WrittenTo
<1> QED BY <1>1, <1>2, <1>3, <1>13 DEF h, BoundAs

-----------------------------------------------------------------------------
(* When a lemma changes by its timer.                                      *)

(* The moments of the notes of a lemma.                                    *)
LEMMA SinceIsTime ==
  ASSUME NEW f, FactsOK(f), NEW l
  PROVE  Knowledge(f, l).since \subseteq 0 .. MaxTime
<1>1. \A c \in BoundCards(f, l) : f.cards[c].since \in 0 .. MaxTime
  BY FactsParts DEF BoundCards, CardsOfLemma, CardFact
<1>2. \A o \in f.orphans : o.since \in 0 .. MaxTime
  <2>1. \A o \in f.orphans : o \in OrphanFact
    BY FactsParts
  <2> QED BY <2>1 DEF OrphanFact
<1> QED BY <1>1, <1>2 DEF Knowledge

(* The oldest note.                                                        *)
LEMMA OldestIs ==
  ASSUME NEW S, S \subseteq Nat, S # {}
  PROVE  LET oldest == CHOOSE s \in S : \A o \in S : s <= o
         IN  oldest \in S /\ \A o \in S : oldest <= o
<1>1. PICK s \in S : \A y \in S : ~ (<<y, s>> \in OpToRel(<, Nat))
  BY NatLessThanWellFounded, WFMin
<1>2. OpToRel(<, Nat) = {ss \in Nat \X Nat : ss[1] < ss[2]}
  BY Zenon DEF OpToRel
<1>3. ASSUME NEW o \in S PROVE s <= o
  <2>1. o \in Nat /\ s \in Nat
    OBVIOUS
  <2>2. <<o, s>> \in Nat \X Nat /\ <<o, s>>[1] = o /\ <<o, s>>[2] = s
    BY <2>1
  <2>3. o < s => <<o, s>> \in {ss \in Nat \X Nat : ss[1] < ss[2]}
    BY <2>2
  <2>4. ~ (o < s)
    BY <1>1, <1>2, <2>3, Zenon
  <2> QED BY <2>1, <2>4
<1> QED BY <1>3


(* When a lemma changes is a moment, if it is to change.                   *)
LEMMA ChangesIsTime ==
  ASSUME NEW f, FactsOK(f), NEW l, NEW now
  PROVE  ChangesAt(Knowledge(f, l), now) \in Nat
<1> DEFINE lk == Knowledge(f, l)
           oldest == CHOOSE s \in lk.since : \A o \in lk.since : s <= o
<1>1. MaxTime \in Nat /\ Timer \in Nat \ {0}
  BY BoundsAssumption, TimerAssumption
<1>2. lk.since \subseteq 0 .. MaxTime
  BY SinceIsTime
<1>3. lk.since \subseteq Nat
  BY <1>1, <1>2
<1> HIDE DEF lk
<1>4. CASE lk.since # {} /\ ~ AnyDue(lk, now)
  <2>1. oldest \in lk.since
    BY <1>3, <1>4, OldestIs
  <2>2. ChangesAt(lk, now) = oldest + Timer
    BY <1>4 DEF ChangesAt
  <2> HIDE DEF oldest
  <2> QED BY <1>1, <1>3, <2>1, <2>2 DEF lk
<1>5. CASE lk.since = {} \/ AnyDue(lk, now)
  <2>1. ChangesAt(lk, now) = Never
    BY <1>5 DEF ChangesAt
  <2> QED BY <2>1 DEF Never, lk
<1> QED BY <1>4, <1>5

-----------------------------------------------------------------------------
(* The projection of a write.                                              *)

(* The rows are of the cards shown and of the words there are.             *)
RowsOf(r, f) ==
    /\ DOMAIN r = {"cards", "words"} /\ DOMAIN r.cards = Shown(f) /\ DOMAIN r.words = LiveWords(f)
    /\ r.words = [w \in LiveWords(f) |-> r.words[w]]
    /\ \A c \in Shown(f) : r.cards[c].status.changes \in Nat

(* Changes that name what the write from f to h changed.                   *)
Names(ch, f, h) ==
    /\ Apart(f, h, ch.lemmas)
    /\ \A w \in ch.words : LemmaOf[w] \in ch.lemmas
    /\ \A c \in Shown(f) \ Shown(h) : WordOf[c] \in ch.words
    /\ \A c \in Shown(h) \ Shown(f) : WordOf[c] \in ch.words
    /\ LiveWords(h) \subseteq LiveWords(f)
    /\ \A w \in LiveWords(f) \ LiveWords(h) : w \in ch.words

(* What the projection says of a card and of a word.                       *)
CardProjected(r, new, h, ch, c, now) ==
    /\ LemmaOfCard(c) \in ch.lemmas => new.cards[c].status = StatusValues(h, c, now)
    /\ LemmaOfCard(c) \notin ch.lemmas =>
          c \in DOMAIN r.cards /\ new.cards[c].status = r.cards[c].status
    /\ \A l \in Holds[c] :
          new.cards[c].newness[l] =
              IF l \in ch.lemmas \/ c \in ReadAnew(ch) \/ c \notin DOMAIN r.cards
              THEN Newness(h, l, now) ELSE r.cards[c].newness[l]

WordProjected(r, new, h, ch, w) ==
    new.words[w] = IF w \in ch.words \/ LemmaOf[w] \in ch.lemmas
                   THEN DecisionStatus(Word(h, w)) ELSE r.words[w]

(* The rows of a write are those of its cards and words, anew where its    *)
(* changes reach.                                                          *)
LEMMA RowsProjected ==
  ASSUME NEW f, NEW h, FactsOK(f), FactsOK(h), NEW ch, Names(ch, f, h), NEW r, RowsOf(r, f),
         NEW now
  PROVE  LET new == Projected(r, h, ch, now)
         IN  /\ RowsOf(new, h)
             /\ \A c \in Shown(h) : CardProjected(r, new, h, ch, c, now)
             /\ \A w \in LiveWords(h) : WordProjected(r, new, h, ch, w)
<1> DEFINE reached == ((ReadAnew(ch) \cap Shown(h)) \cup Own(h, ch) \cup Holding(r, h, ch))
           kept == DOMAIN r.cards \ (ReadAnew(ch) \ Shown(h))
           words == {w \in LiveWords(h) : w \in ch.words \/ LemmaOf[w] \in ch.lemmas}
           newcards == [c \in kept \cup reached |->
                IF c \in reached
                THEN IF c \in ReadAnew(ch) \/ c \notin DOMAIN r.cards
                     THEN RowOf(h, c, now) ELSE Partly(h, c, r.cards[c], ch, now)
                ELSE r.cards[c]]
           newwords == [w \in (DOMAIN r.words \ ch.words) \cup words |->
                IF w \in words THEN DecisionStatus(Word(h, w)) ELSE r.words[w]]
           new == Projected(r, h, ch, now)
<1>1. new = [r EXCEPT !.cards = newcards, !.words = newwords]
  BY DEF Projected
<1> HIDE DEF newcards, newwords, new
<1>2. DOMAIN new = {"cards", "words"} /\ new.cards = newcards /\ new.words = newwords
  BY <1>1 DEF RowsOf
<1>3. Shown(f) \subseteq Cards /\ Shown(h) \subseteq Cards
  BY FactsParts DEF Shown
<1>4. DOMAIN newcards = kept \cup reached /\ kept \cup reached = Shown(h)
  <2>1. DOMAIN newcards = kept \cup reached
    BY DEF newcards
  <2>2. kept \cup reached \subseteq Shown(h)
    BY <1>3 DEF RowsOf, Names, ReadAnew, Own, Holding
  <2>3. Shown(h) \subseteq kept \cup reached
    BY <1>3 DEF RowsOf, Names, ReadAnew
  <2> QED BY <2>1, <2>2, <2>3
<1>5. DOMAIN newwords = LiveWords(h)
  <2>1. DOMAIN newwords = (DOMAIN r.words \ ch.words) \cup words
    BY DEF newwords
  <2> QED BY <2>1 DEF RowsOf, Names
<1>6. ASSUME NEW c \in Shown(h) PROVE CardProjected(r, new, h, ch, c, now)
  <2>0. new.cards[c] =
          IF c \in reached
          THEN IF c \in ReadAnew(ch) \/ c \notin DOMAIN r.cards
               THEN RowOf(h, c, now) ELSE Partly(h, c, r.cards[c], ch, now)
          ELSE r.cards[c]
    BY <1>2, <1>4 DEF newcards
  <2>1. c \in ReadAnew(ch) => c \in reached /\ LemmaOfCard(c) \in ch.lemmas
    BY DEF ReadAnew, Names, LemmaOfCard
  <2>2. c \notin DOMAIN r.cards => c \in ReadAnew(ch)
    BY <1>3 DEF Names, RowsOf, ReadAnew
  <2>3. LemmaOfCard(c) \in ch.lemmas => c \in reached
    BY DEF Own
  <2>4. Holds[c] \cap ch.lemmas # {} => c \in reached
    BY <2>1, <2>2 DEF Holding
  <2> HIDE DEF reached, kept, words
  <2>5. CASE c \in ReadAnew(ch)
    BY <2>0, <2>1, <2>5 DEF CardProjected, RowOf, NewnessValues
  <2>6. CASE c \notin ReadAnew(ch) /\ c \in reached
    <3>1. new.cards[c] = Partly(h, c, r.cards[c], ch, now) /\ c \in DOMAIN r.cards
      BY <2>0, <2>2, <2>6
    <3>2. /\ new.cards[c].status = IF LemmaOfCard(c) \in ch.lemmas
                                   THEN StatusValues(h, c, now) ELSE r.cards[c].status
          /\ new.cards[c].newness = [l \in Holds[c] |->
                  IF l \in ch.lemmas THEN Newness(h, l, now) ELSE r.cards[c].newness[l]]
      BY <3>1 DEF Partly
    <3> QED BY <2>6, <3>1, <3>2 DEF CardProjected
  <2>7. CASE c \notin reached
    BY <2>0, <2>1, <2>2, <2>3, <2>4, <2>7 DEF CardProjected
  <2> QED BY <2>5, <2>6, <2>7
<1>7. ASSUME NEW w \in LiveWords(h) PROVE WordProjected(r, new, h, ch, w)
  <2>1. new.words[w] = IF w \in words THEN DecisionStatus(Word(h, w)) ELSE r.words[w]
    BY <1>2, <1>5 DEF newwords
  <2> QED BY <2>1 DEF WordProjected
<1> HIDE DEF reached, kept, words
<1>8. newwords = [w \in LiveWords(h) |-> newwords[w]]
  BY <1>5 DEF newwords
<1>9. \A c \in Shown(h) : new.cards[c].status.changes \in Nat
  <2> TAKE c \in Shown(h)
  <2>1. StatusValues(h, c, now).changes \in Nat
    BY ChangesIsTime DEF StatusValues, KnowledgeOfCard
  <2> QED BY <1>6, <2>1 DEF CardProjected, RowsOf
<1>10. RowsOf(new, h)
  BY <1>2, <1>4, <1>5, <1>8, <1>9 DEF RowsOf
<1> QED BY <1>6, <1>7, <1>10 DEF new

-----------------------------------------------------------------------------
(* What a row says at one moment it says at another, while the same notes  *)
(* make the lemma Known.                                                   *)

(* The timer makes the lemma Known at both moments or at neither.          *)
SameDue(f, l, t, u) == AnyDue(Knowledge(f, l), t) <=> AnyDue(Knowledge(f, l), u)

(* What the lists say of the lemma is the same.                            *)
LEMMA SameElsewhere ==
  ASSUME NEW lk, NEW t, NEW u, AnyDue(lk, t) <=> AnyDue(lk, u)
  PROVE  /\ IsKnown(lk, t) <=> IsKnown(lk, u)
         /\ Elsewhere(lk, t) = Elsewhere(lk, u)
         /\ ChangesAt(lk, t) = ChangesAt(lk, u)
<1>1. IsKnown(lk, t) <=> IsKnown(lk, u)
  BY DEF IsKnown
<1>2. Elsewhere(lk, t) = Elsewhere(lk, u)
  BY <1>1 DEF Elsewhere
<1>3. ChangesAt(lk, t) = ChangesAt(lk, u)
  BY DEF ChangesAt
<1> QED BY <1>1, <1>2, <1>3

(* A decision for learning with no note reads Known by the lists alone; an *)
(* exported one is out of the queue.                                       *)
LEMMA SameQueue ==
  ASSUME NEW word, NEW lk, NEW t, NEW u
  PROVE  InExportQueue(word, lk, t) <=> InExportQueue(word, lk, u)
<1> DEFINE card == DecisionOf(word)
<1>1. DecisionStatus(word) = "learn" => card.note = None
  BY DEF DecisionStatus
<1>2. card.note = None => (ReadsKnown(card, lk, t) <=> ReadsKnown(card, lk, u))
  BY DEF ReadsKnown
<1> QED BY <1>1, <1>2 DEF InExportQueue

(* An open word is done by what other sources hold, a decided one at once. *)
LEMMA SameDone ==
  ASSUME NEW word, NEW card, NEW lk, NEW t, NEW u, AnyDue(lk, t) <=> AnyDue(lk, u)
  PROVE  IsDone(word, card, lk, t) = IsDone(word, card, lk, u)
<1> DEFINE decision == DecisionOf(word)
<1>1. CASE Decided(word)
  <2>1. decision.choice \in Decisions
    BY <1>1 DEF Decided, DecisionOf, IsDecision
  <2>2. DecisionStatus(word) # "new"
    BY <2>1 DEF DecisionStatus, Decisions, Kinds, None
  <2>3. \A now : ShownStatus(word, lk, now) # "new"
    BY <1>1, <2>2 DEF ShownStatus, OpenElsewhere, StatusOf
  <2> QED BY <2>3 DEF IsDone
<1>2. CASE ~ Decided(word)
  <2>1. decision = Blank
    BY <1>2 DEF DecisionOf
  <2>2. \A now : ~ ReadsKnown(decision, lk, now)
    BY <2>1 DEF ReadsKnown, Blank, Kinds, None
  <2>3. \A now : StatusOf(word, lk, now) = DecisionStatus(word)
    BY <2>2 DEF StatusOf
  <2>4. Elsewhere(lk, t) = Elsewhere(lk, u)
    BY SameElsewhere
  <2>5. ShownStatus(word, lk, t) = ShownStatus(word, lk, u)
    BY <1>2, <2>3, <2>4 DEF ShownStatus, OpenElsewhere
  <2> QED BY <2>5 DEF IsDone
<1> QED BY <1>1, <1>2

(* The values of a card's row, and the newness of a lemma.                 *)
LEMMA SameValues ==
  ASSUME NEW f, NEW t, NEW u
  PROVE  /\ \A c : SameDue(f, LemmaOfCard(c), t, u) => StatusValues(f, c, t) = StatusValues(f, c, u)
         /\ \A l : SameDue(f, l, t, u) => Newness(f, l, t) = Newness(f, l, u)
<1>1. ASSUME NEW c, SameDue(f, LemmaOfCard(c), t, u)
      PROVE  StatusValues(f, c, t) = StatusValues(f, c, u)
  <2> DEFINE word == WordOfCard(f, c)
             lk == KnowledgeOfCard(f, c)
  <2>1. AnyDue(lk, t) <=> AnyDue(lk, u)
    BY <1>1 DEF SameDue, KnowledgeOfCard
  <2> HIDE DEF word, lk
  <2>2. IsDone(word, word[c], lk, t) = IsDone(word, word[c], lk, u)
    BY <2>1, SameDone
  <2>3. ChangesAt(lk, t) = ChangesAt(lk, u) /\ Elsewhere(lk, t) = Elsewhere(lk, u)
    BY <2>1, SameElsewhere
  <2>4. InExportQueue(word, lk, t) = InExportQueue(word, lk, u)
    BY SameQueue DEF InExportQueue
  <2>5. WantsGeneration(word, word[c], lk, t) = WantsGeneration(word, word[c], lk, u)
    BY <2>3, <2>4 DEF WantsGeneration
  <2> QED BY <2>2, <2>3, <2>5 DEF StatusValues, word, lk
<1>2. ASSUME NEW l, SameDue(f, l, t, u) PROVE Newness(f, l, t) = Newness(f, l, u)
  <2> DEFINE lk == Knowledge(f, l)
  <2>1. AnyDue(lk, t) <=> AnyDue(lk, u)
    BY <1>2 DEF SameDue
  <2> HIDE DEF lk
  <2>2. (IsKnown(lk, t) <=> IsKnown(lk, u)) /\ Elsewhere(lk, t) = Elsewhere(lk, u)
    BY <2>1, SameElsewhere
  <2> QED BY <2>2 DEF Newness, lk
<1> QED BY <1>1, <1>2

-----------------------------------------------------------------------------
(* Rows that are current.                                                  *)

(* Of the rows r of facts f at moment t, brought up to date at `done`.     *)
Found(r, f, done, t) == TickFinds(r, f, done, t)
CardCurrent(r, f, c, pending, t) ==
    /\ LemmaOfCard(c) \in pending \/ r.cards[c].status = StatusValues(f, c, t)
    /\ \A l \in Holds[c] \ pending : r.cards[c].newness[l] = Newness(f, l, t)
Current(r, f, done, t) ==
    /\ \A w \in LiveWords(f) : r.words[w] = DecisionStatus(Word(f, w))
    /\ \A c \in Shown(f) : CardCurrent(r, f, c, Found(r, f, done, t), t)

(* A lemma no tick looks for by then stands as it stood.                   *)
LEMMA NotChanging ==
  ASSUME NEW f, FactsOK(f), NEW l, NEW t \in Nat, NEW u \in Nat, t <= u,
         ChangesAt(Knowledge(f, l), t) = Never \/ ChangesAt(Knowledge(f, l), t) > u
  PROVE  SameDue(f, l, t, u)
<1> DEFINE lk == Knowledge(f, l)
           oldest == CHOOSE s \in lk.since : \A o \in lk.since : s <= o
<1>1. MaxTime \in Nat /\ Timer \in Nat \ {0}
  BY BoundsAssumption, TimerAssumption
<1>2. lk.since \subseteq 0 .. MaxTime
  BY SinceIsTime
<1>3. lk.since \subseteq Nat
  BY <1>1, <1>2
<1> HIDE DEF lk
<1>4. AnyDue(lk, t) => AnyDue(lk, u)
  BY <1>1, <1>3 DEF AnyDue, Due
<1>5. CASE lk.since # {} /\ ~ AnyDue(lk, t)
  <2>1. oldest \in lk.since /\ \A o \in lk.since : oldest <= o
    BY <1>3, <1>5, OldestIs
  <2>2. ChangesAt(lk, t) = oldest + Timer
    BY <1>5 DEF ChangesAt
  <2> HIDE DEF oldest
  <2>3. oldest \in Nat
    BY <1>3, <2>1
  <2>4. oldest + Timer > u
    BY <1>1, <2>2, <2>3 DEF Never, lk
  <2>5. \A s \in lk.since : ~ Due(s, u)
    BY <1>1, <1>3, <2>1, <2>3, <2>4 DEF Due
  <2> QED BY <1>5, <2>5 DEF AnyDue, SameDue, lk
<1>6. CASE lk.since = {} \/ AnyDue(lk, t)
  BY <1>4, <1>6 DEF AnyDue, SameDue, lk
<1> QED BY <1>5, <1>6

(* Time passes: the rows stay current but for what the tick will find.     *)
LEMMA CurrentLater ==
  ASSUME NEW f, FactsOK(f), NEW r, RowsOf(r, f), NEW done \in Nat, NEW t \in Nat, done <= t,
         Current(r, f, done, t)
  PROVE  Current(r, f, done, t + 1)
<1> DEFINE before == Found(r, f, done, t)
           after == Found(r, f, done, t + 1)
<1>1. MaxTime \in Nat /\ Timer \in Nat \ {0}
  BY BoundsAssumption, TimerAssumption
<1>2. \A l : Knowledge(f, l).since \subseteq Nat
  BY <1>1, SinceIsTime
<1>3. \A s \in Nat : (Due(s, done) => Due(s, t)) /\ (Due(s, t) => Due(s, t + 1))
  BY <1>1 DEF Due
<1>4. before \subseteq after
  <2>1. ChangingBy(r, t) \subseteq ChangingBy(r, t + 1)
    BY DEF ChangingBy, RowsOf
  <2>2. DueBetween(f, done, t) \subseteq DueBetween(f, done, t + 1)
    BY <1>2, <1>3 DEF DueBetween
  <2> QED BY <2>1, <2>2 DEF Found, TickFinds
<1>5. ASSUME NEW l \in Lemmas, l \notin after PROVE SameDue(f, l, t, t + 1)
  <2>1. \A s \in Knowledge(f, l).since : Due(s, done) \/ ~ Due(s, t + 1)
    BY <1>5 DEF Found, TickFinds, DueBetween
  <2>2. \A s \in Knowledge(f, l).since : Due(s, t) <=> Due(s, t + 1)
    BY <1>2, <1>3, <2>1
  <2> QED BY <2>2 DEF SameDue, AnyDue
<1>6. ASSUME NEW c \in Shown(f) PROVE CardCurrent(r, f, c, after, t + 1)
  <2>1. CardCurrent(r, f, c, before, t)
    BY DEF Current
  <2>2. c \in Cards
    BY FactsParts DEF Shown
  <2> HIDE DEF before, after
  <2>3. LemmaOfCard(c) \notin after => r.cards[c].status = StatusValues(f, c, t + 1)
    BY <1>4, <1>5, <2>1, <2>2, Given, SameValues DEF CardCurrent
  <2>4. \A l \in Holds[c] \ after : r.cards[c].newness[l] = Newness(f, l, t + 1)
    BY <1>4, <1>5, <2>1, <2>2, Given, SameValues DEF CardCurrent
  <2> QED BY <2>3, <2>4 DEF CardCurrent
<1> QED BY <1>6 DEF Current

(* A tick brings up to date every row it finds, and leaves the others.     *)
LEMMA CurrentTicked ==
  ASSUME NEW f, FactsOK(f), NEW r, RowsOf(r, f), NEW done \in Nat, NEW t \in Nat,
         Current(r, f, done, t)
  PROVE  LET new == Projected(r, f, Changes(TickFinds(r, f, done, t), {}), t)
         IN  RowsOf(new, f) /\ Current(new, f, t, t)
<1> DEFINE ch == Changes(TickFinds(r, f, done, t), {})
           new == Projected(r, f, ch, t)
<1>1. ch.lemmas = Found(r, f, done, t) /\ ch.words = {}
  BY DEF Changes, Found
<1> HIDE DEF ch
<1>2. Names(ch, f, f)
  BY <1>1 DEF Names, Apart
<1>3. /\ RowsOf(new, f)
      /\ \A c \in Shown(f) : CardProjected(r, new, f, ch, c, t)
      /\ \A w \in LiveWords(f) : WordProjected(r, new, f, ch, w)
  BY <1>2, RowsProjected
<1> HIDE DEF new
<1>4. \A w \in LiveWords(f) : new.words[w] = DecisionStatus(Word(f, w))
  BY <1>3 DEF WordProjected, Current
<1>5. ASSUME NEW c \in Shown(f) PROVE \A pending : CardCurrent(new, f, c, pending, t)
  <2>1. CardCurrent(r, f, c, ch.lemmas, t)
    BY <1>1 DEF Current
  <2>2. CardProjected(r, new, f, ch, c, t)
    BY <1>3
  <2>3. c \notin ReadAnew(ch) /\ c \in DOMAIN r.cards
    BY <1>1 DEF ReadAnew, RowsOf
  <2>4. new.cards[c].status = StatusValues(f, c, t)
    BY <2>1, <2>2 DEF CardCurrent, CardProjected
  <2>5. \A l \in Holds[c] : new.cards[c].newness[l] = Newness(f, l, t)
    BY <2>1, <2>2, <2>3 DEF CardCurrent, CardProjected
  <2> QED BY <2>4, <2>5 DEF CardCurrent
<1> QED BY <1>3, <1>4, <1>5 DEF Current, new, ch

(* A write leaves current what it does not name, and makes current what it *)
(* names: at the moment it is written for, or, for an export, at the       *)
(* moment the export began.                                                *)
LEMMA CurrentWritten ==
  ASSUME NEW f, FactsInv(f), NEW h, FactsInv(h), NEW r, RowsOf(r, f),
         NEW done \in Nat, NEW t \in Nat, NEW at \in Nat, at <= t,
         Current(r, f, done, t), NEW ch, Names(ch, f, h),
         at = t \/ (/\ ch.words = {} /\ Shown(h) = Shown(f)
                    /\ \A l \in ch.lemmas : \E c \in Shown(h) : LemmaOfCard(c) = l)
  PROVE  LET new == Projected(r, h, ch, at)
         IN  RowsOf(new, h) /\ Current(new, h, done, t)
<1> DEFINE new == Projected(r, h, ch, at)
           before == Found(r, f, done, t)
           after == Found(new, h, done, t)
<1>0. FactsOK(f) /\ FactsOK(h) /\ Apart(f, h, ch.lemmas)
  BY DEF FactsInv, Names
<1>1. /\ RowsOf(new, h)
      /\ \A c \in Shown(h) : CardProjected(r, new, h, ch, c, at)
      /\ \A w \in LiveWords(h) : WordProjected(r, new, h, ch, w)
  BY <1>0, RowsProjected
<1> HIDE DEF new
<1>2. /\ \A k \in Lemmas \ ch.lemmas : Knowledge(h, k) = Knowledge(f, k)
      /\ \A w \in Words : LemmaOf[w] \notin ch.lemmas => Word(h, w) = Word(f, w)
  BY <1>0, ApartSame
<1>3. ASSUME NEW w \in LiveWords(h) PROVE new.words[w] = DecisionStatus(Word(h, w))
  <2>1. w \in LiveWords(f) /\ w \in Words
    BY DEF Names, LiveWords
  <2> QED BY <1>1, <1>2, <2>1 DEF WordProjected, Current
<1>4. Shown(f) \subseteq Cards /\ Shown(h) \subseteq Cards
  BY <1>0, FactsParts DEF Shown
<1>5. ASSUME NEW l \in Lemmas \ ch.lemmas, l \in before PROVE l \in after
  <2>1. CASE l \in DueBetween(f, done, t)
    BY <1>2, <2>1 DEF DueBetween, Found, TickFinds
  <2>2. CASE l \in ChangingBy(r, t)
    <3>1. PICK d \in DOMAIN r.cards : /\ LemmaOfCard(d) = l
                                      /\ r.cards[d].status.changes # Never
                                      /\ r.cards[d].status.changes <= t
      BY <2>2 DEF ChangingBy
    <3>2. d \in Shown(h)
      BY <1>4, <3>1 DEF RowsOf, Names, LemmaOfCard
    <3>3. new.cards[d].status = r.cards[d].status
      BY <1>1, <3>1, <3>2 DEF CardProjected
    <3>4. d \in DOMAIN new.cards
      BY <1>1, <3>2 DEF RowsOf
    <3> QED BY <3>1, <3>3, <3>4 DEF Found, TickFinds, ChangingBy
  <2> QED BY <1>5, <2>1, <2>2 DEF Found, TickFinds
<1>6. ASSUME NEW l \in Lemmas, l \in ch.lemmas, l \notin after PROVE SameDue(h, l, at, t)
  <2>1. CASE at = t
    BY <2>1 DEF SameDue
  <2>2. CASE at # t
    <3>1. PICK c \in Shown(h) : LemmaOfCard(c) = l
      BY <1>6, <2>2
    <3>2. new.cards[c].status = StatusValues(h, c, at)
      BY <1>1, <1>6, <3>1 DEF CardProjected
    <3>3. new.cards[c].status.changes = ChangesAt(Knowledge(h, l), at)
      BY <3>1, <3>2 DEF StatusValues, KnowledgeOfCard
    <3>4. c \in DOMAIN new.cards
      BY <1>1, <3>1 DEF RowsOf
    <3>5. ~ (/\ ChangesAt(Knowledge(h, l), at) # Never
             /\ ChangesAt(Knowledge(h, l), at) <= t)
      BY <1>6, <3>1, <3>3, <3>4 DEF Found, TickFinds, ChangingBy
    <3>6. ChangesAt(Knowledge(h, l), at) = Never \/ ChangesAt(Knowledge(h, l), at) > t
      BY <1>0, <3>5, ChangesIsTime
    <3> QED BY <1>0, <3>6, NotChanging
  <2> QED BY <2>1, <2>2
<1>7. ASSUME NEW c \in Shown(h), LemmaOfCard(c) \notin after
      PROVE  new.cards[c].status = StatusValues(h, c, t)
  <2> DEFINE l == LemmaOfCard(c)
  <2>0. c \in Cards /\ l \in Lemmas /\ WordOf[c] \in Words /\ l = LemmaOf[WordOf[c]]
    BY <1>4, Given DEF LemmaOfCard
  <2>1. CardProjected(r, new, h, ch, c, at)
    BY <1>1
  <2> HIDE DEF after
  <2>2. CASE l \in ch.lemmas
    <3>1. SameDue(h, l, at, t)
      BY <1>6, <1>7, <2>0, <2>2
    <3>2. new.cards[c].status = StatusValues(h, c, at)
      BY <2>1, <2>2 DEF CardProjected
    <3> QED BY <3>1, <3>2, SameValues
  <2>3. CASE l \notin ch.lemmas
    <3>1. c \in Shown(f) /\ new.cards[c].status = r.cards[c].status
      BY <2>1, <2>3 DEF CardProjected, RowsOf
    <3>2. l \notin before
      BY <1>5, <1>7, <2>0, <2>3
    <3>3. r.cards[c].status = StatusValues(f, c, t)
      BY <3>1, <3>2 DEF Current, CardCurrent
    <3>4. KnowledgeOfCard(h, c) = KnowledgeOfCard(f, c) /\ WordOfCard(h, c) = WordOfCard(f, c)
      BY <1>2, <2>0, <2>3 DEF KnowledgeOfCard, WordOfCard
    <3>5. StatusValues(h, c, t) = StatusValues(f, c, t)
      BY <3>4 DEF StatusValues
    <3> QED BY <3>1, <3>3, <3>5
  <2> QED BY <2>2, <2>3
<1>8. ASSUME NEW c \in Shown(h), NEW l \in Holds[c] \ after
      PROVE  new.cards[c].newness[l] = Newness(h, l, t)
  <2>0. c \in Cards /\ l \in Lemmas
    BY <1>4, Given
  <2>1. CardProjected(r, new, h, ch, c, at)
    BY <1>1
  <2> HIDE DEF after
  <2>2. CASE l \in ch.lemmas
    <3>1. SameDue(h, l, at, t)
      BY <1>6, <1>8, <2>0, <2>2
    <3>2. new.cards[c].newness[l] = Newness(h, l, at)
      BY <2>1, <2>2 DEF CardProjected
    <3> QED BY <3>1, <3>2, SameValues
  <2>3. CASE l \notin ch.lemmas /\ (c \in ReadAnew(ch) \/ c \notin DOMAIN r.cards)
    <3>1. new.cards[c].newness[l] = Newness(h, l, at)
      BY <2>1, <2>3 DEF CardProjected
    <3>2. at = t
      BY <2>3 DEF ReadAnew, RowsOf
    <3> QED BY <3>1, <3>2
  <2>4. CASE l \notin ch.lemmas /\ c \notin ReadAnew(ch) /\ c \in DOMAIN r.cards
    <3>1. new.cards[c].newness[l] = r.cards[c].newness[l]
      BY <2>1, <2>4 DEF CardProjected
    <3>2. l \notin before /\ c \in Shown(f)
      BY <1>5, <1>8, <2>0, <2>4 DEF RowsOf
    <3>3. r.cards[c].newness[l] = Newness(f, l, t)
      BY <3>2 DEF Current, CardCurrent
    <3>4. Knowledge(h, l) = Knowledge(f, l)
      BY <1>2, <2>0, <2>4
    <3> QED BY <3>1, <3>3, <3>4 DEF Newness
  <2> QED BY <2>2, <2>3, <2>4
<1> HIDE DEF after
<1>9. \A c \in Shown(h) : CardCurrent(new, h, c, after, t)
  BY <1>7, <1>8 DEF CardCurrent
<1>10. Current(new, h, done, t)
  BY <1>3, <1>9 DEF Current, after
<1> QED BY <1>1, <1>10 DEF new

-----------------------------------------------------------------------------
(* The inductive invariant.                                                *)

ClockOK == time \in 0 .. MaxTime /\ ticked \in 0 .. time
ExportOK ==
    /\ DOMAIN export.queue \subseteq Cards
    /\ export \in [pc : {"idle", "pushing"}, now : 0 .. time,
                   queue : [DOMAIN export.queue -> CardFact],
                   made : SUBSET DOMAIN export.queue]
Inv ==
    /\ FactsInv(facts)
    /\ RowsOf(rows, facts)
    /\ Current(rows, facts, ticked, time)
    /\ ClockOK
    /\ ExportOK

(* Moments are numbers.                                                    *)
LEMMA ClockIsTime ==
  ASSUME ClockOK
  PROVE  /\ MaxTime \in Nat /\ time \in Nat /\ ticked \in Nat
         /\ ticked <= time /\ time <= MaxTime /\ 0 .. time \subseteq 0 .. MaxTime
BY BoundsAssumption DEF ClockOK

(* It says of the rows what the property says.                             *)
LEMMA InvMeans ==
  ASSUME Inv
  PROVE  TypeOK /\ CardsAreSound /\ RowsAreCurrent
<1>1. TypeOK
  BY DEF Inv, FactsInv, RowsOf, ClockOK, ExportOK, TypeOK
<1>2. OneDecision
  BY DEF Inv, FactsInv, Sole, NotesFit, NoteFits, OneDecision
<1>3. RowsAreCurrent
  <2> DEFINE live == AllRows(facts, time)
             pending == Pending
  <2>1. /\ live.words = [w \in LiveWords(facts) |-> DecisionStatus(Word(facts, w))]
        /\ \A c \in Shown(facts) : live.cards[c] = RowOf(facts, c, time)
    BY DEF AllRows
  <2>2. rows.words = live.words
    BY <2>1 DEF Inv, RowsOf, Current
  <2>3. pending = Found(rows, facts, ticked, time)
    BY DEF Pending, Found
  <2> HIDE DEF live, pending
  <2>4. ASSUME NEW c \in DOMAIN rows.cards
        PROVE  /\ LemmaOfCard(c) \in pending \/ rows.cards[c].status = live.cards[c].status
               /\ \A l \in Holds[c] \ pending :
                     rows.cards[c].newness[l] = live.cards[c].newness[l]
    <3>1. c \in Shown(facts)
      BY DEF Inv, RowsOf
    <3>2. CardCurrent(rows, facts, c, pending, time)
      BY <2>3, <3>1 DEF Inv, Current
    <3>3. /\ live.cards[c].status = StatusValues(facts, c, time)
          /\ \A l \in Holds[c] : live.cards[c].newness[l] = Newness(facts, l, time)
      <4>1. live.cards[c] = RowOf(facts, c, time)
        BY <2>1, <3>1
      <4>2. /\ RowOf(facts, c, time).status = StatusValues(facts, c, time)
            /\ \A l \in Holds[c] : RowOf(facts, c, time).newness[l] = Newness(facts, l, time)
        BY DEF RowOf, NewnessValues
      <4> QED BY <4>1, <4>2
    <3> QED BY <3>2, <3>3 DEF CardCurrent
  <2> QED BY <2>2, <2>4 DEF RowsAreCurrent, live, pending
<1> QED BY <1>1, <1>2, <1>3 DEF CardsAreSound

(* The rows computed anew are current.                                     *)
LEMMA InitInv ==
  ASSUME Init PROVE Inv
<1>1. MaxTime \in Nat /\ FirstCards \subseteq Cards
  BY BoundsAssumption
<1> DEFINE cards == [c \in FirstCards |-> Blank]
<1>2. facts = [cards |-> cards, hidden |-> {}, sources |-> Sources,
               orphans |-> {}, known |-> {}, unknown |-> {}]
  BY DEF Init, InitFacts
<1>3. DOMAIN cards = FirstCards /\ cards \in [DOMAIN cards -> CardFact]
  BY BlankIsCard
<1>4. \A c \in FirstCards : cards[c] = Blank
  OBVIOUS
<1> HIDE DEF cards
<1>5. FactsOK(facts)
  <2>1. /\ DOMAIN cards \subseteq Cards /\ {} \subseteq DOMAIN cards /\ Sources \subseteq Sources
        /\ {} \subseteq OrphanFact /\ {} \subseteq Lemmas /\ {} \cap {} = {}
    BY <1>1, <1>3
  <2> QED BY <1>2, <1>3, <2>1, FactsMade
<1>6. FactsInv(facts)
  <2>1. \A c \in DOMAIN facts.cards : ~ IsDecision(facts.cards[c]) /\ NoteFits(facts.cards[c])
    BY <1>2, <1>3, <1>4, BlankIsCard
  <2>2. Sole(facts) /\ NotesFit(facts) /\ UnknownIdles(facts)
    BY <1>2, <2>1 DEF Sole, NotesFit, UnknownIdles
  <2>3. Housed(facts)
    BY <1>1, <1>2, <1>3, Given DEF Housed, Shown
  <2> QED BY <1>5, <2>2, <2>3 DEF FactsInv
<1>7. /\ DOMAIN rows = {"cards", "words"}
      /\ rows.cards = [c \in Shown(facts) |-> RowOf(facts, c, 0)]
      /\ rows.words = [w \in LiveWords(facts) |-> DecisionStatus(Word(facts, w))]
  BY DEF Init, AllRows
<1>8. \A c \in Shown(facts) :
          /\ rows.cards[c].status = StatusValues(facts, c, 0)
          /\ \A l \in Holds[c] : rows.cards[c].newness[l] = Newness(facts, l, 0)
  BY <1>7 DEF RowOf, NewnessValues
<1>9. RowsOf(rows, facts)
  <2>1. \A c \in Shown(facts) : rows.cards[c].status.changes \in Nat
    <3> TAKE c \in Shown(facts)
    <3>1. StatusValues(facts, c, 0).changes \in Nat
      BY <1>5, ChangesIsTime DEF StatusValues, KnowledgeOfCard
    <3> QED BY <1>8, <3>1
  <2> QED BY <1>7, <2>1 DEF RowsOf
<1>10. Current(rows, facts, 0, 0)
  BY <1>7, <1>8 DEF Current, CardCurrent
<1>11. ClockOK /\ ExportOK
  BY <1>1 DEF Init, ClockOK, ExportOK, NoExport
<1> QED BY <1>6, <1>9, <1>10, <1>11 DEF Inv, Init

(* A write, with the rows its changes name, keeps it.                      *)
LEMMA WriteKeeps ==
  ASSUME Inv, NEW h, FactsInv(h), NEW ch, Names(ch, facts, h), Write(h, ch)
  PROVE  Inv'
<1>1. /\ facts' = h /\ rows' = Projected(rows, h, ch, time)
      /\ ticked' = ticked /\ time' = time /\ export' = export
  BY DEF Write
<1>2. RowsOf(rows', h) /\ Current(rows', h, ticked, time)
  <2>1. FactsInv(facts) /\ RowsOf(rows, facts) /\ Current(rows, facts, ticked, time)
    BY DEF Inv
  <2>2. time \in Nat /\ ticked \in Nat /\ time <= time
    BY ClockIsTime DEF Inv
  <2> DEFINE new == Projected(rows, h, ch, time)
  <2>3. RowsOf(new, h) /\ Current(new, h, ticked, time)
    BY <2>1, <2>2, CurrentWritten
  <2> QED BY <1>1, <2>3
<1>3. ClockOK' /\ ExportOK'
  BY <1>1 DEF Inv, ClockOK, ExportOK
<1> QED BY <1>1, <1>2, <1>3 DEF Inv

(* The words there are, by the sources.                                    *)
LEMMA SameSources ==
  ASSUME NEW f, NEW h, h.sources = f.sources
  PROVE  LiveWords(h) = LiveWords(f)
BY DEF LiveWords

(* A write that shows the same cards of the same words names its lemmas.   *)
LEMMA ListsNamed ==
  ASSUME NEW f, NEW h, NEW ls, WrittenTo(f, h, ls)
  PROVE  Names(Changes(ls, {}), f, h)
<1>1. Changes(ls, {}).lemmas = ls /\ Changes(ls, {}).words = {}
  BY DEF Changes
<1>2. Shown(h) = Shown(f) /\ LiveWords(h) = LiveWords(f) /\ Apart(f, h, ls)
  BY SameSources DEF WrittenTo, Shown
<1> HIDE DEF Changes
<1> QED BY <1>1, <1>2 DEF Names

(* The user's writes.                                                      *)
LEMMA PressInv ==
  ASSUME Inv, NEW c, NEW p, Press(c, p)
  PROVE  Inv'
<1>1. c \in DOMAIN facts.cards /\ FactsInv(facts)
  BY DEF Press, Inv
<1>2. PICK row \in Granted(facts, c, p, time) :
          Write(AfterPress(facts, c, row, time), Changes({LemmaOfCard(c)}, {WordOf[c]}))
  BY DEF Press
<1> DEFINE h == AfterPress(facts, c, row, time)
           ch == Changes({LemmaOfCard(c)}, {WordOf[c]})
<1>3. WrittenFor(facts, h, c) /\ h.hidden = facts.hidden /\ DOMAIN h.cards = DOMAIN facts.cards
  BY <1>1, PressKeeps
<1>4. ch.lemmas = {LemmaOfCard(c)} /\ ch.words = {WordOf[c]}
  BY DEF Changes
<1>5. Write(h, ch)
  BY <1>2
<1> HIDE DEF h, ch
<1>6. Shown(h) = Shown(facts) /\ LiveWords(h) = LiveWords(facts)
  BY <1>3, SameSources DEF WrittenFor, Shown
<1>7. Names(ch, facts, h)
  BY <1>3, <1>4, <1>6 DEF Names, WrittenFor, LemmaOfCard
<1> QED BY <1>3, <1>5, <1>7, WriteKeeps DEF WrittenFor

(* So a replacement.                                                       *)
LEMMA ReplaceInv ==
  ASSUME Inv, NEW c, NEW new, Replace(c, new)
  PROVE  Inv'
<1>1. /\ c \in Shown(facts) /\ new \in Cards \ DOMAIN facts.cards /\ WordOf[new] = WordOf[c]
      /\ FactsInv(facts)
  BY DEF Replace, Inv
<1>2. PICK row \in MoveRule(facts.cards[c], KnowledgeOfCard(facts, c), time) :
          Write(AfterMove(facts, c, new, row, time), Changes({LemmaOfCard(c)}, {WordOf[c]}))
  BY DEF Replace
<1> DEFINE h == AfterMove(facts, c, new, row, time)
           ch == Changes({LemmaOfCard(c)}, {WordOf[c]})
<1>3. /\ WrittenFor(facts, h, c) /\ h.hidden = facts.hidden \cup {c}
      /\ DOMAIN h.cards = DOMAIN facts.cards \cup {new}
  BY <1>1, MoveKeeps
<1>4. ch.lemmas = {LemmaOfCard(c)} /\ ch.words = {WordOf[c]}
  BY DEF Changes
<1>5. Write(h, ch)
  BY <1>2
<1> HIDE DEF h, ch
<1>6. Shown(h) \subseteq Shown(facts) \cup {new} /\ Shown(facts) \subseteq Shown(h) \cup {c}
  BY <1>3 DEF Shown
<1>7. LiveWords(h) = LiveWords(facts)
  BY <1>3, SameSources DEF WrittenFor
<1>8. Names(ch, facts, h)
  BY <1>1, <1>3, <1>4, <1>6, <1>7 DEF Names, WrittenFor, LemmaOfCard
<1> QED BY <1>3, <1>5, <1>8, WriteKeeps DEF WrittenFor

(* The writes of the lists.                                                *)
LEMMA ListInv ==
  ASSUME Inv, NEW l \in Lemmas, RemoveKnown(l) \/ ReportUnknown(l) \/ RemoveUnknown(l)
  PROVE  Inv'
<1>1. FactsInv(facts)
  BY DEF Inv
<1>2. PICK h : WrittenTo(facts, h, {l}) /\ Write(h, Changes({l}, {}))
  <2>1. CASE RemoveKnown(l)
    BY <1>1, <2>1, ListsWritten DEF RemoveKnown
  <2>2. CASE ReportUnknown(l)
    <3>1. WrittenTo(facts, AfterUnknown(facts, l, time), {l})
      BY <1>1, UnknownKeeps
    <3> QED BY <2>2, <3>1 DEF ReportUnknown
  <2>3. CASE RemoveUnknown(l)
    BY <1>1, <2>3, ListsWritten DEF RemoveUnknown
  <2> QED BY <2>1, <2>2, <2>3
<1>3. Names(Changes({l}, {}), facts, h) /\ FactsInv(h)
  BY <1>2, ListsNamed DEF WrittenTo
<1> QED BY <1>2, <1>3, WriteKeeps

(* Words added as known.                                                   *)
LEMMA AddInv ==
  ASSUME Inv, NEW ls \in SUBSET Lemmas, AddKnown(ls)
  PROVE  Inv'
<1>1. FactsInv(facts)
  BY DEF Inv
<1> DEFINE h == MarkKnown(facts, ls)
           ch == Changes(ls \ facts.known, {})
<1>2. WrittenTo(facts, h, ls \ facts.known) /\ FactsInv(h)
  BY <1>1, ListsWritten
<1>3. Write(h, ch)
  BY DEF AddKnown
<1> HIDE DEF h
<1>4. Names(ch, facts, h)
  BY <1>2, ListsNamed
<1> HIDE DEF ch
<1> QED BY <1>2, <1>3, <1>4, WriteKeeps

(* A source deleted.                                                       *)
LEMMA DeleteInv ==
  ASSUME Inv, NEW s, DeleteSource(s)
  PROVE  Inv'
<1>1. FactsInv(facts)
  BY DEF Inv
<1> DEFINE h == WithoutSource(facts, s)
           words == {w \in LiveWords(facts) : SourceOf[w] = s}
           ch == Changes({LemmaOf[w] : w \in words}, words)
<1>2. /\ FactsInv(h) /\ Apart(facts, h, LemmasOfSource(facts, s))
      /\ h.sources = facts.sources \ {s}
      /\ DOMAIN h.cards = {c \in DOMAIN facts.cards : SourceOf[WordOf[c]] # s}
      /\ h.hidden = {c \in facts.hidden : SourceOf[WordOf[c]] # s}
  BY <1>1, SourceKeeps
<1>3. Write(h, ch)
  BY DEF DeleteSource
<1>4. ch.words = words /\ ch.lemmas = {LemmaOf[w] : w \in words}
  BY DEF Changes
<1>5. ch.lemmas = LemmasOfSource(facts, s)
  BY <1>4 DEF LemmasOfSource
<1> HIDE DEF h, ch
<1>6. /\ Shown(h) = {c \in Shown(facts) : SourceOf[WordOf[c]] # s}
      /\ LiveWords(h) = LiveWords(facts) \ words
  BY <1>2 DEF Shown, LiveWords
<1>7. \A c \in Shown(facts) : WordOf[c] \in LiveWords(facts)
  BY <1>1, FactsParts, Given DEF FactsInv, Housed, Shown, LiveWords
<1>8. Names(ch, facts, h)
  BY <1>2, <1>4, <1>5, <1>6, <1>7 DEF Names
<1> QED BY <1>2, <1>3, <1>8, WriteKeeps

(* The end of an export: one write, of the moment it began.                *)
LEMMA EndInv ==
  ASSUME Inv, EndExport
  PROVE  Inv'
<1>0. /\ FactsInv(facts) /\ RowsOf(rows, facts) /\ Current(rows, facts, ticked, time)
      /\ ClockOK /\ ExportOK
  BY DEF Inv
<1>1. /\ time \in Nat /\ ticked \in Nat /\ export.now \in Nat /\ export.now <= time
      /\ export.now \in 0 .. MaxTime
  <2>1. export.now \in 0 .. time
    BY <1>0 DEF ExportOK
  <2>2. /\ MaxTime \in Nat /\ time \in Nat /\ ticked \in Nat /\ time <= MaxTime
    BY <1>0, ClockIsTime
  <2> QED BY <2>1, <2>2
<1>2. ticked' = ticked /\ time' = time /\ export' = NoExport
  BY DEF EndExport
<1>3. ClockOK' /\ ExportOK'
  BY <1>0, <1>1, <1>2 DEF ClockOK, ExportOK, NoExport
<1>4. CASE \A c \in StillSame : HasBindRule(c)
  <2> DEFINE h == AfterExport(facts, StillSame, export.now)
             ls == {LemmaOfCard(c) : c \in StillSame}
             ch == Changes(ls, {})
             new == Projected(rows, h, ch, export.now)
  <2>1. facts' = h /\ rows' = new
    BY <1>4 DEF EndExport
  <2>2. /\ StillSame \in SUBSET DOMAIN facts.cards
        /\ \A c \in StillSame :
              MayBind(WordOfCard(facts, c), c, KnowledgeOfCard(facts, c), export.now)
    BY <1>4 DEF StillSame, StillThere, HasBindRule
  <2>3. WrittenTo(facts, h, ls)
    BY <1>0, <1>1, <2>2, ExportKeeps
  <2> HIDE DEF h, ls
  <2>4. Names(ch, facts, h) /\ ch.lemmas = ls /\ ch.words = {}
    BY <2>3, ListsNamed DEF Changes
  <2>5. FactsInv(h) /\ Shown(h) = Shown(facts) /\ DOMAIN h.cards = DOMAIN facts.cards
    BY <2>3 DEF WrittenTo, Shown
  <2>6. \A l \in ls : \E c \in Shown(h) : LemmaOfCard(c) = l
    <3> SUFFICES ASSUME NEW c \in StillSame
                 PROVE  \E d \in Shown(h) : LemmaOfCard(d) = LemmaOfCard(c)
      BY DEF ls
    <3>1. c \in DOMAIN h.cards
      BY <2>2, <2>5
    <3> QED BY <2>5, <3>1 DEF FactsInv, Housed, LemmaOfCard
  <2> HIDE DEF ch
  <2>7. RowsOf(new, h) /\ Current(new, h, ticked, time)
    BY <1>0, <1>1, <2>4, <2>5, <2>6, CurrentWritten
  <2> QED BY <1>2, <1>3, <2>1, <2>5, <2>7 DEF Inv
<1>5. CASE ~ \A c \in StillSame : HasBindRule(c)
  <2>1. facts' = facts /\ rows' = rows
    BY <1>5 DEF EndExport
  <2> QED BY <1>0, <1>2, <1>3, <2>1 DEF Inv
<1> QED BY <1>4, <1>5

(* The other steps of an export: the facts and their rows stay.            *)
LEMMA PushInv ==
  ASSUME Inv, StartExport \/ AnkiQuits \/ \E c \in Left : PushNote(c) \/ SkipNote(c)
  PROVE  Inv'
<1>0. FactsInv(facts) /\ ClockOK /\ ExportOK
  BY DEF Inv
<1>1. UNCHANGED <<facts, rows, ticked, time>>
  BY DEF StartExport, AnkiQuits, PushNote, SkipNote
<1>2. ExportOK'
  <2>0. time' = time /\ time \in Nat
    BY <1>0, <1>1, ClockIsTime
  <2>1. CASE StartExport
    <3> DEFINE queue == [c \in Queue(facts, time) |-> facts.cards[c]]
    <3>1. Queue(facts, time) \subseteq DOMAIN facts.cards
      BY DEF Queue
    <3>2. DOMAIN queue = Queue(facts, time) /\ queue \in [DOMAIN queue -> CardFact]
      BY <1>0, <3>1, FactsParts DEF FactsInv
    <3>3. DOMAIN facts.cards \subseteq Cards
      BY <1>0, FactsParts DEF FactsInv
    <3>4. export' = [pc |-> "pushing", now |-> time, made |-> {}, queue |-> queue]
      BY <2>1 DEF StartExport
    <3> HIDE DEF queue
    <3> QED BY <2>0, <3>1, <3>2, <3>3, <3>4 DEF ExportOK
  <2>2. CASE AnkiQuits
    BY <2>0, <2>2 DEF AnkiQuits, ExportOK, NoExport
  <2>3. CASE \E c \in Left : PushNote(c)
    <3>1. PICK c \in Left : PushNote(c)
      BY <2>3
    <3>2. c \in DOMAIN export.queue /\ export' = [export EXCEPT !.made = export.made \cup {c}]
      BY <3>1 DEF Left, PushNote
    <3> QED BY <1>0, <2>0, <3>2 DEF ExportOK
  <2>4. CASE \E c \in Left : SkipNote(c)
    <3>1. PICK c \in Left : SkipNote(c)
      BY <2>4
    <3> DEFINE queue == [d \in DOMAIN export.queue \ {c} |-> export.queue[d]]
    <3>2. c \notin export.made /\ export' = [export EXCEPT !.queue = queue]
      BY <3>1 DEF Left, SkipNote
    <3>3. /\ DOMAIN queue = DOMAIN export.queue \ {c}
          /\ queue \in [DOMAIN queue -> CardFact]
      BY <1>0 DEF ExportOK
    <3> HIDE DEF queue
    <3> QED BY <1>0, <2>0, <3>2, <3>3 DEF ExportOK
  <2> QED BY <2>1, <2>2, <2>3, <2>4
<1> QED BY <1>1, <1>2 DEF Inv, ClockOK

(* Time, and the tick that brings the rows up to date with it.             *)
LEMMA TimeInv ==
  ASSUME Inv, Tick \/ TimePasses
  PROVE  Inv'
<1>0. /\ FactsInv(facts) /\ FactsOK(facts) /\ RowsOf(rows, facts)
      /\ Current(rows, facts, ticked, time)
      /\ ClockOK /\ ExportOK
  BY DEF Inv, FactsInv
<1>1. /\ time \in Nat /\ ticked \in Nat /\ MaxTime \in Nat /\ ticked <= time
  BY <1>0, ClockIsTime
<1>2. CASE Tick
  <2>1. /\ rows' = Projected(rows, facts, Changes(TickFinds(rows, facts, ticked, time), {}), time)
        /\ ticked' = time /\ facts' = facts /\ time' = time /\ export' = export
    BY <1>2 DEF Tick
  <2> DEFINE new == Projected(rows, facts, Changes(TickFinds(rows, facts, ticked, time), {}), time)
  <2>2. RowsOf(new, facts) /\ Current(new, facts, time, time)
    BY <1>0, <1>1, CurrentTicked
  <2>3. ClockOK' /\ ExportOK'
    BY <1>0, <1>1, <2>1 DEF ClockOK, ExportOK
  <2> HIDE DEF new
  <2>4. rows' = new
    BY <2>1 DEF new
  <2> QED BY <1>0, <2>1, <2>2, <2>3, <2>4 DEF Inv
<1>3. CASE TimePasses
  <2>1. /\ time < MaxTime /\ time' = time + 1
        /\ facts' = facts /\ rows' = rows /\ ticked' = ticked /\ export' = export
    BY <1>3 DEF TimePasses
  <2>2. Current(rows, facts, ticked, time + 1)
    BY <1>0, <1>1, CurrentLater
  <2>3. ClockOK'
    BY <1>0, <1>1, <2>1 DEF ClockOK
  <2>4. ExportOK'
    <3>1. 0 .. time \subseteq 0 .. (time + 1)
      BY <1>1
    <3> QED BY <1>0, <2>1, <3>1 DEF ExportOK
  <2> QED BY <1>0, <2>1, <2>2, <2>3, <2>4 DEF Inv
<1> QED BY <1>2, <1>3

(* Every step keeps it.                                                    *)
LEMMA NextInv ==
  ASSUME Inv, [Next]_vars
  PROVE  Inv'
<1>1. Pressable \subseteq Cards /\ Listable \subseteq Lemmas
  BY BoundsAssumption
<1>2. CASE User
  <2>1. CASE \E c \in Pressable, p \in Presses : Press(c, p)
    BY <2>1, PressInv
  <2>2. CASE \E c, new \in Cards : Replace(c, new)
    BY <2>2, ReplaceInv
  <2>3. CASE \E ls \in SUBSET Listable : AddKnown(ls)
    BY <1>1, <2>3, AddInv
  <2>4. CASE \E l \in Listable : RemoveKnown(l) \/ ReportUnknown(l) \/ RemoveUnknown(l)
    BY <1>1, <2>4, ListInv
  <2>5. CASE \E s \in Deletable : DeleteSource(s)
    BY <2>5, DeleteInv
  <2> QED BY <1>2, <2>1, <2>2, <2>3, <2>4, <2>5 DEF User
<1>3. CASE Export
  BY <1>3, EndInv, PushInv DEF Export
<1>4. CASE Tick \/ TimePasses
  BY <1>4, TimeInv
<1>5. CASE UNCHANGED vars
  BY <1>5 DEF vars, Inv, ClockOK, ExportOK
<1> QED BY <1>2, <1>3, <1>4, <1>5 DEF Next

(* The inductive invariant holds always.                                   *)
LEMMA InvAlways == Spec => []Inv
BY InitInv, NextInv, PTL DEF Spec

-----------------------------------------------------------------------------
(* What the invariant says of the lists.                                   *)

(* A lemma in Unknown stands for nothing else.                             *)
LEMMA UnknownStands ==
  ASSUME NEW f, FactsInv(f), NEW l \in f.unknown, NEW now
  PROVE  Elsewhere(Knowledge(f, l), now) = None
<1> DEFINE lk == Knowledge(f, l)
<1>1. IdleLemma(f, l) /\ l \notin f.known
  BY FactsParts DEF FactsInv, UnknownIdles
<1>2. BoundCards(f, l) = {} /\ {p \in f.orphans : p.lemma = l} = {}
  BY <1>1 DEF IdleLemma, Idles, BoundCards
<1>3. ~ \E c \in CardsOfLemma(f, l) : AwaitsExport(f.cards[c])
  BY <1>1 DEF IdleLemma, Idles, AwaitsExport
<1>4. lk.since = {} /\ ~ lk.awaiting /\ ~ lk.listed
  BY <1>1, <1>2, <1>3 DEF Knowledge
<1> HIDE DEF lk
<1> QED BY <1>4 DEF Elsewhere, IsKnown, AnyDue, lk

(* A card whose note is due makes its word lose its decision with Known.   *)
LEMMA DueIsRevoked ==
  ASSUME NEW f, FactsInv(f), NEW c \in DOMAIN f.cards, NEW now, f.cards[c].note # None,
         Due(f.cards[c].since, now), NEW lk
  PROVE  /\ IsDecision(f.cards[c])
         /\ WordOf[c] \in Revoking(f, LemmaOfCard(c), lk, now, {})
<1> DEFINE word == Word(f, WordOf[c])
           card == f.cards[c]
<1>1. card \in CardFact /\ WordOf[c] \in Words /\ WordOf[c] \in WordsOfLemma(f, LemmaOfCard(c))
  BY FactsParts, Given DEF FactsInv, Housed, WordsOfLemma, LiveWords, LemmaOfCard
<1>2. card.note \in Kinds /\ card.choice \in {card.note, "known"}
  BY <1>1 DEF CardFact, KindOrNone, FactsInv, NotesFit, NoteFits
<1>3. IsDecision(card)
  BY <1>2 DEF IsDecision, Decisions
<1>4. /\ c \in DOMAIN word /\ word[c] = card
      /\ \A d \in DOMAIN word : d \in DOMAIN f.cards /\ word[d] = f.cards[d] /\ WordOf[d] = WordOf[c]
  BY DEF Word, WordCards
<1>5. \A d \in DOMAIN word : IsDecision(word[d]) => d = c
  BY <1>3, <1>4 DEF FactsInv, Sole
<1> HIDE DEF word
<1>6. DecisionOf(word) = card
  BY <1>3, <1>4, <1>5, DecisionIs
<1> HIDE DEF card
<1>7. \E r \in RemovalRule(word, lk, now) : r.revoke
  <2>1. CASE card.choice = "known"
    <3> DEFINE r == RemovalRow({"known"}, KindOrNone, FALSE, TRUE)
    <3>1. r \in RemovalRows
      BY DEF RemovalRows
    <3>2. ~ ReadsKnown(card, lk, now)
      BY <2>1 DEF ReadsKnown, Kinds
    <3>3. /\ r.reads = ReadsKnown(card, lk, now) /\ card.choice \in r.choices
          /\ card.note \in r.notes /\ r.revoke
      BY <1>2, <2>1, <3>2 DEF RemovalRow, ReadsKnown, KindOrNone
    <3> HIDE DEF r
    <3> QED BY <1>6, <3>1, <3>3 DEF RemovalRule
  <2>2. CASE card.choice = card.note
    <3> DEFINE k == card.note
               r == RemovalRow({k}, {None, k}, TRUE, TRUE)
    <3>1. r \in RemovalRows
      BY <1>2 DEF RemovalRows
    <3>2. ReadsKnown(card, lk, now)
      BY <1>2, <2>2 DEF ReadsKnown, card
    <3>3. /\ r.reads = ReadsKnown(card, lk, now) /\ card.choice \in r.choices
          /\ card.note \in r.notes /\ r.revoke
      BY <2>2, <3>2 DEF RemovalRow, ReadsKnown
    <3> HIDE DEF r
    <3> QED BY <1>6, <3>1, <3>3 DEF RemovalRule
  <2> QED BY <1>2, <2>1, <2>2
<1> QED BY <1>1, <1>3, <1>7 DEF Revoking, word, card

(* Known removed from a lemma is gone for every source.                    *)
LEMMA RemovedIsGone ==
  ASSUME NEW f, FactsInv(f), NEW l \in Lemmas, NEW lk, NEW now
  PROVE  ~ IsKnown(Knowledge(KnownRemoved(f, l, lk, now, {}), l), now)
<1> DEFINE h == KnownRemoved(f, l, lk, now, {})
<1>1. FactsOK(f)
  BY DEF FactsInv
<1>2. /\ h.known = f.known \ {l}
      /\ h.orphans = {o \in f.orphans : o.lemma # l \/ ~ OrphanReleased(o, now)}
      /\ DOMAIN h.cards = DOMAIN f.cards
      /\ \A c \in DOMAIN f.cards :
             IF WordOf[c] \in Revoking(f, l, lk, now, {}) /\ IsDecision(f.cards[c])
             THEN h.cards[c] = Blank ELSE h.cards[c] = f.cards[c]
  BY <1>1, RemovedKnown
<1> HIDE DEF h
<1>3. ASSUME NEW c \in BoundCards(h, l) PROVE ~ Due(h.cards[c].since, now)
  <2>1. c \in DOMAIN f.cards /\ LemmaOfCard(c) = l /\ h.cards[c].note # None
    BY <1>2 DEF BoundCards, CardsOfLemma
  <2>2. h.cards[c] = f.cards[c] /\ ~ (WordOf[c] \in Revoking(f, l, lk, now, {})
                                      /\ IsDecision(f.cards[c]))
    BY <1>2, <2>1 DEF Blank
  <2> QED BY <2>1, <2>2, DueIsRevoked
<1>4. ASSUME NEW o \in h.orphans, o.lemma = l PROVE ~ Due(o.since, now)
  BY <1>2, <1>4 DEF OrphanReleased
<1>5. ~ AnyDue(Knowledge(h, l), now)
  BY <1>3, <1>4 DEF AnyDue, Knowledge
<1>6. ~ Knowledge(h, l).listed
  BY <1>2 DEF Knowledge
<1> QED BY <1>5, <1>6 DEF IsKnown, h

(* A word reported unknown is not known.                                   *)
LEMMA ReportedIsGone ==
  ASSUME NEW f, FactsInv(f), NEW l \in Lemmas, NEW now
  PROVE  ~ IsKnown(Knowledge(AfterUnknown(f, l, now), l), now)
<1> DEFINE left == IF UnknownMark(Knowledge(f, l), now) = "remove_known_first"
                   THEN KnownRemoved(f, l, Knowledge(f, l), now, {}) ELSE f
           h == AfterUnknown(f, l, now)
<1>1. h = IF UnknownMark(Knowledge(left, l), now) = "mark"
          THEN [left EXCEPT !.unknown = @ \cup {l}] ELSE left
  BY DEF AfterUnknown
<1>2. ~ IsKnown(Knowledge(left, l), now) /\ FactsOK(left)
  <2>1. CASE UnknownMark(Knowledge(f, l), now) = "remove_known_first"
    BY <2>1, RemovedIsGone, ListsWritten DEF WrittenTo, FactsInv
  <2>2. CASE UnknownMark(Knowledge(f, l), now) # "remove_known_first"
    BY <2>2 DEF UnknownMark, Elsewhere, FactsInv, None
  <2> QED BY <2>1, <2>2
<1> HIDE DEF left, h
<1>3. h.known = left.known /\ h.cards = left.cards /\ h.orphans = left.orphans
  BY <1>1, <1>2, FactsParts
<1>4. /\ Knowledge(h, l).listed = Knowledge(left, l).listed
      /\ Knowledge(h, l).since = Knowledge(left, l).since
  BY <1>3 DEF Knowledge, BoundCards, CardsOfLemma
<1> QED BY <1>2, <1>4 DEF IsKnown, AnyDue, h

(* Lemmas in Unknown are not learned; Known can be taken from any.         *)
LEMMA ListsMean ==
  ASSUME Inv
  PROVE  UnknownIsNotLearned /\ KnownLeaves
<1>1. UnknownIsNotLearned
  BY UnknownStands DEF Inv, UnknownIsNotLearned
<1>2. KnownLeaves
  BY BoundsAssumption, RemovedIsGone, ReportedIsGone DEF Inv, KnownLeaves
<1> QED BY <1>1, <1>2

-----------------------------------------------------------------------------
(* Notes are bound by the end of an export alone.                          *)

(* The writes of the lists bind none.                                      *)
LEMMA ListsBindNone ==
  ASSUME NEW f, FactsOK(f)
  PROVE  /\ \A ls \in SUBSET Lemmas : NotesKept(f, MarkKnown(f, ls))
         /\ \A l : NotesKept(f, ForgetUnknown(f, l))
         /\ \A l, lk, now : NotesKept(f, KnownRemoved(f, l, lk, now, {}))
<1>1. \A ls \in SUBSET Lemmas : NotesKept(f, MarkKnown(f, ls))
  BY MarkedKnown DEF NotesKept
<1>2. \A l : NotesKept(f, ForgetUnknown(f, l))
  BY ForgottenUnknown DEF NotesKept
<1>3. ASSUME NEW l, NEW lk, NEW now PROVE NotesKept(f, KnownRemoved(f, l, lk, now, {}))
  <2> DEFINE h == KnownRemoved(f, l, lk, now, {})
  <2>1. \A c \in DOMAIN f.cards : h.cards[c] = Blank \/ h.cards[c] = f.cards[c]
    BY RemovedKnown
  <2> HIDE DEF h
  <2>2. NotesKept(f, h)
    BY <2>1 DEF NotesKept, Blank
  <2> QED BY <2>2 DEF h
<1> QED BY <1>1, <1>2, <1>3

(* Nor does a report.                                                      *)
LEMMA ReportBindsNone ==
  ASSUME NEW f, FactsInv(f), NEW l \in Lemmas, NEW now
  PROVE  NotesKept(f, AfterUnknown(f, l, now))
<1> DEFINE left == IF UnknownMark(Knowledge(f, l), now) = "remove_known_first"
                   THEN KnownRemoved(f, l, Knowledge(f, l), now, {}) ELSE f
           h == AfterUnknown(f, l, now)
<1>1. h = IF UnknownMark(Knowledge(left, l), now) = "mark"
          THEN [left EXCEPT !.unknown = @ \cup {l}] ELSE left
  BY DEF AfterUnknown
<1>2. NotesKept(f, left) /\ FactsOK(left)
  <2>1. NotesKept(f, f)
    BY DEF NotesKept
  <2> QED BY <2>1, ListsBindNone, ListsWritten DEF WrittenTo, FactsInv
<1> HIDE DEF left, h
<1>3. h.cards = left.cards
  BY <1>1, <1>2, FactsParts
<1> QED BY <1>2, <1>3 DEF NotesKept, h

(* A card is learned in Anki only as what its note was made for.           *)
BindsMade ==
    \A c \in DOMAIN facts.cards \cap DOMAIN facts'.cards :
          facts.cards[c].note # facts'.cards[c].note /\ facts'.cards[c].note # None
             => c \in export.made /\ facts'.cards[c].note = export.queue[c].choice

(* What keeps the notes binds none.                                        *)
LEMMA KeptBindsNone ==
  ASSUME NotesKept(facts, facts') PROVE BindsMade
BY DEF NotesKept, BindsMade

(* So every step.                                                          *)
LEMMA StepBinds ==
  ASSUME Inv, [Next]_vars
  PROVE  BindsMade
<1>0. FactsInv(facts) /\ FactsOK(facts) /\ Pressable \subseteq Cards /\ Listable \subseteq Lemmas
  BY BoundsAssumption DEF Inv, FactsInv
<1>1. CASE \E c \in Pressable, p \in Presses : Press(c, p)
  <2>1. PICK c \in Pressable, p \in Presses : Press(c, p)
    BY <1>1
  <2>2. c \in DOMAIN facts.cards
    BY <2>1 DEF Press
  <2>3. PICK row \in Granted(facts, c, p, time) : facts' = AfterPress(facts, c, row, time)
    BY <2>1 DEF Press, Write
  <2>4. WrittenFor(facts, AfterPress(facts, c, row, time), c)
    BY <1>0, <2>2, PressKeeps
  <2> QED BY <2>3, <2>4, KeptBindsNone DEF WrittenFor
<1>2. CASE \E c, new \in Cards : Replace(c, new)
  <2>1. PICK c \in Cards, new \in Cards : Replace(c, new)
    BY <1>2
  <2>2. c \in Shown(facts) /\ new \in Cards \ DOMAIN facts.cards /\ WordOf[new] = WordOf[c]
    BY <2>1 DEF Replace
  <2>3. PICK row \in MoveRule(facts.cards[c], KnowledgeOfCard(facts, c), time) :
            facts' = AfterMove(facts, c, new, row, time)
    BY <2>1 DEF Replace, Write
  <2>4. WrittenFor(facts, AfterMove(facts, c, new, row, time), c)
    BY <1>0, <2>2, MoveKeeps
  <2> QED BY <2>3, <2>4, KeptBindsNone DEF WrittenFor
<1>3. CASE \E ls \in SUBSET Listable : AddKnown(ls)
  BY <1>0, <1>3, ListsBindNone, KeptBindsNone DEF AddKnown, Write
<1>4. CASE \E l \in Listable : RemoveKnown(l) \/ ReportUnknown(l) \/ RemoveUnknown(l)
  <2>1. PICK l \in Listable : RemoveKnown(l) \/ ReportUnknown(l) \/ RemoveUnknown(l)
    BY <1>4
  <2>2. l \in Lemmas
    BY <1>0
  <2>3. CASE RemoveKnown(l)
    BY <1>0, <2>3, ListsBindNone, KeptBindsNone DEF RemoveKnown, Write
  <2>4. CASE ReportUnknown(l)
    BY <1>0, <2>2, <2>4, ReportBindsNone, KeptBindsNone DEF ReportUnknown, Write
  <2>5. CASE RemoveUnknown(l)
    BY <1>0, <2>5, ListsBindNone, KeptBindsNone DEF RemoveUnknown, Write
  <2> QED BY <2>1, <2>3, <2>4, <2>5
<1>5. CASE \E s \in Deletable : DeleteSource(s)
  <2>1. PICK s \in Deletable : facts' = WithoutSource(facts, s)
    BY <1>5 DEF DeleteSource, Write
  <2>2. \A c \in DOMAIN facts'.cards : facts'.cards[c] = facts.cards[c]
    BY <1>0, <2>1, SourceKeeps
  <2> QED BY <2>2 DEF BindsMade
<1>6. CASE EndExport
  <2>1. CASE \A c \in StillSame : HasBindRule(c)
    <3>1. facts' = AfterExport(facts, StillSame, export.now)
      BY <1>6, <2>1 DEF EndExport
    <3>2. /\ StillSame \in SUBSET DOMAIN facts.cards
          /\ \A c \in StillSame : c \in export.made /\ facts.cards[c] = export.queue[c]
          /\ \A c \in StillSame :
                MayBind(WordOfCard(facts, c), c, KnowledgeOfCard(facts, c), export.now)
      BY <2>1 DEF StillSame, StillThere, HasBindRule
    <3>3. export.now \in 0 .. MaxTime
      BY ClockIsTime DEF Inv, ExportOK
    <3>4. \A c \in DOMAIN facts.cards :
              IF c \in StillSame
              THEN facts'.cards[c].note = facts.cards[c].choice
              ELSE facts'.cards[c] = facts.cards[c]
      <4> DEFINE h == AfterExport(facts, StillSame, export.now)
      <4>1. BoundAs(facts, h, StillSame)
        BY <1>0, <3>2, <3>3, ExportKeeps
      <4>2. facts' = h
        BY <3>1
      <4> HIDE DEF h
      <4> QED BY <4>1, <4>2 DEF BoundAs
    <3> QED BY <3>2, <3>4 DEF BindsMade
  <2>2. CASE ~ \A c \in StillSame : HasBindRule(c)
    BY <1>6, <2>2 DEF EndExport, BindsMade
  <2> QED BY <2>1, <2>2
<1>7. CASE facts' = facts
  BY <1>7 DEF BindsMade
<1>8. \/ \E c \in Pressable, p \in Presses : Press(c, p)
      \/ \E c, new \in Cards : Replace(c, new)
      \/ \E ls \in SUBSET Listable : AddKnown(ls)
      \/ \E l \in Listable : RemoveKnown(l) \/ ReportUnknown(l) \/ RemoveUnknown(l)
      \/ \E s \in Deletable : DeleteSource(s)
      \/ EndExport
      \/ facts' = facts
  BY DEF Next, User, Export, StartExport, AnkiQuits, PushNote, SkipNote, Tick, TimePasses, vars
<1> QED BY <1>1, <1>2, <1>3, <1>4, <1>5, <1>6, <1>7, <1>8

-----------------------------------------------------------------------------
(* The tables: one row for every state a card can be in.                   *)

(* The states of a card: its choice, its note and whether it reads Known.  *)
Possible(choice, note, reads) ==
    /\ choice \in Choices /\ note \in KindOrNone /\ reads \in BOOLEAN
    /\ note # None => choice \in {note, "known"}
    /\ reads => choice \in Kinds

(* A set of one row has one.                                               *)
LEMMA OneRow ==
  ASSUME NEW S, NEW row, row \in S, \A r \in S : r = row
  PROVE  Cardinality(S) = 1
<1>1. S = {row}
  OBVIOUS
<1> QED BY <1>1, FS_Singleton

(* The key of a row fits a card.                                           *)
MoveFits(row, choice, note, reads) ==
    row.reads = reads /\ note \in row.notes /\ choice \in row.before
RemovalFits(row, choice, note, reads) ==
    row.reads = reads /\ note \in row.notes /\ choice \in row.choices

(* The move of a card.                                                     *)
TheMove(choice, note, reads) ==
    IF note = None
    THEN IF choice \in Decisions THEN MoveRow({None}, reads, {choice}, choice, None)
                                 ELSE MoveRow({None}, reads, {choice}, None, choice)
    ELSE IF choice = "known" \/ reads THEN MoveRow({note}, reads, {choice}, "known", None)
                                      ELSE MoveRow({note}, reads, {choice}, choice, None)

(* A row of the table, for a card it fits, is the card's.                  *)
LEMMA MoveIsThe ==
  ASSUME NEW row \in MoveRows, NEW note \in row.notes, NEW choice \in row.before
  PROVE  row = TheMove(choice, note, row.reads)
<1>0. /\ None \notin Kinds /\ None \notin Decisions /\ "skip" \notin Decisions
      /\ "known" \in Decisions /\ "known" \notin Kinds /\ Kinds \subseteq Decisions
  BY DEF Decisions, Kinds, None
<1>1. CASE \E x \in Decisions : row = MoveRow({None}, FALSE, {x}, x, None)
  <2>1. PICK x \in Decisions : row = MoveRow({None}, FALSE, {x}, x, None)
    BY <1>1
  <2>2. note = None /\ choice = x /\ row.reads = FALSE
    BY <2>1 DEF MoveRow
  <2> QED BY <1>0, <2>1, <2>2 DEF TheMove
<1>2. CASE \E x \in Kinds : row = MoveRow({None}, TRUE, {x}, x, None)
  <2>1. PICK x \in Kinds : row = MoveRow({None}, TRUE, {x}, x, None)
    BY <1>2
  <2>2. note = None /\ choice = x /\ row.reads = TRUE
    BY <2>1 DEF MoveRow
  <2> QED BY <1>0, <2>1, <2>2 DEF TheMove
<1>3. CASE \E x \in {None, "skip"} : row = MoveRow({None}, FALSE, {x}, None, x)
  <2>1. PICK x \in {None, "skip"} : row = MoveRow({None}, FALSE, {x}, None, x)
    BY <1>3
  <2>2. note = None /\ choice = x /\ row.reads = FALSE
    BY <2>1 DEF MoveRow
  <2> QED BY <1>0, <2>1, <2>2 DEF TheMove
<1>4. CASE \E k \in Kinds : row = MoveRow({k}, FALSE, {"known"}, "known", None)
  <2>1. PICK k \in Kinds : row = MoveRow({k}, FALSE, {"known"}, "known", None)
    BY <1>4
  <2>2. note = k /\ choice = "known" /\ row.reads = FALSE
    BY <2>1 DEF MoveRow
  <2> QED BY <1>0, <2>1, <2>2 DEF TheMove
<1>5. CASE \E k \in Kinds : row = MoveRow({k}, TRUE, {k}, "known", None)
  <2>1. PICK k \in Kinds : row = MoveRow({k}, TRUE, {k}, "known", None)
    BY <1>5
  <2>2. note = k /\ choice = k /\ row.reads = TRUE
    BY <2>1 DEF MoveRow
  <2> QED BY <1>0, <2>1, <2>2 DEF TheMove
<1>6. CASE \E k \in Kinds : row = MoveRow({k}, FALSE, {k}, k, None)
  <2>1. PICK k \in Kinds : row = MoveRow({k}, FALSE, {k}, k, None)
    BY <1>6
  <2>2. note = k /\ choice = k /\ row.reads = FALSE
    BY <2>1 DEF MoveRow
  <2> QED BY <1>0, <2>1, <2>2 DEF TheMove
<1> QED BY <1>1, <1>2, <1>3, <1>4, <1>5, <1>6 DEF MoveRows

(* Every card has its move in the table.                                   *)
LEMMA MoveIsThere ==
  ASSUME NEW choice, NEW note, NEW reads, Possible(choice, note, reads)
  PROVE  LET row == TheMove(choice, note, reads)
         IN  row \in MoveRows /\ MoveFits(row, choice, note, reads)
<1>0. /\ None \notin Kinds /\ None \notin Decisions /\ "known" \in Decisions
      /\ "known" \notin Kinds /\ Choices = Decisions \cup {None, "skip"}
      /\ Decisions = Kinds \cup {"known"}
  BY DEF Choices, Presses, Decisions, Kinds, None
<1> DEFINE row == TheMove(choice, note, reads)
<1>b. reads \in BOOLEAN
  BY DEF Possible
<1>1. CASE note = None /\ choice \in Decisions
  <2>1. row = MoveRow({None}, reads, {choice}, choice, None)
    BY <1>1 DEF TheMove
  <2>2. reads = FALSE \/ (reads = TRUE /\ choice \in Kinds)
    BY DEF Possible
  <2>3. row \in MoveRows
    BY <1>1, <2>1, <2>2 DEF MoveRows
  <2>4. MoveFits(row, choice, note, reads)
    BY <1>1, <2>1, <1>b DEF MoveFits, MoveRow
  <2> QED BY <2>3, <2>4
<1>2. CASE note = None /\ choice \notin Decisions
  <2>1. row = MoveRow({None}, reads, {choice}, None, choice)
    BY <1>2 DEF TheMove
  <2>2. reads = FALSE /\ choice \in {None, "skip"}
    BY <1>0, <1>2 DEF Possible
  <2>3. row \in MoveRows
    BY <2>1, <2>2 DEF MoveRows
  <2>4. MoveFits(row, choice, note, reads)
    BY <1>2, <2>1, <2>2, <1>b DEF MoveFits, MoveRow
  <2> QED BY <2>3, <2>4
<1>3. CASE note # None /\ choice = "known"
  <2>1. row = MoveRow({note}, reads, {"known"}, "known", None)
    BY <1>3 DEF TheMove
  <2>2. reads = FALSE /\ note \in Kinds
    BY <1>0, <1>3 DEF Possible, KindOrNone
  <2>3. row \in MoveRows
    BY <2>1, <2>2 DEF MoveRows
  <2>4. MoveFits(row, choice, note, reads)
    BY <1>3, <2>1, <2>2, <1>b DEF MoveFits, MoveRow
  <2> QED BY <2>3, <2>4
<1>4. CASE note # None /\ choice # "known" /\ reads
  <2>1. row = MoveRow({note}, reads, {note}, "known", None) /\ choice = note /\ reads = TRUE
    BY <1>4 DEF TheMove, Possible
  <2>2. note \in Kinds
    BY <1>4 DEF Possible
  <2>3. row \in MoveRows
    BY <2>1, <2>2 DEF MoveRows
  <2>4. MoveFits(row, choice, note, reads)
    BY <2>1, <1>b DEF MoveFits, MoveRow
  <2> QED BY <2>3, <2>4
<1>5. CASE note # None /\ choice # "known" /\ ~ reads
  <2>1. row = MoveRow({note}, reads, {note}, note, None) /\ choice = note /\ reads = FALSE
    BY <1>5 DEF TheMove, Possible
  <2>2. note \in Kinds
    BY <1>5 DEF Possible, KindOrNone
  <2>3. row \in MoveRows
    BY <2>1, <2>2 DEF MoveRows
  <2>4. MoveFits(row, choice, note, reads)
    BY <2>1, <1>b DEF MoveFits, MoveRow
  <2> QED BY <2>3, <2>4
<1> QED BY <1>1, <1>2, <1>3, <1>4, <1>5

(* A card has one move.                                                    *)
LEMMA OneMove ==
  ASSUME NEW card, NEW lk, NEW now, Possible(card.choice, card.note, ReadsKnown(card, lk, now))
  PROVE  Cardinality(MoveRule(card, lk, now)) = 1
<1> DEFINE reads == ReadsKnown(card, lk, now)
           row == TheMove(card.choice, card.note, reads)
<1>1. row \in MoveRows /\ MoveFits(row, card.choice, card.note, reads)
  BY MoveIsThere
<1> HIDE DEF row
<1>2. row \in MoveRule(card, lk, now)
  BY <1>1 DEF MoveRule, MoveFits
<1>3. ASSUME NEW r \in MoveRule(card, lk, now) PROVE r = row
  <2>1. r \in MoveRows /\ r.reads = reads /\ card.note \in r.notes /\ card.choice \in r.before
    BY DEF MoveRule
  <2> HIDE DEF reads
  <2>2. r = TheMove(card.choice, card.note, r.reads)
    BY <2>1, MoveIsThe
  <2> QED BY <2>1, <2>2 DEF row
<1> QED BY <1>2, <1>3, OneRow

(* The row of a word whose Known is removed.                               *)
TheRemoval(choice, note, reads) ==
    IF choice = "known" THEN RemovalRow({"known"}, KindOrNone, reads, TRUE)
    ELSE IF reads THEN RemovalRow({choice}, {None, choice}, reads, TRUE)
    ELSE IF note = None THEN RemovalRow(KindOrNone, {None}, reads, FALSE)
    ELSE RemovalRow({note}, {note}, reads, FALSE)

(* A row of the table, for a word it fits, is the word's.                  *)
LEMMA RemovalIsThe ==
  ASSUME NEW row \in RemovalRows, NEW note \in row.notes, NEW choice \in row.choices
  PROVE  row = TheRemoval(choice, note, row.reads)
<1>0. "known" \notin KindOrNone /\ None \notin Kinds /\ "known" \notin Kinds
  BY DEF KindOrNone, Kinds, None
<1>1. CASE row = RemovalRow(KindOrNone, {None}, FALSE, FALSE)
  <2>1. choice \in KindOrNone /\ note = None /\ row.reads = FALSE
    BY <1>1 DEF RemovalRow
  <2>2. TheRemoval(choice, note, FALSE) = row
    BY <1>0, <1>1, <2>1 DEF TheRemoval
  <2> QED BY <2>1, <2>2
<1>2. CASE row = RemovalRow({"known"}, KindOrNone, FALSE, TRUE)
  <2>1. choice = "known" /\ row.reads = FALSE
    BY <1>2 DEF RemovalRow
  <2> QED BY <1>2, <2>1 DEF TheRemoval
<1>3. CASE \E k \in Kinds : row = RemovalRow({k}, {k}, FALSE, FALSE)
  <2>1. PICK k \in Kinds : row = RemovalRow({k}, {k}, FALSE, FALSE)
    BY <1>3
  <2>2. choice = k /\ note = k /\ row.reads = FALSE
    BY <2>1 DEF RemovalRow
  <2> QED BY <1>0, <2>1, <2>2 DEF TheRemoval
<1>4. CASE \E k \in Kinds : row = RemovalRow({k}, {None, k}, TRUE, TRUE)
  <2>1. PICK k \in Kinds : row = RemovalRow({k}, {None, k}, TRUE, TRUE)
    BY <1>4
  <2>2. choice = k /\ row.reads = TRUE
    BY <2>1 DEF RemovalRow
  <2> QED BY <1>0, <2>1, <2>2 DEF TheRemoval
<1> QED BY <1>1, <1>2, <1>3, <1>4 DEF RemovalRows

(* Every decision of a word has its removal in the table.                  *)
LEMMA RemovalIsThere ==
  ASSUME NEW choice, NEW note, NEW reads, Possible(choice, note, reads),
         choice # "skip", reads => note \in {None, choice}
  PROVE  LET row == TheRemoval(choice, note, reads)
         IN  row \in RemovalRows /\ RemovalFits(row, choice, note, reads)
<1>0. /\ None \notin Kinds /\ "known" \notin Kinds
      /\ Choices = KindOrNone \cup {"known", "skip"} /\ Kinds \subseteq KindOrNone
  BY DEF KindOrNone, Choices, Presses, Decisions, Kinds, None
<1> DEFINE row == TheRemoval(choice, note, reads)
<1>b. reads \in BOOLEAN
  BY DEF Possible
<1>1. CASE choice = "known"
  <2>1. row = RemovalRow({"known"}, KindOrNone, reads, TRUE)
    BY <1>1 DEF TheRemoval
  <2>2. reads = FALSE /\ note \in KindOrNone
    BY <1>0, <1>1 DEF Possible
  <2>3. row \in RemovalRows
    BY <2>1, <2>2 DEF RemovalRows
  <2>4. RemovalFits(row, choice, note, reads)
    BY <1>1, <2>1, <2>2, <1>b DEF RemovalFits, RemovalRow
  <2> QED BY <2>3, <2>4
<1>2. CASE choice # "known" /\ reads
  <2>1. row = RemovalRow({choice}, {None, choice}, reads, TRUE)
    BY <1>2 DEF TheRemoval
  <2>2. reads = TRUE /\ choice \in Kinds /\ note \in {None, choice}
    BY <1>2 DEF Possible
  <2>3. row \in RemovalRows
    BY <2>1, <2>2 DEF RemovalRows
  <2>4. RemovalFits(row, choice, note, reads)
    BY <2>1, <2>2, <1>b DEF RemovalFits, RemovalRow
  <2> QED BY <2>3, <2>4
<1>3. CASE choice # "known" /\ ~ reads /\ note = None
  <2>1. row = RemovalRow(KindOrNone, {None}, reads, FALSE)
    BY <1>3 DEF TheRemoval
  <2>2. reads = FALSE /\ choice \in KindOrNone
    BY <1>0, <1>3 DEF Possible
  <2>3. row \in RemovalRows
    BY <2>1, <2>2 DEF RemovalRows
  <2>4. RemovalFits(row, choice, note, reads)
    BY <1>3, <2>1, <2>2, <1>b DEF RemovalFits, RemovalRow
  <2> QED BY <2>3, <2>4
<1>4. CASE choice # "known" /\ ~ reads /\ note # None
  <2>1. row = RemovalRow({note}, {note}, reads, FALSE)
    BY <1>4 DEF TheRemoval
  <2>2. reads = FALSE /\ choice = note /\ note \in Kinds
    BY <1>4 DEF Possible, KindOrNone
  <2>3. row \in RemovalRows
    BY <2>1, <2>2 DEF RemovalRows
  <2>4. RemovalFits(row, choice, note, reads)
    BY <2>1, <2>2, <1>b DEF RemovalFits, RemovalRow
  <2> QED BY <2>3, <2>4
<1> QED BY <1>1, <1>2, <1>3, <1>4

(* The states of a card and its word at a press.                           *)
MayMeet(role, choice, note, reads, elsewhere) ==
    /\ Possible(choice, note, reads)
    /\ role \in {"open", "decision", "other"} /\ elsewhere \in BOOLEAN
    /\ elsewhere => role = "open"
    /\ role = "decision" <=> choice \in Decisions

PressFits(row, role, choice, note, reads, elsewhere, p) ==
    /\ row.role = role /\ row.reads = reads /\ row.elsewhere = elsewhere
    /\ note \in row.notes /\ choice \in row.before /\ p \in row.presses

(* The press of an open word, and of one decided on this card.             *)
TheOpen(choice, reads, elsewhere, p) ==
    IF elsewhere
    THEN PressRow("open", {None}, reads, elsewhere, {None, "skip"}, Presses, Refused, FALSE)
    ELSE IF p # "skip"
    THEN PressRow("open", {None}, reads, elsewhere, {None, "skip"}, {p}, p, FALSE)
    ELSE PressRow("open", {None}, reads, elsewhere, {choice}, {"skip"},
                  IF choice = None THEN "skip" ELSE None, FALSE)

TheUnbound(choice, reads, p) ==
    IF p = choice \/ (reads /\ p = "known") THEN IF reads /\ p = choice
                                                 THEN UnboundRow(reads, Kinds, {p}, p)
                                                 ELSE UnboundRow(reads, {choice}, {p}, None)
    ELSE IF choice = "known" \/ (~ reads /\ p \in Kinds) THEN UnboundRow(reads, {choice}, {p}, p)
    ELSE UnboundRow(reads, Kinds, {p}, p)

TheBound(choice, note, reads, p) ==
    IF choice # "known" /\ ~ reads /\ p = "known"
    THEN PressRow("decision", {note}, reads, FALSE, {choice}, {p}, p, FALSE)
    ELSE BoundRow(note, reads, {choice}, {p},
                  IF p = "known" \/ (p = choice /\ ~ reads) THEN None ELSE p)

ThePress(role, choice, note, reads, elsewhere, p) ==
    CASE role = "open"  -> TheOpen(choice, reads, elsewhere, p)
      [] role = "other" -> PressRow("other", {None}, reads, elsewhere, {None, "skip"}, Presses,
                                    Refused, FALSE)
      [] OTHER          -> IF note = None THEN TheUnbound(choice, reads, p)
                                          ELSE TheBound(choice, note, reads, p)

(* The names of the presses and the choices differ.                        *)
LEMMA PressNames ==
  /\ None \notin Kinds /\ "known" \notin Kinds /\ "skip" \notin Kinds /\ None # "skip"
  /\ None # "known" /\ Decisions = Kinds \cup {"known"}
  /\ Presses = Kinds \cup {"known", "skip"} /\ Choices = Kinds \cup {"known", "skip", None}
  /\ KindOrNone = Kinds \cup {None}
  /\ \A k \in Kinds : OtherKind(k) \in Kinds /\ OtherKind(k) # k
  /\ \A k, j \in Kinds : j # k => j = OtherKind(k)
BY DEF Choices, Presses, Decisions, KindOrNone, Kinds, None, OtherKind

(* A row for an open word, for a card it fits, is the card's.              *)
LEMMA OpenIsThe ==
  ASSUME NEW row \in OpenRows, NEW note \in row.notes, NEW choice \in row.before,
         NEW p \in row.presses
  PROVE  row.role = "open" /\ row = TheOpen(choice, row.reads, row.elsewhere, p)
<1>1. CASE \E q \in Decisions :
              row = PressRow("open", {None}, FALSE, FALSE, {None, "skip"}, {q}, q, FALSE)
  <2>1. PICK q \in Decisions :
              row = PressRow("open", {None}, FALSE, FALSE, {None, "skip"}, {q}, q, FALSE)
    BY <1>1
  <2>2. p = q /\ row.reads = FALSE /\ row.elsewhere = FALSE /\ row.role = "open"
    BY <2>1 DEF PressRow
  <2>3. q # "skip"
    BY PressNames
  <2> QED BY <2>1, <2>2, <2>3 DEF TheOpen
<1>2. CASE row = PressRow("open", {None}, FALSE, FALSE, {None}, {"skip"}, "skip", FALSE)
  <2>2. /\ p = "skip" /\ choice = None /\ row.reads = FALSE /\ row.elsewhere = FALSE
        /\ row.role = "open"
    BY <1>2 DEF PressRow
  <2> QED BY <1>2, <2>2 DEF TheOpen
<1>3. CASE row = PressRow("open", {None}, FALSE, FALSE, {"skip"}, {"skip"}, None, FALSE)
  <2>2. /\ p = "skip" /\ choice = "skip" /\ row.reads = FALSE /\ row.elsewhere = FALSE
        /\ row.role = "open"
    BY <1>3 DEF PressRow
  <2> QED BY <1>3, <2>2, PressNames DEF TheOpen
<1>4. CASE row = PressRow("open", {None}, FALSE, TRUE, {None, "skip"}, Presses, Refused, FALSE)
  <2>2. row.reads = FALSE /\ row.elsewhere = TRUE /\ row.role = "open"
    BY <1>4 DEF PressRow
  <2> QED BY <1>4, <2>2 DEF TheOpen
<1> QED BY <1>1, <1>2, <1>3, <1>4 DEF OpenRows

(* So is a row for a decision without a note.                              *)
LEMMA UnboundIsThe ==
  ASSUME NEW row \in UnboundRows, NEW note \in row.notes, NEW choice \in row.before,
         NEW p \in row.presses
  PROVE  /\ row.role = "decision" /\ note = None
         /\ row = TheUnbound(choice, row.reads, p)
<1>1. CASE \E k \in Kinds : row = UnboundRow(FALSE, {k}, {k}, None)
  <2>1. PICK k \in Kinds : row = UnboundRow(FALSE, {k}, {k}, None)
    BY <1>1
  <2>2. /\ row.role = "decision" /\ note = None /\ row.reads = FALSE
        /\ choice = k /\ p = k
    BY <2>1 DEF UnboundRow, PressRow
  <2> QED BY <2>1, <2>2, PressNames DEF TheUnbound
<1>2. CASE \E k \in Kinds : row = UnboundRow(FALSE, {k}, {OtherKind(k)}, OtherKind(k))
  <2>1. PICK k \in Kinds : row = UnboundRow(FALSE, {k}, {OtherKind(k)}, OtherKind(k))
    BY <1>2
  <2>2. /\ row.role = "decision" /\ note = None /\ row.reads = FALSE
        /\ choice = k /\ p = OtherKind(k)
    BY <2>1 DEF UnboundRow, PressRow
  <2> QED BY <2>1, <2>2, PressNames DEF TheUnbound
<1>3. CASE \E k \in Kinds : row = UnboundRow(TRUE, {k}, {"known"}, None)
  <2>1. PICK k \in Kinds : row = UnboundRow(TRUE, {k}, {"known"}, None)
    BY <1>3
  <2>2. /\ row.role = "decision" /\ note = None /\ row.reads = TRUE
        /\ choice = k /\ p = "known"
    BY <2>1 DEF UnboundRow, PressRow
  <2> QED BY <2>1, <2>2, PressNames DEF TheUnbound
<1>4. CASE \E q \in Kinds \cup {"skip"} : row = UnboundRow(TRUE, Kinds, {q}, q)
  <2>1. PICK q \in Kinds \cup {"skip"} : row = UnboundRow(TRUE, Kinds, {q}, q)
    BY <1>4
  <2>2. /\ row.role = "decision" /\ note = None /\ row.reads = TRUE
        /\ choice \in Kinds /\ p = q
    BY <2>1 DEF UnboundRow, PressRow
  <2> QED BY <2>1, <2>2, PressNames DEF TheUnbound
<1>5. CASE \E q \in {"known", "skip"} : row = UnboundRow(FALSE, Kinds, {q}, q)
  <2>1. PICK q \in {"known", "skip"} : row = UnboundRow(FALSE, Kinds, {q}, q)
    BY <1>5
  <2>2. /\ row.role = "decision" /\ note = None /\ row.reads = FALSE
        /\ choice \in Kinds /\ p = q
    BY <2>1 DEF UnboundRow, PressRow
  <2>3. q \notin Kinds /\ q # choice /\ choice # "known"
    BY <2>2, PressNames
  <2> QED BY <2>1, <2>2, <2>3, PressNames DEF TheUnbound
<1>6. CASE row = UnboundRow(FALSE, {"known"}, {"known"}, None)
  <2>2. /\ row.role = "decision" /\ note = None /\ row.reads = FALSE
        /\ choice = "known" /\ p = "known"
    BY <1>6 DEF UnboundRow, PressRow
  <2> QED BY <1>6, <2>2, PressNames DEF TheUnbound
<1>7. CASE \E q \in Kinds \cup {"skip"} : row = UnboundRow(FALSE, {"known"}, {q}, q)
  <2>1. PICK q \in Kinds \cup {"skip"} : row = UnboundRow(FALSE, {"known"}, {q}, q)
    BY <1>7
  <2>2. /\ row.role = "decision" /\ note = None /\ row.reads = FALSE
        /\ choice = "known" /\ p = q
    BY <2>1 DEF UnboundRow, PressRow
  <2> QED BY <2>1, <2>2, PressNames DEF TheUnbound
<1> QED BY <1>1, <1>2, <1>3, <1>4, <1>5, <1>6, <1>7 DEF UnboundRows

(* And a row for a decision with a note.                                   *)
LEMMA BoundIsThe ==
  ASSUME NEW row \in BoundRows, NEW note \in row.notes, NEW choice \in row.before,
         NEW p \in row.presses
  PROVE  /\ row.role = "decision" /\ note \in Kinds
         /\ row = TheBound(choice, note, row.reads, p)
<1>1. CASE \E k \in Kinds :
              row = PressRow("decision", {k}, FALSE, FALSE, {k}, {"known"}, "known", FALSE)
  <2>1. PICK k \in Kinds :
              row = PressRow("decision", {k}, FALSE, FALSE, {k}, {"known"}, "known", FALSE)
    BY <1>1
  <2>2. note = k /\ choice = k /\ p = "known" /\ row.reads = FALSE /\ row.role = "decision"
    BY <2>1 DEF PressRow
  <2> QED BY <2>1, <2>2, PressNames DEF TheBound
<1>2. CASE \E k \in Kinds : row = BoundRow(k, FALSE, {k}, {k}, None)
  <2>1. PICK k \in Kinds : row = BoundRow(k, FALSE, {k}, {k}, None)
    BY <1>2
  <2>2. /\ row.role = "decision" /\ note = k /\ row.reads = FALSE
        /\ choice = k /\ p = k
    BY <2>1 DEF BoundRow, PressRow
  <2> QED BY <2>1, <2>2, PressNames DEF TheBound
<1>3. CASE \E k \in Kinds : row = BoundRow(k, FALSE, {k}, {OtherKind(k)}, OtherKind(k))
  <2>1. PICK k \in Kinds : row = BoundRow(k, FALSE, {k}, {OtherKind(k)}, OtherKind(k))
    BY <1>3
  <2>2. /\ row.role = "decision" /\ note = k /\ row.reads = FALSE
        /\ choice = k /\ p = OtherKind(k)
    BY <2>1 DEF BoundRow, PressRow
  <2>3. OtherKind(k) # k /\ OtherKind(k) # "known" /\ k # "known"
    BY PressNames
  <2> QED BY <2>1, <2>2, <2>3, PressNames DEF TheBound
<1>4. CASE \E k \in Kinds : row = BoundRow(k, FALSE, {k}, {"skip"}, "skip")
  <2>1. PICK k \in Kinds : row = BoundRow(k, FALSE, {k}, {"skip"}, "skip")
    BY <1>4
  <2>2. /\ row.role = "decision" /\ note = k /\ row.reads = FALSE
        /\ choice = k /\ p = "skip"
    BY <2>1 DEF BoundRow, PressRow
  <2> QED BY <2>1, <2>2, PressNames DEF TheBound
<1>5. CASE \E k \in Kinds : row = BoundRow(k, FALSE, {"known"}, {"known"}, None)
  <2>1. PICK k \in Kinds : row = BoundRow(k, FALSE, {"known"}, {"known"}, None)
    BY <1>5
  <2>2. /\ row.role = "decision" /\ note = k /\ row.reads = FALSE
        /\ choice = "known" /\ p = "known"
    BY <2>1 DEF BoundRow, PressRow
  <2> QED BY <2>1, <2>2, PressNames DEF TheBound
<1>6. CASE \E k \in Kinds, q \in Kinds \cup {"skip"} : row = BoundRow(k, FALSE, {"known"}, {q}, q)
  <2>1. PICK k \in Kinds, q \in Kinds \cup {"skip"} : row = BoundRow(k, FALSE, {"known"}, {q}, q)
    BY <1>6
  <2>2. /\ row.role = "decision" /\ note = k /\ row.reads = FALSE
        /\ choice = "known" /\ p = q
    BY <2>1 DEF BoundRow, PressRow
  <2> QED BY <2>1, <2>2, PressNames DEF TheBound
<1>7. CASE \E k \in Kinds : row = BoundRow(k, TRUE, {k}, {"known"}, None)
  <2>1. PICK k \in Kinds : row = BoundRow(k, TRUE, {k}, {"known"}, None)
    BY <1>7
  <2>2. /\ row.role = "decision" /\ note = k /\ row.reads = TRUE
        /\ choice = k /\ p = "known"
    BY <2>1 DEF BoundRow, PressRow
  <2> QED BY <2>1, <2>2, PressNames DEF TheBound
<1>8. CASE \E k \in Kinds, q \in Kinds \cup {"skip"} : row = BoundRow(k, TRUE, {k}, {q}, q)
  <2>1. PICK k \in Kinds, q \in Kinds \cup {"skip"} : row = BoundRow(k, TRUE, {k}, {q}, q)
    BY <1>8
  <2>2. /\ row.role = "decision" /\ note = k /\ row.reads = TRUE
        /\ choice = k /\ p = q
    BY <2>1 DEF BoundRow, PressRow
  <2> QED BY <2>1, <2>2, PressNames DEF TheBound
<1> QED BY <1>1, <1>2, <1>3, <1>4, <1>5, <1>6, <1>7, <1>8, BoundRowsAre DEF BoundListed

(* The press of an open word is in the table.                              *)
LEMMA OpenIsThere ==
  ASSUME NEW choice \in {None, "skip"}, NEW reads \in BOOLEAN, ~ reads,
         NEW elsewhere \in BOOLEAN, NEW p \in Presses
  PROVE  LET row == TheOpen(choice, reads, elsewhere, p)
         IN  row \in OpenRows /\ PressFits(row, "open", choice, None, reads, elsewhere, p)
<1> DEFINE row == TheOpen(choice, reads, elsewhere, p)
<1>0. reads = FALSE /\ p \in Decisions \cup {"skip"} /\ "skip" \notin Decisions
  BY PressNames
<1>1. CASE elsewhere
  <2>1. row = PressRow("open", {None}, reads, elsewhere, {None, "skip"}, Presses, Refused, FALSE)
    BY <1>1 DEF TheOpen
  <2>2. elsewhere = TRUE
    BY <1>1
  <2>3. row \in OpenRows
    BY <1>0, <2>1, <2>2 DEF OpenRows
  <2>4. PressFits(row, "open", choice, None, reads, elsewhere, p)
    BY <2>1 DEF PressFits, PressRow
  <2> QED BY <2>3, <2>4
<1>2. CASE ~ elsewhere /\ p # "skip"
  <2>1. row = PressRow("open", {None}, reads, elsewhere, {None, "skip"}, {p}, p, FALSE)
    BY <1>2 DEF TheOpen
  <2>2. elsewhere = FALSE /\ p \in Decisions
    BY <1>0, <1>2
  <2>3. row \in OpenRows
    BY <1>0, <2>1, <2>2 DEF OpenRows
  <2>4. PressFits(row, "open", choice, None, reads, elsewhere, p)
    BY <2>1 DEF PressFits, PressRow
  <2> QED BY <2>3, <2>4
<1>3. CASE ~ elsewhere /\ p = "skip"
  <2>1. row = PressRow("open", {None}, reads, elsewhere, {choice}, {"skip"},
                       IF choice = None THEN "skip" ELSE None, FALSE)
    BY <1>3 DEF TheOpen
  <2>2. elsewhere = FALSE
    BY <1>3
  <2>3. row \in OpenRows
    BY <1>0, <2>1, <2>2, PressNames DEF OpenRows
  <2>4. PressFits(row, "open", choice, None, reads, elsewhere, p)
    BY <1>3, <2>1 DEF PressFits, PressRow
  <2> QED BY <2>3, <2>4
<1> QED BY <1>1, <1>2, <1>3

(* So is the press of a decision without a note.                           *)
LEMMA UnboundIsThere ==
  ASSUME NEW choice \in Decisions, NEW reads \in BOOLEAN, reads => choice \in Kinds,
         NEW p \in Presses
  PROVE  LET row == TheUnbound(choice, reads, p)
         IN  row \in UnboundRows /\ PressFits(row, "decision", choice, None, reads, FALSE, p)
<1> DEFINE row == TheUnbound(choice, reads, p)
<1>1. CASE choice = "known"
  <2>1. row = UnboundRow(reads, {"known"}, {p}, IF p = "known" THEN None ELSE p)
    BY <1>1, PressNames DEF TheUnbound
  <2>2. reads = FALSE
    BY <1>1, PressNames
  <2>3. row \in UnboundRows
    <3>1. CASE p = "known"
      BY <2>1, <2>2, <3>1 DEF UnboundRows
    <3>2. CASE p # "known"
      <4>1. p \in Kinds \cup {"skip"}
        BY <3>2, PressNames
      <4> QED BY <2>1, <2>2, <3>2, <4>1 DEF UnboundRows
    <3> QED BY <3>1, <3>2
  <2>4. PressFits(row, "decision", choice, None, reads, FALSE, p)
    BY <1>1, <2>1 DEF PressFits, UnboundRow, PressRow
  <2> QED BY <2>3, <2>4
<1>2. CASE choice \in Kinds /\ reads
  <2>1. row = IF p = "known" THEN UnboundRow(reads, {choice}, {p}, None)
                             ELSE UnboundRow(reads, Kinds, {p}, p)
    BY <1>2, PressNames DEF TheUnbound
  <2>2. reads = TRUE
    BY <1>2
  <2>3. row \in UnboundRows
    <3>1. CASE p = "known"
      BY <1>2, <2>1, <2>2, <3>1 DEF UnboundRows
    <3>2. CASE p # "known"
      <4>1. p \in Kinds \cup {"skip"}
        BY <3>2, PressNames
      <4> QED BY <2>1, <2>2, <3>2, <4>1 DEF UnboundRows
    <3> QED BY <3>1, <3>2
  <2>4. PressFits(row, "decision", choice, None, reads, FALSE, p)
    <3>1. row.role = "decision" /\ row.reads = reads /\ row.elsewhere = FALSE
          /\ row.notes = {None} /\ choice \in row.before /\ p \in row.presses
      <4>1. CASE p = "known"
        <5>1. row = UnboundRow(reads, {choice}, {p}, None)
          BY <2>1, <4>1
        <5> HIDE DEF row
        <5> QED BY <5>1 DEF UnboundRow, PressRow
      <4>2. CASE p # "known"
        <5>1. row = UnboundRow(reads, Kinds, {p}, p)
          BY <2>1, <4>2
        <5> HIDE DEF row
        <5> QED BY <1>2, <5>1 DEF UnboundRow, PressRow
      <4> QED BY <4>1, <4>2
    <3> QED BY <3>1 DEF PressFits
  <2> QED BY <2>3, <2>4
<1>3. CASE choice \in Kinds /\ ~ reads
  <2>1. row = IF p = choice THEN UnboundRow(reads, {choice}, {p}, None)
              ELSE IF p \in Kinds THEN UnboundRow(reads, {choice}, {p}, p)
              ELSE UnboundRow(reads, Kinds, {p}, p)
    BY <1>3, PressNames DEF TheUnbound
  <2>2. reads = FALSE
    BY <1>3
  <2>3. row \in UnboundRows
    <3>1. CASE p = choice
      BY <1>3, <2>1, <2>2, <3>1 DEF UnboundRows
    <3>2. CASE p # choice /\ p \in Kinds
      <4>1. p = OtherKind(choice)
        BY <1>3, <3>2, PressNames
      <4> QED BY <1>3, <2>1, <2>2, <3>2, <4>1 DEF UnboundRows
    <3>3. CASE p # choice /\ p \notin Kinds
      <4>1. p \in {"known", "skip"}
        BY <3>3, PressNames
      <4> QED BY <2>1, <2>2, <3>3, <4>1 DEF UnboundRows
    <3> QED BY <3>1, <3>2, <3>3
  <2>4. PressFits(row, "decision", choice, None, reads, FALSE, p)
    BY <1>3, <2>1 DEF PressFits, UnboundRow, PressRow
  <2> QED BY <2>3, <2>4
<1> QED BY <1>1, <1>2, <1>3, PressNames

(* And the press of a decision with one.                                   *)
LEMMA BoundIsThere ==
  ASSUME NEW note \in Kinds, NEW choice \in {note, "known"}, NEW reads \in BOOLEAN,
         reads => choice = note, NEW p \in Presses
  PROVE  LET row == TheBound(choice, note, reads, p)
         IN  row \in BoundRows /\ PressFits(row, "decision", choice, note, reads, FALSE, p)
<1> DEFINE row == TheBound(choice, note, reads, p)
<1>0. note # "known"
  BY PressNames
<1>1. CASE choice = "known"
  <2>1. row = BoundRow(note, reads, {"known"}, {p}, IF p = "known" THEN None ELSE p)
    BY <1>0, <1>1 DEF TheBound
  <2>2. reads = FALSE
    BY <1>0, <1>1
  <2>3. BoundListed(row)
    <3>1. CASE p = "known"
      BY <2>1, <2>2, <3>1 DEF BoundListed
    <3>2. CASE p # "known"
      <4>1. p \in Kinds \cup {"skip"} /\ row = BoundRow(note, FALSE, {"known"}, {p}, p)
        BY <2>1, <2>2, <3>2, PressNames
      <4> HIDE DEF row
      <4> QED BY <4>1 DEF BoundListed
    <3> QED BY <3>1, <3>2
  <2>4. PressFits(row, "decision", choice, note, reads, FALSE, p)
    BY <1>1, <2>1 DEF PressFits, BoundRow, PressRow
  <2> QED BY <2>3, <2>4, BoundRowsAre
<1>2. CASE choice = note /\ reads
  <2>1. row = BoundRow(note, reads, {note}, {p}, IF p = "known" THEN None ELSE p)
    BY <1>0, <1>2, PressNames DEF TheBound
  <2>2. reads = TRUE
    BY <1>2
  <2>3. BoundListed(row)
    <3>1. CASE p = "known"
      BY <2>1, <2>2, <3>1 DEF BoundListed
    <3>2. CASE p # "known"
      <4>1. p \in Kinds \cup {"skip"} /\ row = BoundRow(note, TRUE, {note}, {p}, p)
        BY <2>1, <2>2, <3>2, PressNames
      <4> HIDE DEF row
      <4> QED BY <4>1 DEF BoundListed
    <3> QED BY <3>1, <3>2
  <2>4. PressFits(row, "decision", choice, note, reads, FALSE, p)
    <3> HIDE DEF row
    <3> QED BY <1>2, <2>1, <2>2 DEF PressFits, BoundRow, PressRow
  <2> QED BY <2>3, <2>4, BoundRowsAre
<1>3. CASE choice = note /\ ~ reads
  <2>1. row = IF p = "known" THEN PressRow("decision", {note}, reads, FALSE, {note}, {p}, p, FALSE)
              ELSE BoundRow(note, reads, {note}, {p}, IF p = note THEN None ELSE p)
    BY <1>0, <1>3 DEF TheBound
  <2>2. reads = FALSE
    BY <1>3
  <2>3. BoundListed(row)
    <3>1. CASE p = "known"
      <4>1. row = PressRow("decision", {note}, FALSE, FALSE, {note}, {"known"}, "known", FALSE)
        BY <2>1, <2>2, <3>1
      <4> HIDE DEF row
      <4> QED BY <4>1 DEF BoundListed
    <3>2. CASE p = note
      <4>1. row = BoundRow(note, FALSE, {note}, {note}, None)
        BY <1>0, <2>1, <2>2, <3>2
      <4> HIDE DEF row
      <4> QED BY <4>1 DEF BoundListed
    <3>3. CASE p # note /\ p \in Kinds
      <4>1. p = OtherKind(note) /\ p # "known"
        BY <3>3, PressNames
      <4>2. row = BoundRow(note, FALSE, {note}, {OtherKind(note)}, OtherKind(note))
        BY <2>1, <2>2, <3>3, <4>1
      <4> HIDE DEF row
      <4> QED BY <4>2 DEF BoundListed
    <3>4. CASE p = "skip"
      <4>1. "skip" # note
        BY PressNames
      <4>2. row = BoundRow(note, FALSE, {note}, {"skip"}, "skip")
        BY <2>1, <2>2, <3>4, <4>1
      <4> HIDE DEF row
      <4> QED BY <4>2 DEF BoundListed
    <3> QED BY <3>1, <3>2, <3>3, <3>4, PressNames
  <2>4. PressFits(row, "decision", choice, note, reads, FALSE, p)
    BY <1>3, <2>1 DEF PressFits, BoundRow, PressRow
  <2> QED BY <2>3, <2>4, BoundRowsAre
<1> QED BY <1>1, <1>2, <1>3

(* Every press of every card is in the table, and no other row fits it.    *)
LEMMA PressIsThere ==
  ASSUME NEW role, NEW choice, NEW note, NEW reads, NEW elsewhere, NEW p \in Presses,
         MayMeet(role, choice, note, reads, elsewhere)
  PROVE  LET row == ThePress(role, choice, note, reads, elsewhere, p)
         IN  row \in PressRows /\ PressFits(row, role, choice, note, reads, elsewhere, p)
<1> DEFINE row == ThePress(role, choice, note, reads, elsewhere, p)
<1>0. reads \in BOOLEAN /\ elsewhere \in BOOLEAN
  BY DEF MayMeet, Possible
<1>1. role # "decision" => choice \in {None, "skip"} /\ note = None /\ ~ reads
  BY PressNames DEF MayMeet, Possible
<1>2. CASE role = "open"
  <2>1. row = TheOpen(choice, reads, elsewhere, p)
    BY <1>2 DEF ThePress
  <2> HIDE DEF row
  <2>2. choice \in {None, "skip"} /\ note = None /\ ~ reads
    BY <1>1, <1>2
  <2>3. row \in OpenRows /\ PressFits(row, "open", choice, None, reads, elsewhere, p)
    BY <1>0, <2>1, <2>2, OpenIsThere
  <2> QED BY <1>2, <2>2, <2>3 DEF row, PressRows
<1>3. CASE role = "other"
  <2>1. row = PressRow("other", {None}, reads, elsewhere, {None, "skip"}, Presses, Refused, FALSE)
    BY <1>3 DEF ThePress
  <2>2. reads = FALSE /\ elsewhere = FALSE
    BY <1>0, <1>1, <1>3 DEF MayMeet
  <2>3. row \in PressRows
    BY <2>1, <2>2 DEF PressRows
  <2>4. PressFits(row, role, choice, note, reads, elsewhere, p)
    BY <1>1, <1>3, <2>1 DEF PressFits, PressRow
  <2> QED BY <2>3, <2>4
<1>4. CASE role = "decision"
  <2>1. choice \in Decisions /\ elsewhere = FALSE /\ (reads => choice \in Kinds)
    BY <1>0, <1>4 DEF MayMeet, Possible
  <2>2. CASE note = None
    <3>1. row = TheUnbound(choice, reads, p)
      BY <1>4, <2>2 DEF ThePress
    <3> HIDE DEF row
    <3>2. row \in UnboundRows /\ PressFits(row, "decision", choice, None, reads, FALSE, p)
      BY <1>0, <2>1, <3>1, UnboundIsThere
    <3> QED BY <1>4, <2>1, <2>2, <3>2 DEF row, PressRows
  <2>3. CASE note # None
    <3>1. row = TheBound(choice, note, reads, p)
      BY <1>4, <2>3 DEF ThePress
    <3>2. note \in Kinds /\ choice \in {note, "known"} /\ (reads => choice = note)
      BY <2>1, <2>3, PressNames DEF MayMeet, Possible
    <3> HIDE DEF row
    <3>3. row \in BoundRows /\ PressFits(row, "decision", choice, note, reads, FALSE, p)
      BY <1>0, <3>1, <3>2, BoundIsThere
    <3> QED BY <1>4, <2>1, <3>3 DEF row, PressRows
  <2> QED BY <2>2, <2>3
<1> QED BY <1>2, <1>3, <1>4 DEF MayMeet

(* A row of the table, for a card it fits, is the card's.                  *)
LEMMA PressIsThe ==
  ASSUME NEW row \in PressRows, NEW choice, NEW note, NEW p,
         PressFits(row, row.role, choice, note, row.reads, row.elsewhere, p)
  PROVE  row = ThePress(row.role, choice, note, row.reads, row.elsewhere, p)
<1>0. note \in row.notes /\ choice \in row.before /\ p \in row.presses
  BY DEF PressFits
<1>1. CASE row \in OpenRows
  <2>1. row.role = "open" /\ row = TheOpen(choice, row.reads, row.elsewhere, p)
    BY <1>0, <1>1, OpenIsThe
  <2> QED BY <2>1 DEF ThePress
<1>2. CASE row \in UnboundRows
  <2>1. row.role = "decision" /\ note = None /\ row = TheUnbound(choice, row.reads, p)
    BY <1>0, <1>2, UnboundIsThe
  <2> QED BY <2>1 DEF ThePress
<1>3. CASE row \in BoundRows
  <2>1. row.role = "decision" /\ note \in Kinds /\ row = TheBound(choice, note, row.reads, p)
    BY <1>0, <1>3, BoundIsThe
  <2> QED BY <2>1, PressNames DEF ThePress
<1>4. CASE row = PressRow("other", {None}, FALSE, FALSE, {None, "skip"}, Presses, Refused, FALSE)
  <2>1. row.role = "other" /\ row.reads = FALSE /\ row.elsewhere = FALSE
    BY <1>4 DEF PressRow
  <2> QED BY <1>4, <2>1 DEF ThePress
<1> QED BY <1>1, <1>2, <1>3, <1>4 DEF PressRows

(* The states of a card of the facts.                                      *)
LEMMA CardMay ==
  ASSUME NEW f, FactsInv(f), NEW c \in DOMAIN f.cards, NEW lk, NEW now
  PROVE  Possible(f.cards[c].choice, f.cards[c].note, ReadsKnown(f.cards[c], lk, now))
<1>1. f.cards[c] \in CardFact
  BY FactsParts DEF FactsInv
<1>2. f.cards[c].choice \in Choices /\ f.cards[c].note \in KindOrNone
  BY <1>1 DEF CardFact
<1>3. f.cards[c].note # None => f.cards[c].choice \in {f.cards[c].note, "known"}
  BY DEF FactsInv, NotesFit, NoteFits
<1> QED BY <1>2, <1>3 DEF Possible, ReadsKnown

(* A press of a card of the facts meets one row.                           *)
LEMMA OnePress ==
  ASSUME NEW f, FactsInv(f), NEW c \in DOMAIN f.cards, NEW p \in Presses, NEW now
  PROVE  Cardinality(RowsOfPress(f, c, p, now)) = 1
<1> DEFINE word == WordOfCard(f, c)
           lk == KnowledgeOfCard(f, c)
           card == word[c]
           role == RoleOf(word, card)
           reads == ReadsKnown(card, lk, now)
           elsewhere == role = "open" /\ Elsewhere(lk, now) # None
           row == ThePress(role, card.choice, card.note, reads, elsewhere, p)
<1>1. c \in DOMAIN word /\ card = f.cards[c]
  BY WordHolds
<1>2. Possible(card.choice, card.note, reads)
  BY <1>1, CardMay
<1>3. /\ role \in {"open", "decision", "other"}
      /\ role = "decision" <=> card.choice \in Decisions
  BY <1>1 DEF RoleOf, IsDecision, Decided
<1>4. MayMeet(role, card.choice, card.note, reads, elsewhere)
  BY <1>2, <1>3 DEF MayMeet
<1>5. RowsOfPress(f, c, p, now) =
        {r \in PressRows : PressFits(r, role, card.choice, card.note, reads, elsewhere, p)}
  BY DEF RowsOfPress, PressRule, PressFits
<1> HIDE DEF word, lk, card, role, reads, elsewhere
<1>6. row \in PressRows /\ PressFits(row, role, card.choice, card.note, reads, elsewhere, p)
  BY <1>4, PressIsThere
<1>7. ASSUME NEW r \in PressRows,
             PressFits(r, role, card.choice, card.note, reads, elsewhere, p)
      PROVE  r = row
  <2>1. r.role = role /\ r.reads = reads /\ r.elsewhere = elsewhere
    BY <1>7 DEF PressFits
  <2>2. r = ThePress(r.role, card.choice, card.note, r.reads, r.elsewhere, p)
    BY <1>7, <2>1, PressIsThe
  <2> QED BY <2>1, <2>2
<1> HIDE DEF row
<1> QED BY <1>5, <1>6, <1>7, OneRow

(* Known removed from a word follows one row.                              *)
LEMMA OneRemoval ==
  ASSUME NEW f, FactsInv(f), NEW w, NEW lk, NEW now
  PROVE  Cardinality(RemovalRule(Word(f, w), lk, now)) = 1
<1> DEFINE word == Word(f, w)
           card == DecisionOf(word)
           reads == ReadsKnown(card, lk, now)
           row == TheRemoval(card.choice, card.note, reads)
<1>1. \A c \in DOMAIN word : c \in DOMAIN f.cards /\ word[c] = f.cards[c]
  BY DEF Word, WordCards
<1>2. /\ Possible(card.choice, card.note, reads)
      /\ card.choice # "skip"
  <2>1. CASE Decided(word)
    <3>1. PICK c \in DOMAIN word : card = word[c] /\ IsDecision(word[c])
      BY <2>1 DEF DecisionOf, Decided
    <3>2. c \in DOMAIN f.cards /\ card = f.cards[c] /\ IsDecision(card)
      BY <1>1, <3>1
    <3> HIDE DEF card
    <3>3. Possible(card.choice, card.note, reads)
      BY <3>2, CardMay
    <3> QED BY <3>2, <3>3, PressNames DEF IsDecision
  <2>2. CASE ~ Decided(word)
    <3>1. card = Blank
      BY <2>2 DEF DecisionOf
    <3> HIDE DEF card
    <3> QED BY <3>1, PressNames DEF Possible, ReadsKnown, Blank
  <2> QED BY <2>1, <2>2
<1>3. reads => card.note \in {None, card.choice}
  BY DEF ReadsKnown
<1>4. RemovalRule(word, lk, now) =
        {r \in RemovalRows : RemovalFits(r, card.choice, card.note, reads)}
  BY DEF RemovalRule, RemovalFits
<1> HIDE DEF word, card, reads
<1>5. row \in RemovalRows /\ RemovalFits(row, card.choice, card.note, reads)
  BY <1>2, <1>3, RemovalIsThere
<1>6. ASSUME NEW r \in RemovalRows, RemovalFits(r, card.choice, card.note, reads)
      PROVE  r = row
  <2>1. r.reads = reads /\ card.note \in r.notes /\ card.choice \in r.choices
    BY <1>6 DEF RemovalFits
  <2>2. r = TheRemoval(card.choice, card.note, r.reads)
    BY <2>1, RemovalIsThe
  <2> QED BY <2>1, <2>2
<1> HIDE DEF row
<1>7. Cardinality(RemovalRule(word, lk, now)) = 1
  BY <1>4, <1>5, <1>6, OneRow
<1> QED BY <1>7 DEF word

(* A press makes a change of status that has its effects.                  *)
LEMMA PressChanges ==
  ASSUME NEW f, FactsInv(f), NEW c \in DOMAIN f.cards, NEW p, NEW now, NEW lk,
         NEW row \in Granted(f, c, p, now)
  PROVE  <<StatusOf(WordOfCard(f, c), lk, now), DecisionStatus(Pressed(WordOfCard(f, c), c, row))>>
            \in UserChanges
<1> DEFINE old == WordOfCard(f, c)
           word == Pressed(old, c, row)
<1>1. /\ Says(row) /\ f.cards[c].note \in row.notes
      /\ \A d \in DOMAIN f.cards : WordOf[d] = WordOf[c] /\ IsDecision(f.cards[d]) => d = c
  BY PressMeets
<1>2. /\ DOMAIN word = WordCards(f, WordOf[c])
      /\ \A d \in DOMAIN word : d # c => word[d] = f.cards[d]
      /\ word[c].note # None => row.to = "known"
      /\ word[c].choice = row.to
  BY <1>1, PressedCard DEF FactsInv, NotesFit
<1>3. DecisionStatus(old) \in {"new", "learn", "learning", "known"}
  BY DEF DecisionStatus
<1>4. StatusOf(old, lk, now) \in {"new", "learn", "learning", "known"}
  BY <1>3 DEF StatusOf
<1> HIDE DEF word, old
<1>5. \A d \in DOMAIN word : IsDecision(word[d]) => d = c
  BY <1>1, <1>2 DEF WordCards
<1>6. DecisionStatus(word) \in {"new", "learn", "known"}
  <2>1. CASE Decided(word)
    <3>1. c \in DOMAIN word /\ IsDecision(word[c])
      BY <1>5, <2>1 DEF Decided
    <3>2. DecisionOf(word) = word[c]
      BY <1>5, <3>1, DecisionIs
    <3>3. word[c].choice # None /\ (word[c].note # None => word[c].choice = "known")
      BY <1>2, <3>1, PressNames DEF IsDecision
    <3> QED BY <3>2, <3>3 DEF DecisionStatus
  <2>2. CASE ~ Decided(word)
    <3>1. DecisionOf(word) = Blank
      BY <2>2 DEF DecisionOf
    <3> QED BY <3>1 DEF DecisionStatus, Blank
  <2> QED BY <2>1, <2>2
<1> QED BY <1>4, <1>6 DEF UserChanges, old, word

(* Every state has its row in each table.                                  *)
LEMMA TablesAreTotal ==
  ASSUME Inv
  PROVE  EveryStateHasItsRow
<1>1. FactsInv(facts)
  BY DEF Inv
<1>2. \A c \in DOMAIN facts.cards :
          Cardinality(MoveRule(facts.cards[c], KnowledgeOfCard(facts, c), time)) = 1
  BY <1>1, CardMay, OneMove
<1>3. \A c \in DOMAIN facts.cards : \A p \in Presses :
          Cardinality(RowsOfPress(facts, c, p, time)) = 1
  BY <1>1, OnePress
<1>4. \A c \in DOMAIN facts.cards : \A p \in Presses : \A row \in Granted(facts, c, p, time) :
          <<StatusOf(WordOfCard(facts, c), KnowledgeOfCard(facts, c), time),
            DecisionStatus(Pressed(WordOfCard(facts, c), c, row))>> \in UserChanges
  BY <1>1, PressChanges
<1>5. \A w \in LiveWords(facts) :
          Cardinality(RemovalRule(Word(facts, w), Knowledge(facts, LemmaOf[w]), time)) = 1
  BY <1>1, OneRemoval
<1> QED BY <1>2, <1>3, <1>4, <1>5 DEF EveryStateHasItsRow

-----------------------------------------------------------------------------
(* The theorems.                                                           *)

(* The cards of a word keep their types, one decision a word, and notes    *)
(* that sit on the decision they were exported for or one turned Known.    *)
THEOREM CardsAreSoundAlways == Spec => []CardsAreSound
<1>1. Inv => CardsAreSound
  BY InvMeans
<1> QED BY <1>1, InvAlways, PTL

(* Every press, every move and every Known removal finds one row in its    *)
(* table, and every press a change of status that has its effects.         *)
THEOREM EveryStateHasItsRowAlways == Spec => []EveryStateHasItsRow
<1>1. Inv => EveryStateHasItsRow
  BY TablesAreTotal
<1> QED BY <1>1, InvAlways, PTL

(* A lemma in Unknown is never Known, learned or waiting for export.       *)
THEOREM UnknownIsNotLearnedAlways == Spec => []UnknownIsNotLearned
<1>1. Inv => UnknownIsNotLearned
  BY ListsMean
<1> QED BY <1>1, InvAlways, PTL

(* Known can be taken from any lemma, and nothing says Known of it then:   *)
(* KnownRemovalLeftKnownError is never raised.                             *)
THEOREM KnownLeavesAlways == Spec => []KnownLeaves
<1>1. Inv => KnownLeaves
  BY ListsMean
<1> QED BY <1>1, InvAlways, PTL

(* The stored rows are the rows of now, but for what the next tick finds.  *)
THEOREM RowsAreCurrentAlways == Spec => []RowsAreCurrent
<1>1. Inv => RowsAreCurrent
  BY InvMeans
<1> QED BY <1>1, InvAlways, PTL

(* A card gets a note only from an export that made it one, of the kind    *)
(* that the export read.                                                   *)
THEOREM BoundAsMadeAlways == Spec => BoundAsMade
<1>1. Inv /\ [Next]_vars => BindsMade
  BY StepBinds
<1> QED BY <1>1, InvAlways, PTL DEF Spec, BoundAsMade, BindsMade

=============================================================================
