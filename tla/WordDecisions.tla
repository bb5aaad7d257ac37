---------------------------- MODULE WordDecisions ----------------------------
(***************************************************************************)
(* Words decided by the user, exported to Anki and projected for review.   *)
(* An action is one write transaction with its projection, or one step of  *)
(* an export between two calls to Anki; an export keeps the time and the   *)
(* words it read at its start until the one write at its end.              *)
(***************************************************************************)
EXTENDS CardStates

CONSTANTS
    FirstCards,  \* the cards there from the start
    Pressable,   \* bound: the cards the user presses
    Listable,    \* bound: the lemmas the user lists, reports and removes
    Deletable,   \* bound: the sources the user deletes
    MaxTime      \* bound: the last moment

VARIABLES
    facts,    \* cards, hidden, sources, orphans, known, unknown
    rows,     \* the projection
    ticked,   \* when the projection was last brought up to date with time
    time,
    export    \* the export in progress: its moment, its queue, the notes made

vars == <<facts, rows, ticked, time, export>>

ASSUME BoundsAssumption ==
    /\ MaxTime \in Nat
    /\ FirstCards \subseteq Cards
    /\ Pressable \subseteq Cards /\ Listable \subseteq Lemmas /\ Deletable \subseteq Sources

NoExport == [pc |-> "idle", now |-> 0, queue |-> <<>>, made |-> {}]

(* Every source processed, nothing decided; the cards not made yet are the *)
(* ones a later Replace with example makes.                                *)
InitFacts(cards) ==
    [cards |-> [c \in cards |-> Blank], hidden |-> {}, sources |-> Sources,
     orphans |-> {}, known |-> {}, unknown |-> {}]

Init ==
    /\ facts = InitFacts(FirstCards)
    /\ rows = AllRows(facts, 0)
    /\ ticked = 0
    /\ time = 0
    /\ export = NoExport

-----------------------------------------------------------------------------
(* A committed write: the facts and what its changes project.              *)
Write(f, ch) ==
    /\ facts' = f
    /\ rows' = Projected(rows, f, ch, time)
    /\ UNCHANGED <<ticked, time, export>>

(* DecidePhraseUseCase: the press, and the word's studied_at.              *)
Press(c, p) ==
    /\ c \in DOMAIN facts.cards
    /\ \E row \in Granted(facts, c, p, time) :
        Write(AfterPress(facts, c, row, time),
              Changes({LemmaOfCard(c)}, {WordOf[c]}))

(* PhraseReplacement: the example takes the card's place and its decision. *)
Replace(c, new) ==
    /\ c \in Shown(facts)
    /\ new \in Cards \ DOMAIN facts.cards
    /\ WordOf[new] = WordOf[c]
    /\ \E row \in MoveRule(facts.cards[c], KnowledgeOfCard(facts, c), time) :
        Write(AfterMove(facts, c, new, row, time),
              Changes({LemmaOfCard(c)}, {WordOf[c]}))

(* The lists: words added as known, an entry or a timer's word removed,    *)
(* a word of a phrase reported unknown, an unknown entry removed.          *)
AddKnown(ls) ==
    /\ ls # {}
    /\ Write(MarkKnown(facts, ls), Changes(ls \ facts.known, {}))

RemoveKnown(l) ==
    /\ IsKnown(Knowledge(facts, l), time)
    /\ Write(KnownRemoved(facts, l, Knowledge(facts, l), time, {}), Changes({l}, {}))

ReportUnknown(l) ==
    Write(AfterUnknown(facts, l, time), Changes({l}, {}))

RemoveUnknown(l) ==
    /\ l \in facts.unknown
    /\ Write(ForgetUnknown(facts, l), Changes({l}, {}))

DeleteSource(s) ==
    LET words == {w \in LiveWords(facts) : SourceOf[w] = s}
    IN  /\ s \in facts.sources
        /\ Write(WithoutSource(facts, s), Changes({LemmaOf[w] : w \in words}, words))

-----------------------------------------------------------------------------
(* Export: the queue is read once, the notes go to Anki one by one, their  *)
(* cards are bound together in one write.                                  *)

Queue(f, now) ==
    {c \in DOMAIN f.cards : /\ IsDecision(f.cards[c])
                            /\ InExportQueue(WordOfCard(f, c), KnowledgeOfCard(f, c), now)}

StartExport ==
    /\ export.pc = "idle"
    /\ Queue(facts, time) # {}
    /\ export' = [pc |-> "pushing", now |-> time, made |-> {},
                  queue |-> [c \in Queue(facts, time) |-> facts.cards[c]]]
    /\ UNCHANGED <<facts, rows, ticked, time>>

Left == DOMAIN export.queue \ export.made

(* Made, or found where Anki refuses a duplicate.                          *)
PushNote(c) ==
    /\ export.pc = "pushing"
    /\ export' = [export EXCEPT !.made = @ \cup {c}]
    /\ UNCHANGED <<facts, rows, ticked, time>>

SkipNote(c) ==
    /\ export.pc = "pushing"
    /\ export' = [export EXCEPT !.queue = [d \in DOMAIN @ \ {c} |-> @[d]]]
    /\ UNCHANGED <<facts, rows, ticked, time>>

AnkiQuits ==
    /\ export.pc = "pushing"
    /\ Left # {}
    /\ export' = NoExport
    /\ UNCHANGED <<facts, rows, ticked, time>>

StillThere == export.made \cap DOMAIN facts.cards
StillDecided == {c \in StillThere : IsDecision(facts.cards[c])}
StillSame == {c \in StillThere : facts.cards[c] = export.queue[c]}

HasBindRule(c) == MayBind(WordOfCard(facts, c), c, KnowledgeOfCard(facts, c), export.now)

(* One card without a rule rolls the whole write back.                     *)
EndExport ==
    /\ export.pc = "pushing"
    /\ Left = {}
    /\ export' = NoExport
    /\ IF \A c \in StillSame : HasBindRule(c)
       THEN LET f == AfterExport(facts, StillSame, export.now)
            IN  /\ facts' = f
                /\ rows' = Projected(rows, f, Changes({LemmaOfCard(c) : c \in StillSame}, {}),
                                     export.now)
       ELSE UNCHANGED <<facts, rows>>
    /\ UNCHANGED <<ticked, time>>

-----------------------------------------------------------------------------
Tick ==
    /\ ticked < time
    /\ rows' = Projected(rows, facts, Changes(TickFinds(rows, facts, ticked, time), {}), time)
    /\ ticked' = time
    /\ UNCHANGED <<facts, time, export>>

TimePasses ==
    /\ time < MaxTime
    /\ time' = time + 1
    /\ UNCHANGED <<facts, rows, ticked, export>>

User ==
    \/ \E c \in Pressable, p \in Presses : Press(c, p)
    \/ \E c, new \in Cards : Replace(c, new)
    \/ \E ls \in SUBSET Listable : AddKnown(ls)
    \/ \E l \in Listable : RemoveKnown(l) \/ ReportUnknown(l) \/ RemoveUnknown(l)
    \/ \E s \in Deletable : DeleteSource(s)

Export ==
    \/ StartExport \/ AnkiQuits \/ EndExport
    \/ \E c \in Left : PushNote(c) \/ SkipNote(c)

Next == User \/ Export \/ Tick \/ TimePasses

Spec == Init /\ [][Next]_vars

-----------------------------------------------------------------------------
(* Properties.                                                             *)

CardFact == [choice : Choices, note : KindOrNone, since : 0 .. MaxTime]
OrphanFact == [lemma : Lemmas, since : 0 .. MaxTime, choice : Decisions]

FactsOK(f) ==
    /\ DOMAIN f.cards \subseteq Cards
    /\ f \in [cards : [DOMAIN f.cards -> CardFact], hidden : SUBSET DOMAIN f.cards,
              sources : SUBSET Sources, orphans : SUBSET OrphanFact,
              known : SUBSET Lemmas, unknown : SUBSET Lemmas]
    /\ f.known \cap f.unknown = {}

(* Every fact and every row keeps its type, and the rows are of the words  *)
(* and cards there are.                                                    *)
TypeOK ==
    /\ FactsOK(facts)
    /\ DOMAIN rows = {"cards", "words"}
    /\ DOMAIN rows.cards = Shown(facts)
    /\ DOMAIN rows.words = LiveWords(facts)
    /\ time \in 0 .. MaxTime /\ ticked \in 0 .. time
    /\ DOMAIN export.queue \subseteq Cards
    /\ export \in [pc : {"idle", "pushing"}, now : 0 .. time,
                   queue : [DOMAIN export.queue -> CardFact],
                   made : SUBSET DOMAIN export.queue]

(* A word is decided on one card at most, whatever is pressed, moved,      *)
(* exported or revoked, and an active note sits on the decision it was     *)
(* exported for, or on one turned Known since (A1, A2).                    *)
OneDecision ==
    /\ \A c, d \in DOMAIN facts.cards :
          (WordOf[c] = WordOf[d] /\ IsDecision(facts.cards[c]) /\ IsDecision(facts.cards[d]))
             => c = d
    /\ \A c \in DOMAIN facts.cards :
          facts.cards[c].note # None => facts.cards[c].choice \in {facts.cards[c].note, "known"}

(* The cards of a word are sound: they keep their types, and one decision. *)
CardsAreSound == TypeOK /\ OneDecision

(* "Every possible key has exactly one row": no press, move or Known       *)
(* removal ever meets a state its table does not know, and no press makes  *)
(* a change of status without its effects.                                 *)
EveryStateHasItsRow ==
    /\ \A c \in DOMAIN facts.cards :
          LET word == WordOfCard(facts, c)
              lk == KnowledgeOfCard(facts, c)
          IN  /\ Cardinality(MoveRule(facts.cards[c], lk, time)) = 1
              /\ \A p \in Presses :
                    /\ Cardinality(RowsOfPress(facts, c, p, time)) = 1
                    /\ \A row \in Granted(facts, c, p, time) :
                          <<StatusOf(word, lk, time), DecisionStatus(Pressed(word, c, row))>>
                             \in UserChanges
    /\ \A w \in LiveWords(facts) :
          Cardinality(RemovalRule(Word(facts, w), Knowledge(facts, LemmaOf[w]), time)) = 1

(* A lemma in Unknown is never Known, learned or waiting for export.       *)
UnknownIsNotLearned ==
    \A l \in facts.unknown : Elsewhere(Knowledge(facts, l), time) = None

(* Known taken from a lemma, now, would be gone for every source: no card, *)
(* note or list would still say Known of it (KnownRemovalLeftKnownError is *)
(* never raised).                                                          *)
KnownLeaves ==
    \A l \in Listable :
        /\ ~IsKnown(Knowledge(AfterUnknown(facts, l, time), l), time)
        /\ LET left == KnownRemoved(facts, l, Knowledge(facts, l), time, {})
           IN  ~IsKnown(Knowledge(left, l), time)

(* A card becomes learned in Anki only as what its note was made for: a    *)
(* card decided anew, moved or deleted meanwhile stays without one.        *)
BoundAsMade ==
    [][\A c \in DOMAIN facts.cards \cap DOMAIN facts'.cards :
          facts.cards[c].note # facts'.cards[c].note /\ facts'.cards[c].note # None
             => c \in export.made /\ facts'.cards[c].note = export.queue[c].choice]_vars

(* What the next tick will look at.                                        *)
Pending == TickFinds(rows, facts, ticked, time)

(* Every stored row is the row computed anew now, but for the lemmas the   *)
(* next tick finds: no write and no tick leaves a row behind.              *)
RowsAreCurrent ==
    LET live == AllRows(facts, time)
        pending == Pending
    IN  /\ rows.words = live.words
        /\ \A c \in DOMAIN rows.cards :
              /\ LemmaOfCard(c) \in pending \/ rows.cards[c].status = live.cards[c].status
              /\ \A l \in Holds[c] \ pending :
                    rows.cards[c].newness[l] = live.cards[c].newness[l]

=============================================================================
