--------------------------- MODULE DecisionRules ---------------------------
(***************************************************************************)
(* One status model of a card and its word, and the tables that say what a *)
(* press, a move, an export and a Known removal do (decision_rules.py,     *)
(* card_choice.py, card_view.py, lemma_knowledge.py).                      *)
(*                                                                         *)
(* A word is a function from its cards to [choice, note, since].  A note   *)
(* kind, a press and the choice it makes share one name.  A table is a set *)
(* of rows; a row stands for every key its fields hold.                    *)
(***************************************************************************)
EXTENDS Integers, FiniteSets

CONSTANT Timer   \* how long after its export a word reads Known

ASSUME TimerAssumption == Timer \in Nat \ {0}

None == "none"
Kinds == {"learn", "cloze"}
KindOrNone == Kinds \cup {None}
Decisions == Kinds \cup {"known"}
Presses == Decisions \cup {"skip"}
Choices == Presses \cup {None}

Blank == [choice |-> None, note |-> None, since |-> 0]
Unbound(choice) == [Blank EXCEPT !.choice = choice]

Due(since, now) == now - since >= Timer

-----------------------------------------------------------------------------
(* What the lists and the notes in Anki say of a lemma: [listed, unknown,  *)
(* awaiting: a Learn waits for export somewhere, since: of each note].     *)

AnyDue(lk, now) == \E s \in lk.since : Due(s, now)
IsKnown(lk, now) == lk.listed \/ AnyDue(lk, now)
TimerKnown(lk, now) == AnyDue(lk, now) /\ ~lk.listed

(* STANDING: Known beats Learning, Learning beats Learn.                   *)
Elsewhere(lk, now) ==
    CASE IsKnown(lk, now)                 -> "known"
      [] ~IsKnown(lk, now) /\ lk.since # {} -> "learning"
      [] ~IsKnown(lk, now) /\ lk.since = {} /\ lk.awaiting -> "learn"
      [] OTHER                            -> None

(* When the oldest note makes the lemma Known, if that is still ahead.     *)
Never == 0
ChangesAt(lk, now) ==
    LET oldest == CHOOSE s \in lk.since : \A o \in lk.since : s <= o
    IN  IF lk.since # {} /\ ~AnyDue(lk, now) THEN oldest + Timer ELSE Never

-----------------------------------------------------------------------------
(* A word's status.                                                        *)

IsDecision(card) == card.choice \in Decisions
Decided(word) == \E c \in DOMAIN word : IsDecision(word[c])
DecisionOf(word) ==
    IF Decided(word) THEN word[CHOOSE c \in DOMAIN word : IsDecision(word[c])]
                     ELSE Blank

KnownWhereListed(card, lk, now) == lk.listed \/ (card.note # None /\ Due(card.since, now))
ReadsKnown(card, lk, now) ==
    /\ card.choice \in Kinds
    /\ card.note \in {None, card.choice}
    /\ lk.listed \/ (card.note # None /\ Due(card.since, now))

DecisionStatus(word) ==
    LET card == DecisionOf(word)
    IN  CASE card.choice = None    -> "new"
          [] card.choice = "known" -> "known"
          [] OTHER                 -> IF card.note = None THEN "learn" ELSE "learning"

StatusOf(word, lk, now) ==
    IF ReadsKnown(DecisionOf(word), lk, now) THEN "known" ELSE DecisionStatus(word)

RoleOf(word, card) ==
    IF ~Decided(word) THEN "open" ELSE IF IsDecision(card) THEN "decision" ELSE "other"

InExportQueue(word, lk, now) ==
    DecisionStatus(word) = "learn" /\ ~ReadsKnown(DecisionOf(word), lk, now)

(* What the card shows: an open word shows what other sources hold.        *)
OpenElsewhere(word, lk, now) ==
    IF Decided(word) THEN None ELSE Elsewhere(lk, now)

ShownStatus(word, lk, now) ==
    IF OpenElsewhere(word, lk, now) = None THEN StatusOf(word, lk, now)
    ELSE OpenElsewhere(word, lk, now)

IsDone(word, card, lk, now) ==
    ShownStatus(word, lk, now) # "new" \/ card.choice = "skip"

WantsGeneration(word, card, lk, now) ==
    CASE RoleOf(word, card) = "decision" -> InExportQueue(word, lk, now)
      [] RoleOf(word, card) = "open" -> card.choice = None /\ Elsewhere(lk, now) = None
      [] OTHER -> FALSE

(* The one button shown pressed, the decision before the phrase's Skip.    *)
PressedButton(word, card, lk, now) ==
    LET status == ShownStatus(word, lk, now)
    IN  CASE status = "known" -> "known"
          [] status \in {"learn", "learning"} ->
                IF DecisionOf(word).choice = "cloze" THEN "cloze" ELSE "learn"
          [] OTHER -> IF card.choice = "skip" THEN "skip" ELSE None

-----------------------------------------------------------------------------
(* A row's keys: role, note, reads known, elsewhere, choice before, press. *)

PressRow(role, notes, reads, elsewhere, before, presses, to, release) ==
    [role |-> role, notes |-> notes, reads |-> reads, elsewhere |-> elsewhere,
     before |-> before, presses |-> presses, to |-> to, release |-> release]

Refused == "refused"
UnboundRow(reads, before, presses, to) ==
    PressRow("decision", {None}, reads, FALSE, before, presses, to, FALSE)
BoundRow(kind, reads, before, presses, to) ==
    PressRow("decision", {kind}, reads, FALSE, before, presses, to, TRUE)
OtherKind(kind) == IF kind = "learn" THEN "cloze" ELSE "learn"

OpenRows ==
    {PressRow("open", {None}, FALSE, FALSE, {None, "skip"}, {p}, p, FALSE) : p \in Decisions}
    \cup {PressRow("open", {None}, FALSE, FALSE, {None}, {"skip"}, "skip", FALSE),
          PressRow("open", {None}, FALSE, FALSE, {"skip"}, {"skip"}, None, FALSE),
          PressRow("open", {None}, FALSE, TRUE, {None, "skip"}, Presses, Refused, FALSE)}

UnboundRows ==
    {UnboundRow(FALSE, {k}, {k}, None) : k \in Kinds}
    \cup {UnboundRow(FALSE, {k}, {OtherKind(k)}, OtherKind(k)) : k \in Kinds}
    \cup {UnboundRow(TRUE, {k}, {"known"}, None) : k \in Kinds}
    \cup {UnboundRow(TRUE, Kinds, {p}, p) : p \in Kinds \cup {"skip"}}
    \cup {UnboundRow(FALSE, Kinds, {p}, p) : p \in {"known", "skip"}}
    \cup {UnboundRow(FALSE, {"known"}, {"known"}, None)}
    \cup {UnboundRow(FALSE, {"known"}, {p}, p) : p \in Kinds \cup {"skip"}}

BoundRows ==
    {PressRow("decision", {k}, FALSE, FALSE, {k}, {"known"}, "known", FALSE) : k \in Kinds}
    \cup {BoundRow(k, FALSE, {k}, {k}, None) : k \in Kinds}
    \cup {BoundRow(k, FALSE, {k}, {OtherKind(k)}, OtherKind(k)) : k \in Kinds}
    \cup {BoundRow(k, FALSE, {k}, {"skip"}, "skip") : k \in Kinds}
    \cup {BoundRow(k, FALSE, {"known"}, {"known"}, None) : k \in Kinds}
    \cup {BoundRow(r[1], FALSE, {"known"}, {r[2]}, r[2]) : r \in Kinds \X (Kinds \cup {"skip"})}
    \cup {BoundRow(k, TRUE, {k}, {"known"}, None) : k \in Kinds}
    \cup {BoundRow(r[1], TRUE, {r[1]}, {r[2]}, r[2]) : r \in Kinds \X (Kinds \cup {"skip"})}

PressRows ==
    OpenRows \cup UnboundRows \cup BoundRows
    \cup {PressRow("other", {None}, FALSE, FALSE, {None, "skip"}, Presses, Refused, FALSE)}

PressRule(word, c, p, lk, now) ==
    LET role == RoleOf(word, word[c])
        reads == ReadsKnown(word[c], lk, now)
        elsewhere == role = "open" /\ Elsewhere(lk, now) # None
    IN  {r \in PressRows : /\ r.role = role /\ r.reads = reads /\ r.elsewhere = elsewhere
                           /\ word[c].note \in r.notes
                           /\ word[c].choice \in r.before
                           /\ p \in r.presses}

Pressed(word, c, row) ==
    [word EXCEPT ![c] = IF row.release THEN Unbound(row.to) ELSE [@ EXCEPT !.choice = row.to]]

-----------------------------------------------------------------------------
(* Move: the decision goes to a new card of the same content.              *)

MoveRow(notes, reads, before, new, old) ==
    [notes |-> notes, reads |-> reads, before |-> before, new |-> new, old |-> old]

MoveRows ==
    {MoveRow({None}, FALSE, {x}, x, None) : x \in Decisions}
    \cup {MoveRow({None}, TRUE, {x}, x, None) : x \in Kinds}
    \cup {MoveRow({None}, FALSE, {x}, None, x) : x \in {None, "skip"}}
    \cup {MoveRow({k}, FALSE, {"known"}, "known", None) : k \in Kinds}
    \cup {MoveRow({k}, TRUE, {k}, "known", None) : k \in Kinds}
    \cup {MoveRow({k}, FALSE, {k}, k, None) : k \in Kinds}

MoveRule(card, lk, now) ==
    LET reads == ReadsKnown(card, lk, now)
    IN  {r \in MoveRows : r.reads = reads /\ card.note \in r.notes /\ card.choice \in r.before}

(* A card that read Known by its timer alone leaves its lemma listed.      *)
MarksKnown(card, lk, now) ==
    card.note # None /\ ReadsKnown(card, lk, now) /\ ~lk.listed

MovedTo(word, from, new, row) ==
    [c \in DOMAIN word \cup {new} |-> IF c = new THEN Unbound(row.new) ELSE word[c]]
Moved(word, from, new, row) ==
    [c \in DOMAIN word \cup {new} |->
        IF c = new THEN Unbound(row.new)
        ELSE IF c = from THEN Unbound(row.old) ELSE word[c]]

-----------------------------------------------------------------------------
(* Export: the card gets a note; its timer starts.                         *)

MayBind(word, c, lk, now) ==
    /\ RoleOf(word, word[c]) = "decision"
    /\ word[c].note = None
    /\ ~ReadsKnown(word[c], lk, now)
    /\ word[c].choice \in Kinds

Bound(word, c, now) ==
    [word EXCEPT ![c].note = word[c].choice, ![c].since = now]

-----------------------------------------------------------------------------
(* Known removal, word by word, and the notes whose card is gone.          *)

RemovalRow(choices, notes, reads, revoke) ==
    [choices |-> choices, notes |-> notes, reads |-> reads, revoke |-> revoke]

RemovalRows ==
    {RemovalRow(KindOrNone, {None}, FALSE, FALSE),
     RemovalRow({"known"}, KindOrNone, FALSE, TRUE)}
    \cup {RemovalRow({k}, {k}, FALSE, FALSE) : k \in Kinds}
    \cup {RemovalRow({k}, {None, k}, TRUE, TRUE) : k \in Kinds}

RemovalRule(word, lk, now) ==
    LET card == DecisionOf(word)
        reads == ReadsKnown(card, lk, now)
    IN  {r \in RemovalRows :
            r.reads = reads /\ card.choice \in r.choices /\ card.note \in r.notes}

Revoked(word) == [c \in DOMAIN word |-> IF IsDecision(word[c]) THEN Blank ELSE word[c]]

OrphanReleased(orphan, now) == orphan.choice = "known" \/ Due(orphan.since, now)

-----------------------------------------------------------------------------
(* What a change of status does to the lists.                              *)

RemovesKnown(before, after) == before = "known" /\ after \in {"new", "learn"}
MarksLemma(before, after) == after = "known" /\ before # "known"
KeepsUnknown(after) == FALSE
ForgetsUnknown(after) == after = "learn"

(* Every change a user's press or move can make has its effects.           *)
UserChanges ==
    ({"new", "learn", "known"} \X {"new", "learn", "known"})
    \cup ({"learning"} \X {"new", "learn", "learning", "known"})

(* What marking a lemma Unknown does, by what it stands as.                *)
UnknownMark(lk, now) ==
    CASE Elsewhere(lk, now) = None    -> "mark"
      [] Elsewhere(lk, now) = "known" -> "remove_known_first"
      [] OTHER                        -> "ignore"

=============================================================================
