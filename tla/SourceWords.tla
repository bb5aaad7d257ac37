---------------------------- MODULE SourceWords ----------------------------
(***************************************************************************)
(* The words and phrases of one source while its user works on them and    *)
(* rebuilds follow one another.  An analysis runs outside any write; the   *)
(* plan is made from what is stored inside the write that applies it, so   *)
(* a rebuild is one step, with whatever analysis and whatever view of the  *)
(* words known elsewhere.  The source is free when a user changes a        *)
(* phrase (ensure_source_free).  A phrase in Anki has a choice, so         *)
(* bindings are left out; jobs tell only whether a phrase has one, and     *)
(* what it makes is chosen when it ends.                                   *)
(***************************************************************************)
EXTENDS RebuildWriter

CONSTANTS
    Analyses,    \* what an analysis may find: words to data and places
    Lines, Chars,
    Places,      \* the keys users pick a phrase at
    Elsewhere,   \* the words other sources may hold
    Looked,      \* the data of a word looked up on its own
    MaxPhrases,  \* bound: phrases ever stored
    MaxActs,     \* bound: what users do
    MaxRebuilds  \* bound: rebuilds; a behaviour ends with the last one

ASSUME SourceWordsAssumption ==
    /\ \A a \in Analyses :
          /\ DOMAIN a \subseteq Words
          /\ \A w \in DOMAIN a :
                /\ a[w].data \in {"rare", "frequent"}
                /\ DOMAIN a[w].at \subseteq Lines \X Chars
                /\ \A k \in DOMAIN a[w].at :
                      a[w].at[k] \in [text : Texts, facts : Nat, score : Nat]
    /\ IsFiniteSet(Words)
    /\ Lines \subseteq 1 .. 9 /\ Chars \subseteq 1 .. 9
    /\ Places \subseteq Lines \X Chars /\ Elsewhere \subseteq Words
    /\ Looked \in [Words -> {"rare", "frequent"}]
    /\ {MaxPhrases, MaxActs, MaxRebuilds} \subseteq Nat

VARIABLES
    words,    \* the data of the stored words
    phrases,  \* the stored phrases, by id
    next,     \* the next id; ids are never used again
    knows,    \* whether the user knows the hard word
    count,    \* what the bounds count
    last      \* history: the rebuild just done and the phrases it planned

vars == <<words, phrases, next, knows, count, last>>

Keys == Lines \X Chars
Data == {"rare", "frequent"}
NoLast == [analysis |-> <<>>, mode |-> "none", done |-> {}, cut |-> FALSE, view |-> <<>>]

Of(w) == RowsOf(phrases, w)

Init ==
    /\ words = <<>> /\ phrases = <<>> /\ next = 1
    /\ knows = FALSE
    /\ count = [acts |-> 0, rebuilds |-> 0]
    /\ last = NoLast

-----------------------------------------------------------------------------
(* Rebuilds.                                                               *)

RulesOf(mode, done) == [mode |-> mode, done |-> done, knows |-> knows]

(* Words this source has that the user knows or learns via another one.    *)
Rebuild(analysis, mode, done) ==
    /\ count.rebuilds < MaxRebuilds
    /\ \E plan \in {Plan(phrases, words, analysis, RulesOf(mode, done))} :
        LET cuts == Field(plan, LAMBDA p : {r[1] : r \in {q \in p.rewritten : q[4]}}) IN
        /\ next + Inserted(plan) - 1 <= MaxPhrases
        /\ words' = WordsWritten(words, plan)
        /\ phrases' = Applied(phrases, plan, next)
        /\ next' = next + Inserted(plan)
        /\ count' = [count EXCEPT !.rebuilds = @ + 1]
        /\ last' = [analysis |-> analysis, mode |-> mode, done |-> done,
                    cut |-> \E i \in cuts : phrases[i].job = "running",
                    view |-> [i \in UNION {DOMAIN plan[w].view : w \in DOMAIN plan} |->
                        plan[phrases[i].word].view[i]]]
        /\ UNCHANGED knows

-----------------------------------------------------------------------------
(* What users do.  Each is one write.                                      *)

Act(rows) ==
    /\ count.acts < MaxActs /\ count.rebuilds < MaxRebuilds
    /\ phrases' = rows
    /\ count' = [count EXCEPT !.acts = @ + 1]
    /\ last' = NoLast

Change(i, row) ==
    /\ Act([phrases EXCEPT ![i] = row])
    /\ UNCHANGED <<words, next, knows>>

Press(i, choice) ==
    /\ IsShown(phrases[i])
    /\ phrases[i].choice # "learn" => ~IsDecided(Of(phrases[i].word))
    /\ Change(i, [phrases[i] EXCEPT !.choice = IF @ = choice THEN "none" ELSE choice])

Learn == ~knows /\ knows' = TRUE /\ Act(phrases) /\ UNCHANGED <<words, next>>

EarnedBy(o, text) == Earned(text, words[o.word], knows)

(* Another piece of the document; a phrase without a place takes one.      *)
SetBoundary(i, text, key) ==
    LET o == phrases[i]
    IN  /\ key = o.key \/ (o.key = Unplaced /\ key \in Places)
        /\ Change(i, [o EXCEPT !.text = text, !.polish = NoText, !.reverted = FALSE,
                              !.facts = 0, !.key = key, !.edited = TRUE,
                              !.section = EarnedBy(o, text)])

(* A text the user types is stored as a polish is.                         *)
EditPhrase(i, text) ==
    /\ text # Shown(phrases[i])
    /\ Change(i, [phrases[i] EXCEPT !.polish = text, !.reverted = FALSE,
                                    !.section = EarnedBy(phrases[i], text)])

RevertPolish(i) ==
    LET o == phrases[i]
        shown == [o EXCEPT !.reverted = ~@]
    IN  /\ o.polish \notin {NoText, o.text}
        /\ Change(i, [shown EXCEPT !.section = EarnedBy(o, Shown(shown)), !.made = {}])

(* The work made for a phrase: queued, begun, ended with a result or none. *)
Enqueue(i) == phrases[i].job = "none" /\ Change(i, [phrases[i] EXCEPT !.job = "queued"])

Works(i, row) ==
    /\ count.rebuilds < MaxRebuilds
    /\ phrases' = [phrases EXCEPT ![i] = row]
    /\ last' = NoLast
    /\ UNCHANGED <<words, next, knows, count>>

Claim(i) == phrases[i].job = "queued" /\ Works(i, [phrases[i] EXCEPT !.job = "running"])
Drop(i) == IsActive(phrases[i]) /\ Works(i, [phrases[i] EXCEPT !.job = "none"])

Finish(i, kind) ==
    /\ phrases[i].job = "running"
    /\ Works(i, [phrases[i] EXCEPT !.job = "none", !.made = @ \cup {kind}])

FinishPolish(i, text) ==
    LET o == phrases[i]
    IN  /\ o.job = "running" /\ o.polish = NoText
        /\ Works(i, [o EXCEPT !.job = "none", !.polish = text,
                             !.made = IF text = o.text THEN @ ELSE {},
                             !.section = EarnedBy(o, text)])

-----------------------------------------------------------------------------
(* Cards the user makes.                                                   *)

Manual(w, key, origin, text, polish) ==
    LET shown == IF polish = NoText THEN text ELSE polish
    IN  [Phrase(w, key, origin, "user", [text |-> text, facts |-> 0, score |-> 0],
                Earned(shown, Looked[w], knows)) EXCEPT !.polish = polish]

StandsForSelection(o) == o.shown = "selection" \/ (IsShown(o) /\ o.replaces)

(* The phrase of a word at a key that is shown instead of a new one.       *)
At(w, key, text, insteadOf) ==
    {i \in DOMAIN Of(w) \ insteadOf :
        /\ key # Unplaced /\ phrases[i].key = key /\ ~phrases[i].removed
        /\ phrases[i].origin = "auto"
           \/ (phrases[i].origin = "manual" /\ phrases[i].text = text)}

(* `show`: the phrases with a card of word w, and its phrase.  A skipped   *)
(* phrase shown again is unskipped, unless its word is decided.            *)
ShowExisting(i, polish) ==
    LET o == phrases[i]
        text == IF polish = NoText THEN Shown(o) ELSE polish
    IN  [o EXCEPT !.replaces = @ \/ o.shown = "selection", !.shown = "user",
                  !.polish = IF text # Shown(o) THEN polish ELSE @,
                  !.reverted = IF text # Shown(o) THEN FALSE ELSE @,
                  !.choice = IF @ = "skip" /\ ~IsDecided(Of(o.word)) THEN "none" ELSE @,
                  !.section = Earned(text, Looked[o.word], knows)]

Show(w, key, text, polish, insteadOf) ==
    LET found == At(w, key, text, insteadOf)
    IN  IF found = {} THEN [id |-> next, row |-> Manual(w, key, "manual", text, polish)]
        ELSE [id |-> Min(found), row |-> ShowExisting(Min(found), polish)]

WithPhrase(rows, card) ==
    [i \in DOMAIN rows \cup {card.id} |-> IF i = card.id THEN card.row ELSE rows[i]]

(* The next id and the words, with a card made.                            *)
Makes(card) ==
    /\ next <= MaxPhrases
    /\ next' = IF card.id = next THEN next + 1 ELSE next
    /\ words' = Joint(words, [w \in {card.row.word} |-> Looked[w]])
    /\ UNCHANGED knows

AddManual(w, key, text) ==
    LET card == Show(w, key, text, NoText, {})
    IN  Act(WithPhrase(phrases, card)) /\ Makes(card)

(* An example takes the place of a card, and the decision with it.         *)
Replace(i, text) ==
    LET o == phrases[i]
        row == [Manual(o.word, Unplaced, "example", text, NoText)
                  EXCEPT !.replaces = StandsForSelection(o), !.job = "queued",
                         !.section = EarnedBy(o, text),
                         !.choice = IF o.choice = "learn" THEN "learn" ELSE "none"]
        rows == [phrases EXCEPT ![i].shown = "none",
                                ![i].choice = IF @ = "learn" THEN "none" ELSE @]
        card == [id |-> next, row |-> row]
    IN  /\ IsShown(o)
        /\ Act(WithPhrase(rows, card)) /\ Makes(card)

(* Another target of the text the phrase shows: its card is removed and    *)
(* one of the target's word is made; the selection of the old word is made *)
(* again.  The target starts on the phrase's line, perhaps where the old   *)
(* one did; one the phrase's own text does not hold has no place, and its  *)
(* text is final.                                                          *)
ChangeTarget(i, w, key) ==
    LET o == phrases[i]
        polish == IF key = Unplaced \/ Shown(o) # o.text THEN Shown(o) ELSE NoText
        card == Show(w, key, IF key = Unplaced THEN Shown(o) ELSE o.text, polish, {i})
        row == [card.row EXCEPT
                  !.replaces = @ \/ (w = o.word /\ StandsForSelection(o)), !.job = "queued"]
        retired == [phrases EXCEPT ![i] = [o EXCEPT !.removed = TRUE, !.shown = "none",
                                                    !.job = "none"]]
        made == WithPhrase(retired, [id |-> card.id, row |-> row])
        rows == RowsOf(made, o.word)
        change == Selection(rows, IsDecided(rows), knows)
    IN  /\ o.choice # "learn"
        /\ IF key = Unplaced THEN o.key = Unplaced \/ Shown(o) # o.text
           ELSE o.key # Unplaced /\ key[1] = o.key[1]
        /\ Act([j \in DOMAIN made |->
               CASE j \in change.clear -> [made[j] EXCEPT !.shown = "none"]
                 [] j \in change.set   -> [made[j] EXCEPT !.shown = "selection"]
                 [] OTHER              -> made[j]])
        /\ Makes(card)

-----------------------------------------------------------------------------
Next ==
    \/ \E a \in Analyses, mode \in {"update", "recut"}, done \in SUBSET (Elsewhere \cap DOMAIN words) :
          Rebuild(a, mode, done)
    \/ Learn
    \/ \E i \in DOMAIN phrases :
         \/ \E c \in {"learn", "skip"} : Press(i, c)
         \/ \E t \in Texts, k \in Keys : SetBoundary(i, t, k)
         \/ \E t \in Texts : EditPhrase(i, t) \/ FinishPolish(i, t) \/ Replace(i, t)
         \/ RevertPolish(i) \/ Enqueue(i) \/ Claim(i) \/ Drop(i)
         \/ \E k \in {"meaning", "speech"} : Finish(i, k)
         \/ \E w \in Words, k \in Places \cup {Unplaced, phrases[i].key} : ChangeTarget(i, w, k)
    \/ \E w \in Words, k \in Places, t \in Texts : AddManual(w, k, t)

Spec == Init /\ [][Next]_vars

-----------------------------------------------------------------------------
PhraseRow == [word : Words, key : Keys \cup {Unplaced}, origin : {"auto", "manual", "example"},
              shown : {"none", "selection", "user"}, choice : {"none", "learn", "skip"},
              edited : BOOLEAN, removed : BOOLEAN, replaces : BOOLEAN,
              made : SUBSET {"meaning", "speech"}, job : {"none", "queued", "running"},
              text : Texts, facts : Nat, score : Nat, polish : Texts \cup {NoText},
              reverted : BOOLEAN, section : {"ready", "extra", "probably known"}]

TypeOK ==
    /\ DOMAIN words \subseteq Words /\ \A w \in DOMAIN words : words[w] \in Data
    /\ next \in 1 .. MaxPhrases + 1
    /\ DOMAIN phrases \subseteq 1 .. next - 1
    /\ \A i \in DOMAIN phrases : phrases[i] \in PhraseRow /\ phrases[i].word \in DOMAIN words
    /\ knows \in BOOLEAN
    /\ count \in [acts : 0 .. MaxActs, rebuilds : 0 .. MaxRebuilds]

Rebuilt == last.mode # "none"

Selected(w) == {i \in DOMAIN Of(w) : phrases[i].shown = "selection"}

(* A word has one selection card at most; none beside a card the user put  *)
(* in its place, once a rebuild looked, but one with work on it            *)
(* (select_phrases).                                                       *)
OneSelection ==
    \A w \in DOMAIN words :
        /\ \A i, j \in Selected(w) : i = j
        /\ Rebuilt /\ ~last.cut /\ ~IsDecided(Of(w))
           /\ (\E i \in DOMAIN Of(w) : phrases[i].shown = "user" /\ phrases[i].replaces)
             => \A i \in Selected(w) : IsFrozen(phrases[i])

(* No two auto phrases of a word stand at one key, whatever keys move, go  *)
(* and come: the rows' unique index would refuse the whole rebuild.        *)
NoTwins ==
    \A i \in DOMAIN phrases, j \in DOMAIN phrases :
        IsTwin(phrases[i], phrases[j]) /\ phrases[i].key # Unplaced => i = j

(* The tables are what their unique indexes and the selection promise.     *)
RowsAreSound == TypeOK /\ OneSelection /\ NoTwins

(* What is stored after a rebuild is what its plan took it to be when the  *)
(* plan selected and stamped: no statement of the write undoes another.    *)
WrittenAsPlanned ==
    Rebuilt => /\ \A i \in DOMAIN last.view :
                      /\ i \in DOMAIN phrases
                      /\ [phrases[i] EXCEPT !.job = "none"] = [last.view[i] EXCEPT !.job = "none"]
               /\ \A i \in DOMAIN phrases \ DOMAIN last.view : phrases[i].made = {}

Again == Plan(phrases, words, last.analysis, RulesOf(last.mode, last.done))

(* A phrase keeps its mark for good, and when the selection takes it again *)
(* it stands for the card that replaced it: the next rebuild takes it      *)
(* back, the one after selects it.                                         *)
Replaced(w) == \E i \in DOMAIN Of(w) : MaySelect(phrases[i]) /\ phrases[i].replaces

(* A second rebuild by the same analysis has nothing to do, unless the     *)
(* first one dropped work in progress on a text it cut again.              *)
SettlesAtOnce ==
    Rebuilt /\ ~last.cut =>
        LET again == Again
        IN  IsEmpty([w \in {v \in DOMAIN again : ~Replaced(v)} |-> again[w]])

(* Every place of the analysis has a phrase of its word, or its line is    *)
(* held by a phrase kept from an older text.                               *)
EveryPlaceIsHeld ==
    Rebuilt => \A w \in DOMAIN last.analysis : \A k \in DOMAIN last.analysis[w].at :
        \E i \in DOMAIN Of(w) :
            \/ phrases[i].key = k
            \/ /\ phrases[i].key # Unplaced /\ phrases[i].key[1] = k[1]
               /\ phrases[i].key \notin DOMAIN last.analysis[w].at

(* An undecided word shows a card once it is rebuilt, if it has one to     *)
(* show.                                                                   *)
WordIsShown ==
    Rebuilt => \A w \in DOMAIN words :
        ~IsDecided(Of(w)) /\ ~Replaced(w) /\ (\E i \in DOMAIN Of(w) : MaySelect(phrases[i]))
            => \E i \in DOMAIN Of(w) : IsShown(phrases[i])

Work(o) == <<o.word, o.origin, o.choice, o.edited, o.removed, o.replaces,
             o.text, o.polish, o.made>>

(* A rebuild loses nothing the user made: a phrase with work on it, or of  *)
(* a decided word, stays with its word and what was made of it.            *)
WorkIsKept ==
    [][last'.mode # "none" => \A i \in DOMAIN phrases :
          IsUntouchable(phrases[i]) \/ IsDecided(Of(phrases[i].word))
            => i \in DOMAIN phrases' /\ Work(phrases'[i]) = Work(phrases[i])]_vars

=============================================================================
