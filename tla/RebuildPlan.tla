---------------------------- MODULE RebuildPlan ----------------------------
(***************************************************************************)
(* The plan of a rebuild: what a fresh analysis changes in the words and   *)
(* the phrases of one source (rebuild_plan.py), which phrase of a word the *)
(* selection shows (phrase_selection.py), and the write of a plan          *)
(* (rebuild_plan_writer.py).                                               *)
(*                                                                         *)
(* A phrase has a key, the line and the character its target stands at, or *)
(* Unplaced.  An analysis is a function from words to their data and their *)
(* places: a function from keys to what stands there.  A text is a model   *)
(* value; `facts` stands for what the analysis says of its words, and a    *)
(* score's last digit for the rest of it, the digit before for the words   *)
(* new to the user, which are counted again when phrases are compared.     *)
(* Blocks are left out, as lines of one block.  Revisions are the business *)
(* of PhraseWork.                                                          *)
(***************************************************************************)
EXTENDS Integers, FiniteSets, Sequences, SequencesExt

CONSTANTS
    Words,
    Texts,
    NoText,   \* no polish
    Hard      \* the texts with a word besides the target the user may not know

ASSUME RebuildPlanAssumption == NoText \notin Texts /\ Hard \subseteq Texts

(* Changes by id: a set of tuples, the id first.                           *)
Ids(changes) == {c[1] : c \in changes}
To(changes, i) == (CHOOSE c \in changes : c[1] = i)[2]

(* What either has, the first one before the other.                        *)
Joint(f, g) == [i \in DOMAIN f \cup DOMAIN g |-> IF i \in DOMAIN f THEN f[i] ELSE g[i]]

Unplaced == <<>>
ReadFirst(a, b) == \E i \in DOMAIN a : a[i] < b[i] /\ \A j \in 1 .. i - 1 : a[j] = b[j]

-----------------------------------------------------------------------------
(* A phrase.                                                               *)

Phrase(word, key, origin, shown, occ, section) ==
    [word |-> word, key |-> key, origin |-> origin, shown |-> shown, choice |-> "none",
     edited |-> FALSE, removed |-> FALSE, replaces |-> FALSE, made |-> {}, job |-> "none",
     text |-> occ.text, facts |-> occ.facts, score |-> occ.score,
     polish |-> NoText, reverted |-> FALSE, section |-> section]

IsShown(o) == o.shown # "none"
ShowsPolish(o) == o.polish # NoText /\ ~o.reverted
Shown(o) == IF ShowsPolish(o) THEN o.polish ELSE o.text
IsActive(o) == o.job # "none"
HasResults(o) == o.made # {} \/ o.polish # NoText
HasResultsOfText(o) == "speech" \in o.made \/ o.polish # NoText

UserWork(o) == o.edited \/ o.shown = "user" \/ o.origin # "auto" \/ o.removed
IsUntouchable(o) == o.choice # "none" \/ UserWork(o)
KeepsSection(o) == o.choice # "none"
IsDecided(rows) == \E i \in DOMAIN rows : rows[i].choice = "learn"
KeepsWord(rows) == \E i \in DOMAIN rows : IsUntouchable(rows[i])

(* The section a phrase earns: the data of its word, then its other words. *)
Earned(text, data, knows) ==
    CASE data = "frequent"                           -> "probably known"
      [] data # "frequent" /\ text \in Hard /\ ~knows -> "extra"
      [] OTHER                                       -> "ready"

-----------------------------------------------------------------------------
(* The selection of a word.                                                *)

ScoreNow(o, knows) == (IF o.text \in Hard /\ ~knows THEN 10 ELSE 0) + (o.score % 10)
Rank(o, knows) == <<ScoreNow(o, knows), o.key[1], o.key[2]>>
IsFrozen(o) == IsUntouchable(o) \/ IsActive(o)

MaySelect(o) == o.origin = "auto" /\ o.choice # "skip" /\ o.shown # "user" /\ ~o.removed

Best(rows, ids, knows) ==
    {i \in ids : \A j \in ids \ {i} : ~ReadFirst(Rank(rows[j], knows), Rank(rows[i], knows))}

(* Mutants: a mark beside the card that replaced it; no mark where there   *)
(* was none.                                                               *)
SelectionBeside(rows, decided, knows) ==
    LET marked == {i \in DOMAIN rows : rows[i].shown = "selection"}
        frozen == {i \in marked : IsFrozen(rows[i])}
        chosen == IF frozen # {} THEN frozen
                  ELSE Best(rows, {i \in DOMAIN rows : MaySelect(rows[i])}, knows)
    IN  IF decided THEN [set |-> {}, clear |-> {}]
        ELSE [set |-> chosen \ marked, clear |-> marked \ chosen]

SelectionWhereMarked(rows, decided, knows) ==
    LET marked == {i \in DOMAIN rows : rows[i].shown = "selection"}
    IN  IF marked = {} THEN [set |-> {}, clear |-> {}]
        ELSE SelectionBeside(rows, decided, knows)

(* The marks the selection sets and clears.                                *)
Selection(rows, decided, knows) ==
    LET marked == {i \in DOMAIN rows : rows[i].shown = "selection"}
        frozen == {i \in marked : IsFrozen(rows[i])}
        replaced == \E i \in DOMAIN rows : IsShown(rows[i]) /\ rows[i].replaces
        chosen == CASE frozen # {}             -> frozen
                    [] frozen = {} /\ replaced -> {}
                    [] OTHER -> Best(rows, {i \in DOMAIN rows : MaySelect(rows[i])}, knows)
    IN  IF decided THEN [set |-> {}, clear |-> {}]
        ELSE [set |-> chosen \ marked, clear |-> marked \ chosen]

-----------------------------------------------------------------------------
(* The plan of one word.  `at`: the places the analysis has for it.        *)

Apart(a, b) == IF a < b THEN b - a ELSE a - b

(* The free place a stray phrase is found at again: its very phrase first, *)
(* then the nearest.                                                       *)
FoundAgain(o, at, free) ==
    LET same == {k \in free : k[1] = o.key[1] /\ at[k].text = o.text}
        far(k) == <<IF at[k].facts = o.facts THEN 0 ELSE 1, Apart(k[2], o.key[2]), k[2]>>
    IN  {k \in same : \A l \in same \ {k} : ReadFirst(far(k), far(l))}

(* Mutant: two phrases may be found again at one place.                    *)
MovedKeysTogether(rows, at) ==
    LET held == {rows[i].key : i \in DOMAIN rows}
        strays == {i \in DOMAIN rows : /\ rows[i].origin = "auto"
                                       /\ rows[i].key # Unplaced
                                       /\ rows[i].key \notin DOMAIN at}
    IN  UNION {{<<i, k>> : k \in FoundAgain(rows[i], at, DOMAIN at \ held)} : i \in strays}

(* The keys the stray phrases move to: an older phrase is served first, so *)
(* each is found again among the places the older ones left.               *)
MovedKeys(rows, at) ==
    LET held == {rows[i].key : i \in DOMAIN rows}
        strays == {i \in DOMAIN rows : /\ rows[i].origin = "auto"
                                       /\ rows[i].key # Unplaced
                                       /\ rows[i].key \notin DOMAIN at}
        left(moves, i) == DOMAIN at \ (held \cup {m[2] : m \in {n \in moves : n[1] < i}})
    IN  CHOOSE moves \in SUBSET (strays \X (DOMAIN at \ held)) :
            \A i \in strays : {m \in moves : m[1] = i} =
                               {<<i, k>> : k \in FoundAgain(rows[i], at, left(moves, i))}

Rekey(rows, moved) ==
    [i \in DOMAIN rows |->
        IF i \in Ids(moved) THEN [rows[i] EXCEPT !.key = To(moved, i)] ELSE rows[i]]

(* Mutant: the user's work is looked at only where the place is gone.      *)
FateOfAny(o, at, wordGone, mode) ==
    LET analysed == o.key \in DOMAIN at
        same == analysed /\ o.text = at[o.key].text
    IN  CASE same                             -> "rescored"
          [] analysed /\ ~same /\ mode = "recut" -> "recut"
          [] OTHER                            -> "stays"

(* What becomes of a phrase.                                               *)
Fate(o, at, wordGone, mode) ==
    LET open == o.origin = "auto" /\ ~IsUntouchable(o)
        analysed == open /\ o.key \in DOMAIN at
        same == analysed /\ o.text = at[o.key].text
        spared == ~wordGone /\ mode # "recut" /\ (HasResults(o) \/ IsActive(o))
        anew == ~ShowsPolish(o) /\ o.facts # at[o.key].facts
    IN  CASE open /\ ~analysed /\ ~spared              -> "goes"
          [] same /\ anew                             -> "refreshed"
          [] same /\ ~anew                            -> "rescored"
          [] analysed /\ ~same /\ mode = "recut"      -> "recut"
          [] OTHER                                    -> "stays"

(* Mutant: the new facts are not stored.                                   *)
RewrittenInPart(o, occ, section, drop) ==
    [o EXCEPT !.text = occ.text, !.score = occ.score, !.section = section]

(* A new source phrase; by a recut, what was made of the old text goes.    *)
Rewritten(o, occ, section, drop) ==
    [o EXCEPT !.text = occ.text, !.facts = occ.facts, !.score = occ.score,
              !.section = section,
              !.polish = IF drop THEN NoText ELSE @,
              !.reverted = IF drop THEN FALSE ELSE @,
              !.made = IF drop THEN @ \ {"speech"} ELSE @]

AsPlanned(o, fate, at, data, knows) ==
    CASE fate = "stays"    -> o
      [] fate = "rescored" -> [o EXCEPT !.score = at[o.key].score]
      [] OTHER -> Rewritten(o, at[o.key], Earned(at[o.key].text, data, knows),
                            fate = "recut" /\ HasResultsOfText(o))

(* The analysed places nobody holds; a kept phrase whose place is gone     *)
(* holds its line.                                                         *)
FreshPlaces(rows, after, at) ==
    LET taken == {rows[i].key : i \in DOMAIN rows}
        lines == {after[i].key[1] : i \in {j \in DOMAIN after :
                    /\ after[j].origin = "auto"
                    /\ after[j].key # Unplaced
                    /\ after[j].key \notin DOMAIN at}}
    IN  {k \in DOMAIN at \ taken : k[1] \notin lines}

Sections(rows, data, knows) ==
    {<<i, Earned(Shown(rows[i]), data, knows)>> : i \in
        {j \in DOMAIN rows : /\ ~KeepsSection(rows[j])
                             /\ rows[j].section # Earned(Shown(rows[j]), data, knows)}}

Nothing == [moved |-> {}, deleted |-> {}, rewritten |-> {}, rescored |-> {},
            inserted |-> {}, cleared |-> {}, chosen |-> {}, sections |-> {},
            data |-> {}, gone |-> FALSE, view |-> <<>>]

(* A phrase not stored yet stands as the negative number of its place.     *)
Placeholder(k) == -(10 * k[1] + k[2])

(* Where the phrases stand after the analysis and what becomes of each.    *)
Judged(rows, word) ==
    LET moved == MovedKeys(rows, word.at)
        placed == Rekey(rows, moved)
    IN  [moved |-> moved, placed |-> placed,
         fate |-> [i \in DOMAIN rows |->
            IF word.kept THEN "stays" ELSE Fate(placed[i], word.at, word.found = {}, word.mode)]]

Fated(judged, f) == {i \in DOMAIN judged.fate : judged.fate[i] = f}

Left(judged, word) ==
    [i \in DOMAIN judged.fate \ Fated(judged, "goes") |->
        AsPlanned(judged.placed[i], judged.fate[i], word.at, word.data, word.knows)]

Anew(fresh, word) ==
    [p \in {Placeholder(k) : k \in fresh} |->
        LET k == CHOOSE l \in fresh : Placeholder(l) = p
        IN  Phrase(word.name, k, "auto", "none", word.at[k],
                   Earned(word.at[k].text, word.data, word.knows))]

(* The phrases as the write leaves them: the ones that stay, with their    *)
(* marks and sections.                                                     *)
View(after, change, sections) ==
    [i \in DOMAIN after |->
        [after[i] EXCEPT
            !.section = IF i \in Ids(sections) THEN To(sections, i) ELSE @,
            !.shown = IF i \in change.set THEN "selection"
                      ELSE IF i \in change.clear THEN "none" ELSE @]]

PlanOf(rows, judged, after, anew, word) ==
    LET written == Fated(judged, "refreshed") \cup Fated(judged, "recut")
        sections == Sections([i \in DOMAIN after \ written |-> after[i]], word.data, word.knows)
        change == Selection(Joint(after, anew), word.decided, word.knows)
        gone == ~KeepsWord(rows) /\ DOMAIN after \cup DOMAIN anew = {}
        Drops(i) == judged.fate[i] = "recut"
    IN  IF word.stored = {} /\ DOMAIN anew = {} THEN Nothing
        ELSE [moved |-> judged.moved, deleted |-> Fated(judged, "goes"),
              rewritten |-> {<<i, word.at[judged.placed[i].key], after[i].section, Drops(i),
                               Drops(i) /\ HasResultsOfText(rows[i])>> : i \in written},
              rescored |-> {<<i, after[i].score>> : i \in
                               {j \in Fated(judged, "rescored") : rows[j].score # after[j].score}},
              inserted |-> {[anew[i] EXCEPT !.shown =
                                IF i \in change.set THEN "selection" ELSE "none"]
                            : i \in DOMAIN anew},
              cleared |-> change.clear, chosen |-> change.set \ DOMAIN anew,
              sections |-> sections,
              data |-> IF gone \/ word.stored = word.found THEN {} ELSE word.found,
              gone |-> gone, view |-> View(after, change, sections)]

PlanOfLeft(rows, judged, after, word) ==
    PlanOf(rows, judged, after, Anew(FreshPlaces(judged.placed, after, word.at), word), word)

PlanOfJudged(rows, judged, word) == PlanOfLeft(rows, judged, Left(judged, word), word)

(* The plan of a word: `stored` and `found` are empty or the one datum the *)
(* store and the analysis have of it.  `view`: the phrases as the plan     *)
(* takes them to be once it is written.                                    *)
WordPlan(w, rows, stored, found, at, rules) ==
    LET word == [name |-> w, stored |-> stored, found |-> found, at |-> at,
                 data |-> CHOOSE d \in IF found # {} THEN found ELSE stored : TRUE,
                 decided |-> IsDecided(rows), mode |-> rules.mode, knows |-> rules.knows,
                 kept |-> IsDecided(rows) \/ w \in rules.done]
    IN  PlanOfJudged(rows, Judged(rows, word), word)

RowsOf(phrases, w) == [i \in {j \in DOMAIN phrases : phrases[j].word = w} |-> phrases[i]]

(* `words`: the data of the stored words.                                  *)
Plan(phrases, words, analysis, rules) ==
    [w \in DOMAIN words \cup DOMAIN analysis |->
        WordPlan(w, RowsOf(phrases, w),
                 IF w \in DOMAIN words THEN {words[w]} ELSE {},
                 IF w \in DOMAIN analysis THEN {analysis[w].data} ELSE {},
                 IF w \in DOMAIN analysis THEN analysis[w].at ELSE <<>>,
                 rules)]

IsEmpty(plan) == \A w \in DOMAIN plan : [plan[w] EXCEPT !.view = <<>>] = Nothing

=============================================================================
