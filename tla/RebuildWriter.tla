--------------------------- MODULE RebuildWriter ---------------------------
(***************************************************************************)
(* The write of a rebuild plan (rebuild_plan_writer.py, phrase_writes.py), *)
(* in the order of its statements.  It writes what the plan names by id    *)
(* and by key and knows nothing of why.                                    *)
(***************************************************************************)
EXTENDS RebuildPlan, Functions

(* The union of one field of a plan over its words.                        *)
Field(plan, field(_)) == UNION {field(plan[w]) : w \in DOMAIN plan}

DeletePhrases(phrases, ids) == Restrict(phrases, DOMAIN phrases \ ids)

(* A word that goes takes the phrases it still has with it.                *)
WithoutWords(phrases, plan) ==
    Restrict(phrases, {i \in DOMAIN phrases :
        phrases[i].word \in DOMAIN plan => ~plan[phrases[i].word].gone})

WordsWritten(words, plan) ==
    LET left == {w \in DOMAIN words : ~plan[w].gone}
        made == {w \in DOMAIN plan \ DOMAIN words : plan[w].data # {}}
    IN  [w \in left \cup made |->
            IF plan[w].data = {} THEN words[w] ELSE CHOOSE d \in plan[w].data : TRUE]

(* Mutant: what was made of the old text stays.                            *)
RewriteTexts(phrases, rewritten) ==
    [i \in DOMAIN phrases |->
        LET r == CHOOSE r \in rewritten : r[1] = i
        IN  IF i \in Ids(rewritten) THEN Rewritten(phrases[i], r[2], r[3], FALSE) ELSE phrases[i]]

(* Queued jobs follow the new text, running ones are dropped with it.      *)
RewritePhrases(phrases, rewritten) ==
    [i \in DOMAIN phrases |->
        LET r == CHOOSE r \in rewritten : r[1] = i
        IN  IF i \in Ids(rewritten)
            THEN [Rewritten(phrases[i], r[2], r[3], r[5]) EXCEPT
                     !.job = IF r[4] /\ @ = "running" THEN "none" ELSE @]
            ELSE phrases[i]]

Rescore(phrases, rescored) ==
    [i \in DOMAIN phrases |->
        IF i \in Ids(rescored) THEN [phrases[i] EXCEPT !.score = To(rescored, i)] ELSE phrases[i]]

(* Mutant: a key belongs to one word.                                      *)
IsAtKey(a, b) == a.origin = "auto" /\ b.origin = "auto" /\ a.key = b.key

(* The auto phrases of a word at one key are one row.                      *)
IsTwin(a, b) == a.origin = "auto" /\ b.origin = "auto" /\ a.word = b.word /\ a.key = b.key

Insert(phrases, rows, next) ==
    LET new == SetToSeq({r \in rows : \A i \in DOMAIN phrases : ~IsTwin(phrases[i], r)})
    IN  Joint(phrases, [i \in {next + n - 1 : n \in DOMAIN new} |-> new[i - next + 1]])

(* Only selection marks change.                                            *)
Unmark(phrases, ids) ==
    [i \in DOMAIN phrases |->
        IF i \in ids /\ phrases[i].shown = "selection" THEN [phrases[i] EXCEPT !.shown = "none"]
        ELSE phrases[i]]

Mark(phrases, ids) ==
    [i \in DOMAIN phrases |->
        IF i \in ids /\ phrases[i].shown = "none" THEN [phrases[i] EXCEPT !.shown = "selection"]
        ELSE phrases[i]]

Restamp(phrases, sections) ==
    [i \in DOMAIN phrases |->
        IF i \in Ids(sections) THEN [phrases[i] EXCEPT !.section = To(sections, i)] ELSE phrases[i]]

Applied(phrases, plan, next) ==
    LET left == WithoutWords(Rekey(DeletePhrases(phrases, Field(plan, LAMBDA p : p.deleted)),
                                   Field(plan, LAMBDA p : p.moved)), plan)
        written == Rescore(RewritePhrases(left, Field(plan, LAMBDA p : p.rewritten)),
                           Field(plan, LAMBDA p : p.rescored))
        all == Insert(written, Field(plan, LAMBDA p : p.inserted), next)
        marked == Mark(Unmark(all, Field(plan, LAMBDA p : p.cleared)),
                       Field(plan, LAMBDA p : p.chosen))
    IN  Restamp(marked,
                Field(plan, LAMBDA p : p.sections))

Inserted(plan) == Cardinality(Field(plan, LAMBDA p : p.inserted))

=============================================================================
