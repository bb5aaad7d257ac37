----------------------------- MODULE PhraseWork -----------------------------
(***************************************************************************)
(* What is made of a phrase, while the phrase changes.  A phrase has the   *)
(* text cut from its source and may have a polish of it; a meaning and     *)
(* speech are made of the text it shows.  Its revision counts the texts it *)
(* showed: a job carries the revision it was queued for, and a result is   *)
(* written only if that is still the phrase's.                             *)
(*                                                                         *)
(* Users edit phrases and ask for work, a run of generation queues its     *)
(* plan in chunks, a re-cut rewrites the phrases of a source, and the      *)
(* worker makes results outside any transaction.  One action is one write  *)
(* or one step between two.  The queue's order, its ids and its late       *)
(* threads are the business of JobQueue: here the worker claims any queued *)
(* jobs of one kind, and one run is at work at a time.                     *)
(***************************************************************************)
EXTENDS Integers, Sequences, FiniteSets

CONSTANTS
    Phrases,
    Sources,
    SourceOf,    \* the source of a phrase
    Texts,
    NoText,      \* no polish; no result
    Kinds,       \* the kinds of work modelled, of those below
    Polish,      \* rewrites the text
    Meaning,     \* explains the text; asked for anew, the old one goes first
    Speech,      \* speaks the text; the old one stays until a new one is made
    Unset,       \* a field that a selection does not name
    Selections,  \* what users cancel or retry: a kind, a source, both or all
    RunLimit,    \* how many jobs of a kind are claimed together
    Chunk,       \* how many jobs a run of generation queues in one write
    MaxEdits,    \* bound: changes of texts
    MaxAsks,     \* bound: requests for work
    MaxRetries,  \* bound: retries of failed jobs
    MaxStops,    \* bound: cancels of a kind or a source
    MaxRuns,     \* bound: runs of generation, one after the other
    MaxFaults    \* bound: failures, absences of the AI and worker restarts

ASSUME PhraseWorkAssumption ==
    /\ SourceOf \in [Phrases -> Sources]
    /\ NoText \notin Texts
    /\ Kinds \subseteq {Polish, Meaning, Speech}
    /\ Polish # Meaning /\ Polish # Speech /\ Meaning # Speech
    /\ Unset \notin Kinds \cup Sources
    /\ Selections \subseteq [kind : Kinds \cup {Unset}, source : Sources \cup {Unset}]
    /\ RunLimit \in [Kinds -> Nat \ {0}]
    /\ Chunk \in Nat \ {0}
    /\ {MaxEdits, MaxAsks, MaxRetries, MaxStops, MaxRuns, MaxFaults} \subseteq Nat

VARIABLES
    phrase,    \* the phrases: their texts and revisions
    made,      \* what each result of a phrase was made of
    jobs,      \* the job of a phrase and a kind, if any
    held,      \* the sources a preview holds
    worker,    \* the run the worker is at
    stops,     \* the stops noted in the app's memory
    run,       \* the run of generation in progress
    count      \* what the bounds count

(* History, which no step reads.                                           *)
VARIABLES
    kept,      \* results kept by an edit of the text they were made of
    behind,    \* jobs put in line with a revision read before
    since,     \* how many stops were noted when a job's work was asked for
    typed      \* the text a user typed for a phrase and did not give up

history == <<kept, behind, since, typed>>

vars == <<phrase, made, jobs, held, worker, stops, run, count, history>>

-----------------------------------------------------------------------------
Works == Phrases \X Kinds

Phrase == [alive : BOOLEAN, source : Texts, polish : Texts \cup {NoText},
           reverted : BOOLEAN, edited : BOOLEAN, revision : Nat]

Job == [status : {"none", "queued", "running", "failed"}, revision : Nat]

NoJob == [status |-> "none", revision |-> 0]
QueuedJob(revision) == [status |-> "queued", revision |-> revision]

WithStatus(status) == {w \in Works : jobs[w].status = status}
Active == WithStatus("queued") \cup WithStatus("running")

Nothing == [p \in {} |-> p]

(* The worker's run: the revisions its jobs carry, the cards it read, the  *)
(* answers it got and the phrases left without one.                        *)
NoWork == [pc |-> "idle", kind |-> Unset, refs |-> Nothing, cards |-> Nothing,
           answers |-> Nothing, unanswered |-> {}]

(* A run of generation: the stops noted when it began, and the jobs still  *)
(* to be queued with the revision they were planned at.                    *)
NoRun == [pc |-> "none", kind |-> Unset, mark |-> 0, began |-> 0,
          plan |-> Nothing, leftOut |-> {}]

-----------------------------------------------------------------------------
(* Texts.                                                                  *)

Shown(ph) == IF ph.polish # NoText /\ ~ph.reverted THEN ph.polish ELSE ph.source

(* write_text: a phrase that shows another text by it has a new revision.  *)
WriteText(ph, source, polish, reverted) ==
    LET next == [ph EXCEPT !.source = source, !.polish = polish,
                           !.reverted = reverted]
    IN  [next EXCEPT !.revision = IF Shown(next) = Shown(ph) THEN @ ELSE @ + 1]

(* The phrases with some of them written anew: `to` from phrase to record. *)
Written(to) == [p \in Phrases |-> IF p \in DOMAIN to THEN to[p] ELSE phrase[p]]

IsMoved(to, p) == p \in DOMAIN to /\ to[p].revision # phrase[p].revision

FollowedByKind(js, to) == [w \in Works |->
    IF IsMoved(to, w[1]) /\ w[2] = worker.kind /\ js[w].status = "queued"
    THEN QueuedJob(to[w[1]].revision) ELSE js[w]]

(* queued_jobs_follow: the queued jobs of a phrase with a new revision     *)
(* take it; the running and the failed ones keep theirs.                   *)
Followed(js, to) == [w \in Works |->
    IF IsMoved(to, w[1]) /\ js[w].status = "queued"
    THEN QueuedJob(to[w[1]].revision) ELSE js[w]]

Caught(to) == behind \ {w \in Works : IsMoved(to, w[1])}

(* reset_phrase: the meaning and the speech go.                            *)
Reset(results) == [k \in Kinds |-> IF k \in {Meaning, Speech} THEN NoText ELSE results[k]]

(* The results that speak of another text than the phrase shows.           *)
Misfits(ph, results) ==
    {k \in Kinds \ {Polish} : results[k] \notin {NoText, Shown(ph)}}

(* What an edit of the phrases `ps` keeps of another text.                 *)
KeptBy(ps, next, results) ==
    {w \in kept : w[1] \notin ps}
      \cup {w \in Works : w[1] \in ps /\ w[2] \in Misfits(next[w[1]], results[w[1]])}

(* An edit of one phrase, which leaves `results` of what was made of it.   *)
Edit(p, next, results) ==
    LET to == [q \in {p} |-> next]
    IN  /\ phrase' = Written(to)
        /\ made' = [made EXCEPT ![p] = results]
        /\ kept' = KeptBy({p}, phrase', made')
        /\ behind' = Caught(to)

(* The phrase is there and its source is free.                             *)
Free(p) == phrase[p].alive /\ SourceOf[p] \notin held

Counted(what) == count' = [count EXCEPT ![what] = @ + 1]

-----------------------------------------------------------------------------
Init ==
    /\ phrase \in [Phrases -> [alive : {TRUE}, source : Texts, polish : {NoText},
                               reverted : {FALSE}, edited : {FALSE}, revision : {0}]]
    /\ made = [p \in Phrases |-> [k \in Kinds |-> NoText]]
    /\ jobs = [w \in Works |-> NoJob]
    /\ held = {}
    /\ worker = NoWork
    /\ stops = <<>>
    /\ run = NoRun
    /\ count = [edits |-> 0, asks |-> 0, retries |-> 0, runs |-> 0, faults |-> 0]
    /\ kept = {} /\ behind = {}
    /\ since = [w \in Works |-> 0]
    /\ typed = [p \in Phrases |-> NoText]

-----------------------------------------------------------------------------
(* The user's edits.                                                       *)

EditIsLeft == count.edits < MaxEdits /\ Counted("edits")

(* Cut anew on the source screen: the polish goes, nothing else does.      *)
SetBoundary(p, text) ==
    /\ EditIsLeft
    /\ Free(p)
    /\ LET next == [WriteText(phrase[p], text, NoText, FALSE) EXCEPT !.edited = TRUE]
       IN  /\ Edit(p, next, [k \in Kinds |-> IF k = Polish THEN NoText ELSE made[p][k]])
           /\ jobs' = Followed(jobs, [q \in {p} |-> next])
    /\ typed' = [typed EXCEPT ![p] = NoText]
    /\ UNCHANGED <<held, worker, stops, run, since>>

(* Written by hand, in the slot of the polish: meaning and speech stay.    *)
EditText(p, text) ==
    /\ EditIsLeft
    /\ Free(p)
    /\ text # Shown(phrase[p])
    /\ LET next == WriteText(phrase[p], phrase[p].source, text, FALSE)
       IN  /\ Edit(p, next, [k \in Kinds |-> IF k = Polish THEN phrase[p].source
                                                          ELSE made[p][k]])
           /\ jobs' = Followed(jobs, [q \in {p} |-> next])
    /\ typed' = [typed EXCEPT ![p] = text]
    /\ UNCHANGED <<held, worker, stops, run, since>>

(* Back to the source text, or to the polish again.                        *)
SwitchPolish(p) ==
    /\ EditIsLeft
    /\ Free(p)
    /\ phrase[p].polish \notin {NoText, phrase[p].source}
    /\ LET next == WriteText(phrase[p], phrase[p].source, phrase[p].polish,
                             ~phrase[p].reverted)
       IN  /\ Edit(p, next, Reset(made[p]))
           /\ jobs' = Followed(jobs, [q \in {p} |-> next])
    /\ UNCHANGED <<held, worker, stops, run, since, typed>>

-----------------------------------------------------------------------------
(* Requests for work.                                                      *)

AskIsLeft == count.asks < MaxAsks /\ Counted("asks")

(* enqueue: keys that are active are skipped, failed ones superseded.      *)
Enqueued(js, revisions) == [w \in Works |->
    IF w \in DOMAIN revisions /\ w \notin Active THEN QueuedJob(revisions[w]) ELSE js[w]]

AskedNow(works) ==
    since' = [w \in Works |-> IF w \in works \ Active THEN Len(stops) ELSE since[w]]

(* Again from the source text: the old polish goes at once.                *)
AskPolish(p) ==
    /\ AskIsLeft
    /\ Polish \in Kinds
    /\ Free(p)
    /\ LET next == WriteText(phrase[p], phrase[p].source, NoText, FALSE)
           to == [q \in {p} |-> next]
       IN  /\ phrase' = Written(to)
           /\ made' = [made EXCEPT ![p][Polish] = NoText]
           /\ kept' = KeptBy({p}, Written(to), made)
           /\ jobs' = Enqueued(Followed(jobs, to),
                               [w \in {<<p, Polish>>} |-> next.revision])
           /\ behind' = IF <<p, Polish>> \in Active THEN Caught(to)
                        ELSE Caught(to) \ {<<p, Polish>>}
    /\ AskedNow({<<p, Polish>>})
    /\ typed' = [typed EXCEPT ![p] = NoText]
    /\ UNCHANGED <<held, worker, stops, run>>

(* A new meaning replaces the old one, speech is made over the old one.    *)
AskResult(p, k) ==
    /\ AskIsLeft
    /\ k \in Kinds \ {Polish}
    /\ Free(p)
    /\ jobs' = Enqueued(jobs, [w \in {<<p, k>>} |-> phrase[p].revision])
    /\ IF k = Meaning
       THEN /\ made' = [made EXCEPT ![p][Meaning] = NoText]
            /\ kept' = kept \ {<<p, Meaning>>}
       ELSE UNCHANGED <<made, kept>>
    /\ behind' = IF <<p, k>> \in Active THEN behind ELSE behind \ {<<p, k>>}
    /\ AskedNow({<<p, k>>})
    /\ UNCHANGED <<phrase, held, worker, stops, run, typed>>

Matches(sel, k, s) == sel.kind \in {Unset, k} /\ sel.source \in {Unset, s}

Selected(sel) == {w \in Works : Matches(sel, w[2], SourceOf[w[1]])}

(* Of a kind, a source or everything: noted as a stop, then carried out.   *)
CancelSelected(sel) ==
    /\ Len(stops) < MaxStops
    /\ stops' = Append(stops, sel)
    /\ jobs' = [w \in Works |-> IF w \in Selected(sel) \cap Active THEN NoJob ELSE jobs[w]]
    /\ UNCHANGED <<phrase, made, held, worker, run, count, history>>

CancelOne(w) ==
    /\ w \in Active
    /\ jobs' = [jobs EXCEPT ![w] = NoJob]
    /\ UNCHANGED <<phrase, made, held, worker, stops, run, count, history>>

(* Failed jobs go back in line as they are.                                *)
RetrySelected(sel) ==
    /\ count.retries < MaxRetries /\ Counted("retries")
    /\ LET again == Selected(sel) \cap WithStatus("failed")
       IN  /\ again # {}
           /\ jobs' = [w \in Works |-> IF w \in again THEN QueuedJob(jobs[w].revision)
                                                       ELSE jobs[w]]
           /\ behind' = behind \cup again
           /\ AskedNow(again)
    /\ UNCHANGED <<phrase, made, held, worker, stops, run, kept, typed>>

-----------------------------------------------------------------------------
(* A run of generation: one kind, for the cards of every source.           *)

BeginRun(k) ==
    /\ run.pc = "none"
    /\ count.runs < MaxRuns /\ Counted("runs")
    /\ run' = [NoRun EXCEPT !.pc = "marked", !.kind = k,
                            !.mark = Len(stops), !.began = Len(stops)]
    /\ UNCHANGED <<phrase, made, jobs, held, worker, stops, history>>

IsDone(p, k) == IF k = Polish THEN phrase[p].polish # NoText ELSE made[p][k] # NoText

(* The cards a scope takes: an active job is left alone in each, and a     *)
(* result beats a failed job.                                              *)
InScope(k, scope) ==
    {p \in Phrases :
        /\ Free(p)
        /\ <<p, k>> \notin Active
        /\ CASE scope = "missing" -> ~IsDone(p, k) /\ jobs[<<p, k>>].status = "none"
             [] scope = "failed"  -> ~IsDone(p, k) /\ jobs[<<p, k>>].status = "failed"
             [] scope = "all"     -> TRUE}

(* The read: which cards, and at which revision; a scope may take the first *)
(* of them, or the ones ready for it.                                      *)
PlanSince(mark) ==
    /\ run.pc = "marked"
    /\ \E scope \in {"missing", "failed"} : \E chosen \in SUBSET InScope(run.kind, scope) :
        run' = IF chosen = {} THEN NoRun
               ELSE [run EXCEPT !.pc = "queueing", !.mark = mark,
                                !.plan = [p \in chosen |-> phrase[p].revision]]
    /\ UNCHANGED <<phrase, made, jobs, held, worker, stops, count, history>>

PlanMarked == PlanSince(Len(stops))

Plan == PlanSince(run.mark)

(* The sources stopped since the run began.                                *)
Stopped == {s \in Sources : \E i \in (run.mark + 1) .. Len(stops) :
                                Matches(stops[i], run.kind, s)}

(* One chunk, in a write of its own: a stopped or a held source sits the   *)
(* rest of the run out, a phrase that went meanwhile is passed over.       *)
QueueChunk(chunk) ==
    /\ run.pc = "queueing"
    /\ chunk # {} /\ chunk \subseteq DOMAIN run.plan
    /\ Cardinality(chunk) = IF Cardinality(DOMAIN run.plan) < Chunk
                            THEN Cardinality(DOMAIN run.plan) ELSE Chunk
    /\ LET sources == {SourceOf[p] : p \in chunk} \ run.leftOut
           leftOut == run.leftOut \cup (sources \cap (Stopped \cup held))
           taken == {<<p, run.kind>> : p \in {q \in chunk : /\ SourceOf[q] \notin leftOut
                                                            /\ phrase[q].alive}}
           rest == DOMAIN run.plan \ chunk
       IN  /\ jobs' = Enqueued(jobs, [w \in taken |-> run.plan[w[1]]])
           /\ behind' = behind \cup (taken \ Active)
           /\ since' = [w \in Works |-> IF w \in taken \ Active THEN run.began ELSE since[w]]
           /\ run' = IF rest = {} THEN NoRun
                     ELSE [run EXCEPT !.leftOut = leftOut,
                                      !.plan = [p \in rest |-> run.plan[p]]]
    /\ UNCHANGED <<phrase, made, held, worker, stops, count, kept, typed>>

(* A run that replaces what was made discards, chooses and queues in one   *)
(* write; speech is not discarded.                                         *)
Replace(chosen) ==
    /\ run.pc = "marked"
    /\ chosen \subseteq InScope(run.kind, "all")
    /\ LET k == run.kind
           works == chosen \X {k}
           to == [p \in IF k = Polish THEN chosen ELSE {} |->
                    WriteText(phrase[p], phrase[p].source, NoText, FALSE)]
           left == [p \in Phrases |->
                      IF p \in chosen /\ k # Speech
                      THEN [made[p] EXCEPT ![k] = NoText] ELSE made[p]]
           next == Written(to)
       IN  /\ phrase' = next
           /\ made' = left
           /\ kept' = KeptBy(DOMAIN to, next, left) \ (IF k = Meaning THEN works ELSE {})
           /\ jobs' = Enqueued(Followed(jobs, to), [w \in works |-> next[w[1]].revision])
           /\ behind' = Caught(to) \ works
           /\ AskedNow(works)
           /\ typed' = [p \in Phrases |-> IF p \in DOMAIN to THEN NoText ELSE typed[p]]
    /\ run' = NoRun
    /\ UNCHANGED <<held, worker, stops, count>>

(* A write refused during a long operation ends the run where it is.       *)
RunRefused ==
    /\ run.pc # "none"
    /\ run' = NoRun
    /\ UNCHANGED <<phrase, made, jobs, held, worker, stops, count, history>>

-----------------------------------------------------------------------------
(* A preview takes a source and frees it.                                  *)
Hold(s) ==
    /\ held' = IF s \in held THEN held \ {s} ELSE held \cup {s}
    /\ UNCHANGED <<phrase, made, jobs, worker, stops, run, count, history>>

(* What a re-cut of a source does to each of its phrases: nothing to one   *)
(* the user made something of, else it keeps its text, gets another one,   *)
(* or goes.                                                                *)
Recuts(s) ==
    {cut \in [{p \in Phrases : SourceOf[p] = s /\ phrase[p].alive} -> Texts \cup {NoText}] :
        \A p \in DOMAIN cut : phrase[p].edited => cut[p] = phrase[p].source}

(* The write of a Re-cut: polish and speech go with the old text, queued   *)
(* jobs follow, running ones are cancelled, a phrase's jobs go with it.    *)
Recut(s, cut) ==
    /\ EditIsLeft
    /\ s \notin held
    /\ LET gone == {p \in DOMAIN cut : cut[p] = NoText}
           rewritten == {p \in DOMAIN cut \ gone : cut[p] # phrase[p].source}
           to == [p \in rewritten |->
                    [phrase[p] EXCEPT !.source = cut[p],
                                      !.polish = NoText, !.reverted = FALSE,
                                      !.revision = @ + 1]]
           left == [p \in Phrases |->
                      CASE p \in gone      -> [k \in Kinds |-> NoText]
                        [] p \in rewritten -> [k \in Kinds |-> IF k = Meaning THEN made[p][k]
                                                                             ELSE NoText]
                        [] OTHER           -> made[p]]
           next == [p \in Phrases |-> IF p \in gone THEN [phrase[p] EXCEPT !.alive = FALSE]
                                                    ELSE Written(to)[p]]
       IN  /\ rewritten \cup gone # {}
           /\ phrase' = next
           /\ made' = left
           /\ jobs' = [w \in Works |->
                         IF \/ w[1] \in gone
                            \/ w[1] \in rewritten /\ jobs[w].status = "running"
                         THEN NoJob ELSE Followed(jobs, to)[w]]
           /\ kept' = KeptBy(rewritten \cup gone, next, left)
           /\ behind' = Caught(to)
    /\ UNCHANGED <<held, worker, stops, run, since, typed>>

-----------------------------------------------------------------------------
(* The worker.                                                             *)

ClaimRun(k, ps) ==
    /\ worker.pc = "idle"
    /\ ps # {} /\ Cardinality(ps) <= RunLimit[k]
    /\ \A p \in ps : jobs[<<p, k>>].status = "queued"
    /\ jobs' = [w \in Works |-> IF w[2] = k /\ w[1] \in ps
                                THEN [jobs[w] EXCEPT !.status = "running"] ELSE jobs[w]]
    /\ worker' = [NoWork EXCEPT !.pc = "claimed", !.kind = k,
                                !.refs = [p \in ps |-> jobs[<<p, k>>].revision]]
    /\ UNCHANGED <<phrase, made, held, stops, run, count, history>>

(* The jobs of the run that are still its own.                             *)
StillClaimed == {p \in DOMAIN worker.refs : jobs[<<p, worker.kind>>].status = "running"}

(* The cards: the phrases at their jobs' revision that wait for the result.*)
(* Speech is made over an old one.                                         *)
ReadCards ==
    /\ worker.pc = "claimed"
    /\ LET current == {p \in DOMAIN worker.refs :
                          /\ phrase[p].alive
                          /\ phrase[p].revision = worker.refs[p]
                          /\ worker.kind = Speech \/ ~IsDone(p, worker.kind)}
       IN  worker' = [worker EXCEPT !.cards = [p \in current |-> phrase[p]],
                                    !.pc = IF current = {} THEN "stored" ELSE "asking"]
    /\ UNCHANGED <<phrase, made, jobs, held, stops, run, count, history>>

(* The slow part.  What comes back is a polish, or stands for the text it  *)
(* was made of; a batch may miss cards, and keeps the ones still claimed.  *)
Answers(cards) ==
    IF worker.kind = Polish THEN [cards -> Texts]
    ELSE {[p \in cards |-> Shown(worker.cards[p])]}

AnswerOf(cards, wanted) ==
    /\ worker.pc = "asking"
    /\ \E answered \in IF worker.kind = Speech THEN {cards} ELSE SUBSET cards :
         \E answers \in Answers(answered) :
           worker' = [worker EXCEPT !.pc = "answered", !.answers = answers,
                                    !.cards = [p \in wanted |-> worker.cards[p]]]
    /\ UNCHANGED <<phrase, made, jobs, held, stops, run, count, history>>

Wanted == IF worker.kind = Speech THEN DOMAIN worker.cards
          ELSE DOMAIN worker.cards \cap StillClaimed

AnswerUnfiltered == AnswerOf(DOMAIN worker.cards, Wanted)

Answer == AnswerOf(Wanted, Wanted)

(* Right before a result is written, in the write: is the phrase still at  *)
(* the revision the job was queued for?                                    *)
HoldsText(p) == phrase[p].alive /\ Shown(phrase[p]) = Shown(worker.cards[p])

HoldsAnyway(p) == phrase[p].alive

Holds(p) == phrase[p].alive /\ phrase[p].revision = worker.cards[p].revision

(* A result lands; a polish that shows another text resets the others.     *)
Result(p, k, text) ==
    IF k # Polish THEN [made[p] EXCEPT ![k] = text]
    ELSE LET polished == [made[p] EXCEPT ![Polish] = worker.cards[p].source]
         IN  IF text = Shown(worker.cards[p]) THEN polished ELSE Reset(polished)

(* The write of the results: rolled back when no job of the run is left.   *)
Store ==
    /\ worker.pc = "answered"
    /\ IF StillClaimed = {}
       THEN /\ worker' = NoWork
            /\ UNCHANGED <<phrase, made, jobs, kept, behind>>
       ELSE LET k == worker.kind
                current == {p \in DOMAIN worker.cards : Holds(p)}
                done == current \cap DOMAIN worker.answers
                to == [p \in IF k = Polish THEN done ELSE {} |->
                         WriteText(phrase[p], worker.cards[p].source,
                                   worker.answers[p], FALSE)]
                next == [p \in Phrases |-> IF p \in done
                                           THEN Result(p, k, worker.answers[p])
                                           ELSE made[p]]
            IN  /\ phrase' = Written(to)
                /\ made' = next
                /\ jobs' = Followed(jobs, to)
                /\ kept' = {w \in kept : next[w[1]][w[2]] = made[w[1]][w[2]]
                                           /\ ~(w[1] \in done /\ w[2] = k)}
                /\ behind' = Caught(to)
                /\ worker' = [worker EXCEPT !.pc = "stored",
                                            !.unanswered = current \ DOMAIN worker.answers]
    /\ UNCHANGED <<held, stops, run, count, since, typed>>

(* The end of the run: its jobs still running fail or go.                  *)
Settled(status, ps) ==
    [w \in Works |-> IF w[2] = worker.kind /\ w[1] \in ps \cap StillClaimed
                     THEN [jobs[w] EXCEPT !.status = status] ELSE jobs[w]]

Settle ==
    /\ worker.pc = "stored"
    /\ jobs' = [w \in Works |->
                  IF w[2] = worker.kind /\ w[1] \in StillClaimed \ worker.unanswered
                  THEN NoJob ELSE Settled("failed", worker.unanswered)[w]]
    /\ worker' = NoWork
    /\ UNCHANGED <<phrase, made, held, stops, run, count, history>>

(* The work breaks, or it is timed out.                                    *)
Break ==
    /\ worker.pc = "asking"
    /\ count.faults < MaxFaults /\ Counted("faults")
    /\ jobs' = Settled("failed", DOMAIN worker.refs)
    /\ worker' = NoWork
    /\ UNCHANGED <<phrase, made, held, stops, run, history>>

(* No AI, or another worker: running jobs go back in line as they are.     *)
Requeue ==
    /\ worker.pc # "idle"
    /\ count.faults < MaxFaults /\ Counted("faults")
    /\ jobs' = Settled("queued", DOMAIN worker.refs)
    /\ behind' = behind \cup {<<p, worker.kind>> : p \in StillClaimed}
    /\ worker' = NoWork
    /\ UNCHANGED <<phrase, made, held, stops, run, kept, since, typed>>

-----------------------------------------------------------------------------
UserEdit ==
    \E p \in Phrases :
        \/ \E text \in Texts : SetBoundary(p, text) \/ EditText(p, text)
        \/ SwitchPolish(p)

UserAsk ==
    \/ \E p \in Phrases : AskPolish(p) \/ \E k \in Kinds : AskResult(p, k)
    \/ \E sel \in Selections : CancelSelected(sel) \/ RetrySelected(sel)
    \/ \E w \in Works : CancelOne(w)

GenerationRun ==
    \/ \E k \in Kinds : BeginRun(k)
    \/ Plan \/ RunRefused
    \/ \E chosen \in SUBSET Phrases : Replace(chosen)
    \/ \E chunk \in SUBSET Phrases : QueueChunk(chunk)

Worker ==
    \/ \E k \in Kinds, ps \in SUBSET Phrases : ClaimRun(k, ps)
    \/ ReadCards \/ Answer \/ Store \/ Settle \/ Break \/ Requeue

Rebuild == \E s \in Sources : Hold(s) \/ \E cut \in Recuts(s) : Recut(s, cut)

Next == UserEdit \/ UserAsk \/ GenerationRun \/ Rebuild \/ Worker

Spec == Init /\ [][Next]_vars

-----------------------------------------------------------------------------
(* Properties.                                                             *)

(* A function from some of the phrases to S.                               *)
OfPhrases(f, S) == DOMAIN f \subseteq Phrases /\ f \in [DOMAIN f -> S]

IsWorker ==
    /\ worker \in [pc : {"idle", "claimed", "asking", "answered", "stored"},
                   kind : Kinds \cup {Unset}, refs : {worker.refs},
                   cards : {worker.cards}, answers : {worker.answers},
                   unanswered : SUBSET DOMAIN worker.cards]
    /\ worker.pc # "idle" => worker.kind \in Kinds
    /\ OfPhrases(worker.refs, Nat)
    /\ OfPhrases(worker.cards, Phrase)
    /\ OfPhrases(worker.answers, Texts)
    /\ DOMAIN worker.answers \subseteq DOMAIN worker.cards
    /\ DOMAIN worker.cards \subseteq DOMAIN worker.refs

IsGenerationRun ==
    /\ run \in [pc : {"none", "marked", "queueing"}, kind : Kinds \cup {Unset},
                mark : Nat, began : Nat, plan : {run.plan}, leftOut : SUBSET Sources]
    /\ run.pc # "none" => run.kind \in Kinds
    /\ OfPhrases(run.plan, Nat)

(* Every variable keeps its type.                                          *)
TypeOK ==
    /\ phrase \in [Phrases -> Phrase]
    /\ made \in [Phrases -> [Kinds -> Texts \cup {NoText}]]
    /\ jobs \in [Works -> Job]
    /\ held \subseteq Sources
    /\ IsWorker
    /\ stops \in Seq(Selections)
    /\ IsGenerationRun
    /\ kept \subseteq Works /\ behind \subseteq Works
    /\ since \in [Works -> Nat]
    /\ typed \in [Phrases -> Texts \cup {NoText}]

(* What was made of a phrase was made of the text it stands beside: the    *)
(* polish of the source text, meaning and speech of the text shown.  Only  *)
(* an edit or a re-cut that keeps a result on purpose leaves one of an     *)
(* older text; no answer that comes late ever does.                        *)
ResultsFit ==
    \A p \in Phrases : phrase[p].alive =>
        /\ Polish \in Kinds /\ phrase[p].polish # NoText
              => made[p][Polish] = phrase[p].source
        /\ \A k \in Misfits(phrase[p], made[p]) : <<p, k>> \in kept

(* The user's work on a phrase outlives the worker's: a polish by AI lands *)
(* only where there is none, on the source text it was asked for.          *)
JobsKeepTexts ==
    [][worker' # worker =>
        \A p \in Phrases : phrase'[p] # phrase[p] =>
            /\ phrase[p].polish = NoText
            /\ phrase'[p].source = phrase[p].source]_vars

(* A stop holds: no job in line or running was asked for before a stop of  *)
(* its kind and source, not even by a run that queued it afterwards.       *)
StopsHold ==
    \A w \in Active : \A i \in (since[w] + 1) .. Len(stops) :
        ~Matches(stops[i], w[2], SourceOf[w[1]])

(* A job in line works on the text the phrase shows, unless it was put     *)
(* there with a revision read before.                                      *)
WaitingJobsFollow ==
    \A w \in WithStatus("queued") :
        jobs[w].revision = phrase[w[1]].revision \/ w \in behind

-----------------------------------------------------------------------------
(* What the code's own words promise and the code does not keep.           *)

(* phrase_protection: "What a rebuild may do to a phrase: the user's work  *)
(* on it is never lost."  The text a user typed for a phrase is such work. *)
TypedTextsStay ==
    \A p \in Phrases : typed[p] # NoText =>
        phrase[p].alive /\ phrase[p].polish = typed[p]

=============================================================================
