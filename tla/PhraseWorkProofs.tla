-------------------------- MODULE PhraseWorkProofs --------------------------
(* Theorems of PhraseWork.  First what its operators return, and that      *)
(* every step keeps the types, one lemma for each action; then the         *)
(* properties: waiting jobs follow, stops hold, polishes spare the user's  *)
(* work, and results fit the texts they stand beside.                      *)
EXTENDS PhraseWork, TLAPS

USE DEF Works

-----------------------------------------------------------------------------
(* Texts.                                                                  *)

(* What a phrase shows is a text.                                          *)
LEMMA ShownIsText ==
    ASSUME NEW ph \in Phrase
    PROVE  Shown(ph) \in Texts
BY DEF Shown, Phrase

(* A text written keeps the rest of the phrase, and gives it a new         *)
(* revision just when it shows another text by it.                         *)
IsRewritten(next, ph, source, polish, reverted) ==
    /\ next \in Phrase
    /\ next.source = source /\ next.polish = polish /\ next.reverted = reverted
    /\ next.alive = ph.alive /\ next.edited = ph.edited
    /\ next.revision = IF Shown(next) = Shown(ph) THEN ph.revision ELSE ph.revision + 1

(* A text written is a phrase, rewritten as IsRewritten says.              *)
LEMMA WriteTextWrites ==
    ASSUME NEW ph \in Phrase, NEW source \in Texts, NEW polish \in Texts \cup {NoText},
           NEW reverted \in BOOLEAN
    PROVE  /\ WriteText(ph, source, polish, reverted) \in Phrase
           /\ IsRewritten(WriteText(ph, source, polish, reverted), ph, source, polish, reverted)
<1> DEFINE next == WriteText(ph, source, polish, reverted)
           mid == [ph EXCEPT !.source = source, !.polish = polish, !.reverted = reverted]
<1>1. /\ mid \in Phrase /\ mid.revision = ph.revision
      /\ mid.source = source /\ mid.polish = polish /\ mid.reverted = reverted
      /\ mid.alive = ph.alive /\ mid.edited = ph.edited
  BY DEF Phrase
<1>2. next = [mid EXCEPT !.revision = IF Shown(mid) = Shown(ph) THEN @ ELSE @ + 1]
  BY DEF WriteText
<1> HIDE DEF mid, next
<1>3. /\ next \in Phrase
      /\ next.source = source /\ next.polish = polish /\ next.reverted = reverted
      /\ next.alive = ph.alive /\ next.edited = ph.edited
      /\ next.revision = IF Shown(mid) = Shown(ph) THEN ph.revision ELSE ph.revision + 1
  BY <1>1, <1>2 DEF Phrase
<1>4. Shown(next) = Shown(mid)
  BY <1>1, <1>3 DEF Shown
<1>5. next \in Phrase /\ IsRewritten(next, ph, source, polish, reverted)
  BY <1>3, <1>4 DEF IsRewritten
<1> QED BY <1>5 DEF next

(* Phrases written anew are phrases.                                       *)
LEMMA WrittenType ==
    ASSUME phrase \in [Phrases -> Phrase], NEW to, \A p \in DOMAIN to : to[p] \in Phrase
    PROVE  /\ Written(to) \in [Phrases -> Phrase]
           /\ \A p \in Phrases : Written(to)[p] = IF p \in DOMAIN to THEN to[p] ELSE phrase[p]
BY DEF Written

(* Following an edit, a job keeps its status and, but for a queued one of  *)
(* a phrase with a new revision, the revision it carries.                  *)
LEMMA FollowedFollows ==
    ASSUME NEW js \in [Works -> Job], NEW to, \A p \in DOMAIN to : to[p] \in Phrase
    PROVE  /\ Followed(js, to) \in [Works -> Job]
           /\ \A w \in Works :
                 /\ Followed(js, to)[w].status = js[w].status
                 /\ Followed(js, to)[w].revision =
                      IF IsMoved(to, w[1]) /\ js[w].status = "queued"
                      THEN to[w[1]].revision ELSE js[w].revision
<1>1. ASSUME NEW w \in Works
      PROVE  LET j == IF IsMoved(to, w[1]) /\ js[w].status = "queued"
                      THEN QueuedJob(to[w[1]].revision) ELSE js[w]
             IN  /\ j \in Job /\ j.status = js[w].status
                 /\ j.revision = IF IsMoved(to, w[1]) /\ js[w].status = "queued"
                                 THEN to[w[1]].revision ELSE js[w].revision
  <2>1. CASE IsMoved(to, w[1]) /\ js[w].status = "queued"
    <3>1. to[w[1]].revision \in Nat
      BY <2>1 DEF IsMoved, Phrase
    <3> QED BY <2>1, <3>1 DEF QueuedJob, Job
  <2>2. CASE ~(IsMoved(to, w[1]) /\ js[w].status = "queued")
    BY <2>2
  <2> QED BY <2>1, <2>2
<1> QED BY <1>1 DEF Followed

(* Jobs put in line where none is active are queued at their revision.     *)
LEMMA EnqueuedQueues ==
    ASSUME NEW js \in [Works -> Job], NEW revisions,
           \A w \in DOMAIN revisions : revisions[w] \in Nat
    PROVE  /\ Enqueued(js, revisions) \in [Works -> Job]
           /\ \A w \in Works : Enqueued(js, revisions)[w] =
                IF w \in DOMAIN revisions /\ w \notin Active
                THEN QueuedJob(revisions[w]) ELSE js[w]
BY DEF Enqueued, QueuedJob, Job

-----------------------------------------------------------------------------
(* Types.                                                                  *)

(* No phrases at all are of every type.                                    *)
LEMMA NothingType ==
    ASSUME NEW S
    PROVE  OfPhrases(Nothing, S) /\ DOMAIN Nothing = {}
BY DEF OfPhrases, Nothing

(* The types hold at first.                                                *)
LEMMA InitTypes == Init => TypeOK
<1> SUFFICES ASSUME Init PROVE TypeOK
  OBVIOUS
<1>1. phrase \in [Phrases -> Phrase]
  <2>1. [alive : {TRUE}, source : Texts, polish : {NoText}, reverted : {FALSE},
         edited : {FALSE}, revision : {0}] \subseteq Phrase
    <3>1. {TRUE} \subseteq BOOLEAN /\ {FALSE} \subseteq BOOLEAN /\ {0} \subseteq Nat
      OBVIOUS
    <3> QED BY <3>1, Zenon DEF Phrase
  <2> QED BY <2>1 DEF Init
<1>2. IsWorker
  <2>1. worker = NoWork
    BY DEF Init
  <2> QED BY <2>1, NothingType DEF IsWorker, NoWork, OfPhrases
<1>3. IsGenerationRun
  <2>1. run = NoRun
    BY DEF Init
  <2> QED BY <2>1, NothingType DEF IsGenerationRun, NoRun, OfPhrases
<1>4. stops \in Seq(Selections)
  BY DEF Init
<1>5. /\ made \in [Phrases -> [Kinds -> Texts \cup {NoText}]]
      /\ jobs \in [Works -> Job] /\ held \subseteq Sources
      /\ kept \subseteq Works /\ behind \subseteq Works
      /\ since \in [Works -> Nat] /\ typed \in [Phrases -> Texts \cup {NoText}]
  BY DEF Init, NoJob, Job
<1> QED BY <1>1, <1>2, <1>3, <1>4, <1>5 DEF TypeOK

(* An edit keeps the types.                                                *)
LEMMA EditTypes ==
    ASSUME TypeOK, NEW p \in Phrases, NEW next \in Phrase,
           NEW results \in [Kinds -> Texts \cup {NoText}], Edit(p, next, results)
    PROVE  /\ phrase' \in [Phrases -> Phrase]
           /\ \A q \in Phrases : phrase'[q] = IF q = p THEN next ELSE phrase[q]
           /\ made' \in [Phrases -> [Kinds -> Texts \cup {NoText}]]
           /\ \A q \in Phrases : made'[q] = IF q = p THEN results ELSE made[q]
           /\ kept' \subseteq Works /\ behind' \subseteq Works
           /\ kept' = {w \in kept : w[1] # p}
                         \cup {w \in Works : w[1] = p /\ w[2] \in Misfits(next, results)}
<1> DEFINE to == [q \in {p} |-> next]
<1>1. \A q \in DOMAIN to : to[q] \in Phrase
  OBVIOUS
<1>2. /\ phrase' = Written(to) /\ made' = [made EXCEPT ![p] = results]
      /\ kept' = KeptBy({p}, phrase', made') /\ behind' = Caught(to)
  BY DEF Edit
<1>3. /\ phrase' \in [Phrases -> Phrase]
      /\ \A q \in Phrases : phrase'[q] = IF q = p THEN next ELSE phrase[q]
  BY <1>1, <1>2, WrittenType DEF TypeOK
<1>4. /\ made' \in [Phrases -> [Kinds -> Texts \cup {NoText}]]
      /\ \A q \in Phrases : made'[q] = IF q = p THEN results ELSE made[q]
  BY <1>2 DEF TypeOK
<1>5. kept' = {w \in kept : w[1] # p}
                \cup {w \in Works : w[1] = p /\ w[2] \in Misfits(next, results)}
  BY <1>2, <1>3, <1>4 DEF KeptBy
<1>6. kept' \subseteq Works /\ behind' \subseteq Works
  BY <1>2, <1>5 DEF Caught, TypeOK
<1> QED BY <1>3, <1>4, <1>5, <1>6

(* What a step that touches neither keeps of the worker and the run.       *)
LEMMA WorkerStays ==
    ASSUME IsWorker, UNCHANGED worker
    PROVE  IsWorker'
BY DEF IsWorker, OfPhrases

(* A step that leaves the run of generation alone keeps its type.          *)
LEMMA RunStays ==
    ASSUME IsGenerationRun, UNCHANGED run
    PROVE  IsGenerationRun'
BY DEF IsGenerationRun, OfPhrases

(* What an edit of the user does: phrase p becomes `next` and keeps         *)
(* `results`, and the jobs in line follow.                                 *)
Editing(p, next, results) ==
    /\ p \in Phrases /\ Edit(p, next, results)
    /\ jobs' = Followed(jobs, [q \in {p} |-> next])
    /\ next \in Phrase /\ results \in [Kinds -> Texts \cup {NoText}]
    /\ next.alive = phrase[p].alive
    /\ next.revision = IF Shown(next) = Shown(phrase[p]) THEN phrase[p].revision
                                                       ELSE phrase[p].revision + 1
    /\ Shown(next) = Shown(phrase[p]) /\ phrase[p].polish = NoText =>
          next.polish = NoText /\ next.source = phrase[p].source
    /\ Polish \in Kinds /\ next.polish # NoText =>
          \/ results[Polish] = next.source
          \/ /\ phrase[p].polish # NoText /\ next.source = phrase[p].source
             /\ results[Polish] = made[p][Polish]
    /\ typed' \in [Phrases -> Texts \cup {NoText}]
    /\ UNCHANGED <<held, worker, stops, run, since>>

(* A phrase cut anew loses its polish, which shows its text.               *)
LEMMA SetBoundaryEdits ==
    ASSUME TypeOK, NEW p \in Phrases, NEW text \in Texts, SetBoundary(p, text)
    PROVE  \E next, results : Editing(p, next, results)
<1> DEFINE written == WriteText(phrase[p], text, NoText, FALSE)
           next == [written EXCEPT !.edited = TRUE]
           results == [k \in Kinds |-> IF k = Polish THEN NoText ELSE made[p][k]]
<1>1. phrase[p] \in Phrase
  BY DEF TypeOK
<1>2. IsRewritten(written, phrase[p], text, NoText, FALSE)
  BY <1>1, WriteTextWrites
<1>3. results \in [Kinds -> Texts \cup {NoText}]
  BY DEF TypeOK
<1>4. /\ Edit(p, next, results) /\ jobs' = Followed(jobs, [q \in {p} |-> next])
      /\ typed' = [typed EXCEPT ![p] = NoText]
      /\ UNCHANGED <<held, worker, stops, run, since>>
  BY DEF SetBoundary
<1> HIDE DEF written
<1>5. /\ next \in Phrase /\ next.source = text /\ next.polish = NoText
      /\ next.alive = phrase[p].alive /\ next.revision = written.revision
  BY <1>2 DEF Phrase, IsRewritten
<1> HIDE DEF next, results
<1>6. Shown(next) = text /\ Shown(written) = text
  BY <1>2, <1>5 DEF Shown, IsRewritten
<1>7. phrase[p].polish = NoText => Shown(phrase[p]) = phrase[p].source
  BY DEF Shown
<1>8. typed' \in [Phrases -> Texts \cup {NoText}]
  BY <1>4 DEF TypeOK
<1>9. Editing(p, next, results)
  BY <1>2, <1>3, <1>4, <1>5, <1>6, <1>7, <1>8 DEF Editing, IsRewritten
<1> QED BY <1>9

(* A typed text is a polish of the source text as it is.                   *)
LEMMA EditTextEdits ==
    ASSUME TypeOK, NEW p \in Phrases, NEW text \in Texts, EditText(p, text)
    PROVE  \E next, results : Editing(p, next, results)
<1> DEFINE next == WriteText(phrase[p], phrase[p].source, text, FALSE)
           results == [k \in Kinds |-> IF k = Polish THEN phrase[p].source ELSE made[p][k]]
<1>1. phrase[p] \in Phrase /\ phrase[p].source \in Texts
  BY DEF TypeOK, Phrase
<1>2. IsRewritten(next, phrase[p], phrase[p].source, text, FALSE)
  BY <1>1, WriteTextWrites
<1>3. /\ results \in [Kinds -> Texts \cup {NoText}]
      /\ Polish \in Kinds => results[Polish] = next.source
  BY <1>1, <1>2 DEF TypeOK, IsRewritten
<1>4. /\ Edit(p, next, results) /\ jobs' = Followed(jobs, [q \in {p} |-> next])
      /\ typed' = [typed EXCEPT ![p] = text] /\ text # Shown(phrase[p])
      /\ UNCHANGED <<held, worker, stops, run, since>>
  BY DEF EditText
<1> HIDE DEF next, results
<1>5. Shown(next) = text
  BY <1>2, PhraseWorkAssumption DEF Shown, IsRewritten
<1>6. typed' \in [Phrases -> Texts \cup {NoText}]
  BY <1>4 DEF TypeOK
<1>7. Editing(p, next, results)
  BY <1>2, <1>3, <1>4, <1>5, <1>6 DEF Editing, IsRewritten
<1> QED BY <1>7

(* A switch keeps polish and source, and drops meaning and speech.         *)
LEMMA SwitchPolishEdits ==
    ASSUME TypeOK, NEW p \in Phrases, SwitchPolish(p)
    PROVE  \E next, results : Editing(p, next, results)
<1>1. PICK r : r = (~phrase[p].reverted)
  OBVIOUS
<1> DEFINE next == WriteText(phrase[p], phrase[p].source, phrase[p].polish, r)
           results == Reset(made[p])
<1>2. /\ phrase[p] \in Phrase /\ phrase[p].source \in Texts
      /\ phrase[p].polish \in Texts \cup {NoText}
  BY DEF TypeOK, Phrase
<1>3. r \in BOOLEAN
  BY <1>1, Zenon
<1>4. IsRewritten(next, phrase[p], phrase[p].source, phrase[p].polish, r)
  BY <1>2, <1>3, WriteTextWrites
<1>5. /\ results \in [Kinds -> Texts \cup {NoText}]
      /\ Polish \in Kinds => results[Polish] = made[p][Polish]
  BY PhraseWorkAssumption DEF TypeOK, Reset
<1>6. WriteText(phrase[p], phrase[p].source, phrase[p].polish, ~phrase[p].reverted) = next
  BY <1>1, Zenon
<1> HIDE DEF next, results
<1>7. /\ Edit(p, next, results) /\ jobs' = Followed(jobs, [q \in {p} |-> next])
      /\ phrase[p].polish # NoText
      /\ UNCHANGED <<held, worker, stops, run, since, typed>>
  BY <1>6 DEF SwitchPolish, results
<1>8. Editing(p, next, results)
  BY <1>4, <1>5, <1>7 DEF Editing, TypeOK, IsRewritten
<1> QED BY <1>8

(* Each edit of the user is an Editing of one phrase.                      *)
LEMMA UserEditEdits ==
    ASSUME TypeOK, UserEdit
    PROVE  \E p, next, results : Editing(p, next, results)
BY SetBoundaryEdits, EditTextEdits, SwitchPolishEdits DEF UserEdit

(* Edits keep the types.                                                   *)
LEMMA UserEditTypes ==
    ASSUME TypeOK, UserEdit
    PROVE  TypeOK'
<1>1. PICK p, next, results : Editing(p, next, results)
  BY UserEditEdits
<1>2. /\ p \in Phrases /\ next \in Phrase /\ results \in [Kinds -> Texts \cup {NoText}]
      /\ Edit(p, next, results)
  BY <1>1 DEF Editing
<1>3. jobs' \in [Works -> Job]
  BY <1>1, <1>2, FollowedFollows DEF TypeOK, Editing
<1>4. /\ phrase' \in [Phrases -> Phrase] /\ made' \in [Phrases -> [Kinds -> Texts \cup {NoText}]]
      /\ kept' \subseteq Works /\ behind' \subseteq Works
  BY <1>2, EditTypes
<1> QED BY <1>1, <1>3, <1>4, WorkerStays, RunStays DEF TypeOK, Editing

(* A request for a polish keeps the types.                                 *)
LEMMA AskPolishTypes ==
    ASSUME TypeOK, NEW p \in Phrases, AskPolish(p)
    PROVE  TypeOK'
<1> DEFINE next == WriteText(phrase[p], phrase[p].source, NoText, FALSE)
           to == [q \in {p} |-> next]
           asked == [w \in {<<p, Polish>>} |-> next.revision]
<1>1. /\ phrase[p] \in Phrase /\ phrase[p].source \in Texts
  BY DEF TypeOK, Phrase
<1>2. next \in Phrase /\ next.revision \in Nat
  <2>1. next \in Phrase
    BY <1>1, WriteTextWrites
  <2> QED BY <2>1 DEF Phrase
<1>3. /\ Polish \in Kinds /\ phrase' = Written(to)
      /\ made' = [made EXCEPT ![p][Polish] = NoText]
      /\ kept' = KeptBy({p}, Written(to), made)
      /\ jobs' = Enqueued(Followed(jobs, to), asked)
      /\ behind' = IF <<p, Polish>> \in Active THEN Caught(to)
                   ELSE Caught(to) \ {<<p, Polish>>}
      /\ AskedNow({<<p, Polish>>})
      /\ typed' = [typed EXCEPT ![p] = NoText]
      /\ UNCHANGED <<held, worker, stops, run>>
  BY DEF AskPolish
<1> HIDE DEF next
<1>4. jobs' \in [Works -> Job]
  <2>1. Followed(jobs, to) \in [Works -> Job]
    BY <1>2, FollowedFollows DEF TypeOK
  <2> QED BY <1>2, <1>3, <2>1, EnqueuedQueues
<1>5. phrase' \in [Phrases -> Phrase]
  BY <1>2, <1>3, WrittenType DEF TypeOK
<1>6. made' \in [Phrases -> [Kinds -> Texts \cup {NoText}]]
  BY <1>3 DEF TypeOK
<1>7. kept' \subseteq Works /\ behind' \subseteq Works
  BY <1>3 DEF TypeOK, KeptBy, Caught
<1>8. since' \in [Works -> Nat]
  BY <1>3 DEF TypeOK, AskedNow
<1>9. typed' \in [Phrases -> Texts \cup {NoText}]
  BY <1>3 DEF TypeOK
<1> QED
  BY <1>3, <1>4, <1>5, <1>6, <1>7, <1>8, <1>9, WorkerStays, RunStays DEF TypeOK

(* A request for a meaning or for speech keeps the types.                  *)
LEMMA AskResultTypes ==
    ASSUME TypeOK, NEW p \in Phrases, NEW k \in Kinds, AskResult(p, k)
    PROVE  TypeOK'
<1>1. /\ jobs' = Enqueued(jobs, [w \in {<<p, k>>} |-> phrase[p].revision])
      /\ \/ /\ k = Meaning
            /\ made' = [made EXCEPT ![p][Meaning] = NoText]
            /\ kept' = kept \ {<<p, Meaning>>}
         \/ UNCHANGED <<made, kept>>
      /\ behind' = IF <<p, k>> \in Active THEN behind ELSE behind \ {<<p, k>>}
      /\ AskedNow({<<p, k>>})
      /\ UNCHANGED <<phrase, held, worker, stops, run, typed>>
  BY DEF AskResult
<1>2. jobs' \in [Works -> Job]
  <2>1. phrase[p].revision \in Nat
    BY DEF TypeOK, Phrase
  <2> QED BY <1>1, <2>1, EnqueuedQueues DEF TypeOK
<1>3. made' \in [Phrases -> [Kinds -> Texts \cup {NoText}]]
  <2>1. CASE made' = [made EXCEPT ![p][Meaning] = NoText]
    BY <2>1 DEF TypeOK
  <2>2. CASE UNCHANGED made
    BY <2>2 DEF TypeOK
  <2> QED BY <1>1, <2>1, <2>2
<1>4. kept' \subseteq Works /\ behind' \subseteq Works
  BY <1>1 DEF TypeOK
<1>5. since' \in [Works -> Nat]
  BY <1>1 DEF TypeOK, AskedNow
<1> QED BY <1>1, <1>2, <1>3, <1>4, <1>5, WorkerStays, RunStays DEF TypeOK

(* A cancel of a selection keeps the types.                                *)
LEMMA CancelSelectedTypes ==
    ASSUME TypeOK, NEW sel \in Selections, CancelSelected(sel)
    PROVE  TypeOK'
<1>1. stops' \in Seq(Selections)
  BY DEF TypeOK, CancelSelected
<1>2. jobs' \in [Works -> Job]
  BY DEF TypeOK, CancelSelected, NoJob, Job
<1> QED
  BY <1>1, <1>2, WorkerStays, RunStays DEF TypeOK, CancelSelected, history

(* A cancel of one job keeps the types.                                    *)
LEMMA CancelOneTypes ==
    ASSUME TypeOK, NEW w \in Works, CancelOne(w)
    PROVE  TypeOK'
<1>1. jobs' \in [Works -> Job]
  BY DEF TypeOK, CancelOne, NoJob, Job
<1> QED BY <1>1, WorkerStays, RunStays DEF TypeOK, CancelOne, history

(* A retry keeps the types.                                                *)
LEMMA RetrySelectedTypes ==
    ASSUME TypeOK, NEW sel \in Selections, RetrySelected(sel)
    PROVE  TypeOK'
<1> DEFINE again == Selected(sel) \cap WithStatus("failed")
<1>1. /\ jobs' = [w \in Works |-> IF w \in again THEN QueuedJob(jobs[w].revision)
                                                 ELSE jobs[w]]
      /\ behind' = behind \cup again
      /\ AskedNow(again)
      /\ UNCHANGED <<phrase, made, held, worker, stops, run, kept, typed>>
  BY DEF RetrySelected
<1>2. again \subseteq Works
  BY DEF WithStatus
<1> HIDE DEF again
<1>3. jobs' \in [Works -> Job]
  BY <1>1 DEF TypeOK, QueuedJob, Job
<1>4. since' \in [Works -> Nat]
  BY <1>1 DEF TypeOK, AskedNow
<1> QED BY <1>1, <1>2, <1>3, <1>4, WorkerStays, RunStays DEF TypeOK

(* The beginning of a run keeps the types.                                 *)
LEMMA BeginRunTypes ==
    ASSUME TypeOK, NEW k \in Kinds, BeginRun(k)
    PROVE  TypeOK'
<1>1. run' = [pc |-> "marked", kind |-> k, mark |-> Len(stops), began |-> Len(stops),
              plan |-> Nothing, leftOut |-> {}]
  BY DEF BeginRun, NoRun
<1>2. Len(stops) \in Nat
  BY DEF TypeOK
<1>3. IsGenerationRun'
  BY <1>1, <1>2, NothingType DEF IsGenerationRun, OfPhrases
<1> QED BY <1>3, WorkerStays DEF TypeOK, BeginRun, history

(* No run of generation is of the type of one.                             *)
LEMMA NoRunType == ASSUME run' = NoRun PROVE IsGenerationRun'
BY NothingType DEF IsGenerationRun, NoRun, OfPhrases

(* A plan keeps the types: phrases with a revision each.                   *)
LEMMA PlanTypes ==
    ASSUME TypeOK, Plan
    PROVE  TypeOK'
<1>1. PICK chosen \in SUBSET Phrases :
        run' = IF chosen = {} THEN NoRun
               ELSE [run EXCEPT !.pc = "queueing", !.mark = run.mark,
                                !.plan = [p \in chosen |-> phrase[p].revision]]
  BY DEF Plan, PlanSince, InScope
<1>2. IsGenerationRun'
  <2>1. CASE chosen = {}
    BY <1>1, <2>1, NoRunType
  <2>2. CASE chosen # {}
    <3>1. \A p \in chosen : phrase[p].revision \in Nat
      BY DEF TypeOK, Phrase
    <3>2. run.pc # "none" /\ run.kind \in Kinds /\ run.mark \in Nat /\ run.began \in Nat
          /\ run.leftOut \subseteq Sources
      BY DEF TypeOK, IsGenerationRun, Plan, PlanSince
    <3>3. run' = [pc |-> "queueing", kind |-> run.kind, mark |-> run.mark,
                  began |-> run.began, plan |-> [p \in chosen |-> phrase[p].revision],
                  leftOut |-> run.leftOut]
      BY <1>1, <2>2 DEF TypeOK, IsGenerationRun
    <3> QED BY <3>1, <3>2, <3>3 DEF IsGenerationRun, OfPhrases
  <2> QED BY <2>1, <2>2
<1> QED BY <1>2, WorkerStays DEF TypeOK, Plan, PlanSince, history

(* The end of a refused run keeps the types.                               *)
LEMMA RunRefusedTypes ==
    ASSUME TypeOK, RunRefused
    PROVE  TypeOK'
BY NoRunType, WorkerStays DEF TypeOK, RunRefused, history

(* A chunk queued keeps the types; what is left is a plan.                 *)
LEMMA QueueChunkTypes ==
    ASSUME TypeOK, NEW chunk \in SUBSET Phrases, QueueChunk(chunk)
    PROVE  TypeOK'
<1> DEFINE sources == {SourceOf[p] : p \in chunk} \ run.leftOut
           leftOut == run.leftOut \cup (sources \cap (Stopped \cup held))
           taken == {<<p, run.kind>> : p \in {q \in chunk : /\ SourceOf[q] \notin leftOut
                                                            /\ phrase[q].alive}}
           rest == DOMAIN run.plan \ chunk
<1>1. /\ jobs' = Enqueued(jobs, [w \in taken |-> run.plan[w[1]]])
      /\ behind' = behind \cup (taken \ Active)
      /\ since' = [w \in Works |-> IF w \in taken \ Active THEN run.began ELSE since[w]]
      /\ run' = IF rest = {} THEN NoRun
                ELSE [run EXCEPT !.leftOut = leftOut, !.plan = [p \in rest |-> run.plan[p]]]
      /\ UNCHANGED <<phrase, made, held, worker, stops, count, kept, typed>>
  BY DEF QueueChunk
<1>2. /\ run.pc # "none" /\ run.kind \in Kinds /\ run.mark \in Nat /\ run.began \in Nat
      /\ run.leftOut \subseteq Sources /\ chunk \subseteq DOMAIN run.plan
      /\ DOMAIN run.plan \subseteq Phrases
      /\ \A p \in DOMAIN run.plan : run.plan[p] \in Nat
  BY DEF TypeOK, IsGenerationRun, OfPhrases, QueueChunk
<1>3. leftOut \subseteq Sources
  BY <1>2, PhraseWorkAssumption
<1>4. taken \subseteq Works /\ \A w \in taken : run.plan[w[1]] \in Nat
  BY <1>2
<1> HIDE DEF leftOut, taken
<1>5. jobs' \in [Works -> Job]
  BY <1>1, <1>4, EnqueuedQueues DEF TypeOK
<1>6. since' \in [Works -> Nat]
  BY <1>1, <1>2 DEF TypeOK
<1>7. behind' \subseteq Works
  BY <1>1, <1>4 DEF TypeOK
<1>8. IsGenerationRun'
  <2>1. CASE rest = {}
    BY <1>1, <2>1, NoRunType
  <2>2. CASE rest # {}
    <3>1. run' = [pc |-> run.pc, kind |-> run.kind, mark |-> run.mark, began |-> run.began,
                  plan |-> [p \in rest |-> run.plan[p]], leftOut |-> leftOut]
      BY <1>1, <2>2 DEF TypeOK, IsGenerationRun
    <3>2. run.pc \in {"none", "marked", "queueing"}
      BY DEF TypeOK, IsGenerationRun
    <3> HIDE DEF rest
    <3>3. rest \subseteq Phrases /\ \A p \in rest : run.plan[p] \in Nat
      BY <1>2 DEF rest
    <3> QED BY <1>2, <1>3, <3>1, <3>2, <3>3 DEF IsGenerationRun, OfPhrases
  <2> QED BY <2>1, <2>2
<1> QED BY <1>1, <1>5, <1>6, <1>7, <1>8, WorkerStays DEF TypeOK

(* What a run that replaces writes: `to` are the texts it writes.          *)
Replacing(chosen, to) ==
    LET k == run.kind
        works == chosen \X {k}
    IN  /\ chosen \in SUBSET Phrases /\ k \in Kinds /\ works \cap Active = {}
        /\ DOMAIN to = IF k = Polish THEN chosen ELSE {}
        /\ DOMAIN to \subseteq Phrases
        /\ \A p \in DOMAIN to :
              /\ to[p] \in Phrase
              /\ IsRewritten(to[p], phrase[p], phrase[p].source, NoText, FALSE)
        /\ phrase' = Written(to)
        /\ made' = [p \in Phrases |-> IF p \in chosen /\ k # Speech
                                      THEN [made[p] EXCEPT ![k] = NoText] ELSE made[p]]
        /\ kept' = KeptBy(DOMAIN to, phrase', made') \ (IF k = Meaning THEN works ELSE {})
        /\ jobs' = Enqueued(Followed(jobs, to),
                            [w \in works |-> Written(to)[w[1]].revision])
        /\ behind' = Caught(to) \ works
        /\ AskedNow(works)
        /\ typed' = [p \in Phrases |-> IF p \in DOMAIN to THEN NoText ELSE typed[p]]
        /\ run' = NoRun
        /\ UNCHANGED <<held, worker, stops, count>>

(* A run that replaces does what Replacing says.                           *)
LEMMA ReplaceReplaces ==
    ASSUME TypeOK, NEW chosen \in SUBSET Phrases, Replace(chosen)
    PROVE  \E to : Replacing(chosen, to)
<1> DEFINE texts == IF run.kind = Polish THEN chosen ELSE {}
           to == [p \in texts |-> WriteText(phrase[p], phrase[p].source, NoText, FALSE)]
<1>1. /\ chosen \in SUBSET Phrases /\ DOMAIN to = texts /\ texts \subseteq Phrases
      /\ run.kind \in Kinds
  BY DEF TypeOK, IsGenerationRun, Replace
<1>2. (chosen \X {run.kind}) \cap Active = {}
  BY DEF Replace, InScope
<1>3. ASSUME NEW p \in DOMAIN to
      PROVE  /\ to[p] \in Phrase
             /\ IsRewritten(to[p], phrase[p], phrase[p].source, NoText, FALSE)
  <2>1. phrase[p] \in Phrase /\ phrase[p].source \in Texts
    BY <1>1, <1>3 DEF TypeOK, Phrase
  <2> QED BY <1>3, <2>1, WriteTextWrites
<1>4. Replacing(chosen, to)
  BY <1>1, <1>2, <1>3 DEF Replace, Replacing
<1> QED BY <1>4

(* A run that replaces keeps the types.                                    *)
LEMMA ReplaceTypes ==
    ASSUME TypeOK, NEW chosen \in SUBSET Phrases, Replace(chosen)
    PROVE  TypeOK'
<1> DEFINE works == chosen \X {run.kind}
<1>1. PICK to : Replacing(chosen, to)
  BY ReplaceReplaces
<1>2. \A p \in DOMAIN to : to[p] \in Phrase
  BY <1>1 DEF Replacing
<1>3. phrase' \in [Phrases -> Phrase] /\ phrase' = Written(to)
  BY <1>1, <1>2, WrittenType DEF TypeOK, Replacing
<1>4. jobs' \in [Works -> Job]
  <2>1. Followed(jobs, to) \in [Works -> Job]
    BY <1>2, FollowedFollows DEF TypeOK
  <2>2. \A w \in works : Written(to)[w[1]].revision \in Nat
    BY <1>3 DEF Phrase
  <2>3. jobs' = Enqueued(Followed(jobs, to), [w \in works |-> Written(to)[w[1]].revision])
    BY <1>1 DEF Replacing
  <2> QED BY <2>1, <2>2, <2>3, EnqueuedQueues
<1>5. made' \in [Phrases -> [Kinds -> Texts \cup {NoText}]]
  BY <1>1 DEF TypeOK, Replacing
<1>6. kept' \subseteq Works /\ behind' \subseteq Works
  BY <1>1 DEF TypeOK, KeptBy, Caught, Replacing
<1>7. since' \in [Works -> Nat]
  BY <1>1 DEF TypeOK, AskedNow, Replacing
<1>8. typed' \in [Phrases -> Texts \cup {NoText}]
  BY <1>1 DEF TypeOK, Replacing
<1> QED
  BY <1>1, <1>3, <1>4, <1>5, <1>6, <1>7, <1>8, NoRunType, WorkerStays DEF TypeOK, Replacing

(* A source held or freed keeps the types.                                 *)
LEMMA HoldTypes ==
    ASSUME TypeOK, NEW s \in Sources, Hold(s)
    PROVE  TypeOK'
BY WorkerStays, RunStays DEF TypeOK, Hold, history

(* What a re-cut does, phrase by phrase: some go, some are rewritten.      *)
Recutting(s, gone, rewritten, to) ==
    /\ gone \in SUBSET Phrases /\ rewritten \in SUBSET Phrases
    /\ gone \cap rewritten = {}
    /\ \A p \in rewritten : phrase[p].alive /\ SourceOf[p] = s
    /\ DOMAIN to = rewritten
    /\ \A p \in rewritten :
          to[p] \in Phrase /\ to[p].polish = NoText
            /\ to[p].revision = phrase[p].revision + 1
    /\ phrase' \in [Phrases -> Phrase]
    /\ \A p \in gone : phrase'[p] = [phrase[p] EXCEPT !.alive = FALSE]
    /\ \A p \in rewritten : phrase'[p] = to[p]
    /\ \A p \in Phrases \ (gone \cup rewritten) : phrase'[p] = phrase[p]
    /\ made' \in [Phrases -> [Kinds -> Texts \cup {NoText}]]
    /\ \A p \in Phrases \ (gone \cup rewritten) : made'[p] = made[p]
    /\ jobs' = [w \in Works |->
                  IF w[1] \in gone \/ (w[1] \in rewritten /\ jobs[w].status = "running")
                  THEN NoJob ELSE Followed(jobs, to)[w]]
    /\ kept' = KeptBy(rewritten \cup gone, phrase', made')
    /\ behind' = Caught(to)

(* A re-cut does what Recutting says.                                      *)
LEMMA RecutCuts ==
    ASSUME TypeOK, NEW s \in Sources, NEW cut \in Recuts(s), Recut(s, cut)
    PROVE  \E gone, rewritten, to : Recutting(s, gone, rewritten, to)
<1> DEFINE gone == {p \in DOMAIN cut : cut[p] = NoText}
           rewritten == {p \in DOMAIN cut \ gone : cut[p] # phrase[p].source}
           to == [p \in rewritten |->
                    [phrase[p] EXCEPT !.source = cut[p],
                                      !.polish = NoText, !.reverted = FALSE,
                                      !.revision = @ + 1]]
           left == [p \in Phrases |->
                      CASE p \in gone      -> [k \in Kinds |-> NoText]
                        [] p \in rewritten -> [k \in Kinds |-> IF k = Meaning THEN made[p][k]
                                                                             ELSE NoText]
                        [] OTHER           -> made[p]]
           next == [p \in Phrases |-> IF p \in gone THEN [phrase[p] EXCEPT !.alive = FALSE]
                                                    ELSE Written(to)[p]]
<1>1. /\ phrase' = next /\ made' = left
      /\ jobs' = [w \in Works |->
                    IF w[1] \in gone \/ (w[1] \in rewritten /\ jobs[w].status = "running")
                    THEN NoJob ELSE Followed(jobs, to)[w]]
      /\ kept' = KeptBy(rewritten \cup gone, next, left)
      /\ behind' = Caught(to)
  BY DEF Recut
<1>2. /\ DOMAIN cut \subseteq Phrases
      /\ \A p \in DOMAIN cut :
            cut[p] \in Texts \cup {NoText} /\ phrase[p].alive /\ SourceOf[p] = s
  BY DEF Recuts
<1>3. /\ gone \in SUBSET Phrases /\ rewritten \in SUBSET Phrases
      /\ gone \cap rewritten = {} /\ DOMAIN to = rewritten
      /\ \A p \in rewritten : cut[p] \in Texts /\ phrase[p].alive /\ SourceOf[p] = s
  BY <1>2
<1>4. ASSUME NEW p \in rewritten
      PROVE  /\ to[p] \in Phrase
             /\ to[p].polish = NoText
             /\ to[p].revision = phrase[p].revision + 1
  <2>1. cut[p] \in Texts /\ phrase[p] \in Phrase
    BY <1>3 DEF TypeOK
  <2> HIDE DEF rewritten
  <2>2. to[p] = [alive |-> phrase[p].alive, source |-> cut[p], polish |-> NoText,
                 reverted |-> FALSE, edited |-> phrase[p].edited,
                 revision |-> phrase[p].revision + 1]
    BY <2>1 DEF Phrase
  <2> HIDE DEF to
  <2> QED BY <2>1, <2>2 DEF Phrase
<1> HIDE DEF to, gone, rewritten
<1>5. next \in [Phrases -> Phrase]
  <2>1. ASSUME NEW p \in Phrases
        PROVE  [phrase[p] EXCEPT !.alive = FALSE] \in Phrase
    BY DEF TypeOK, Phrase
  <2> QED BY <1>3, <1>4, <2>1, WrittenType DEF TypeOK
<1>6. /\ \A p \in gone : next[p] = [phrase[p] EXCEPT !.alive = FALSE]
      /\ \A p \in rewritten : next[p] = to[p]
      /\ \A p \in Phrases \ (gone \cup rewritten) : next[p] = phrase[p]
  BY <1>3 DEF Written
<1>7. /\ \A p \in gone : left[p] = [k \in Kinds |-> NoText]
      /\ \A p \in rewritten : left[p] = [k \in Kinds |-> IF k = Meaning THEN made[p][k]
                                                                          ELSE NoText]
      /\ \A p \in Phrases \ (gone \cup rewritten) : left[p] = made[p]
  BY <1>3
<1>8. left \in [Phrases -> [Kinds -> Texts \cup {NoText}]]
  BY <1>7 DEF TypeOK
<1> HIDE DEF next, left
<1>9. Recutting(s, gone, rewritten, to)
  BY <1>1, <1>3, <1>4, <1>5, <1>6, <1>7, <1>8 DEF Recutting
<1> QED BY <1>9

(* A re-cut keeps the types.                                               *)
LEMMA RecutTypes ==
    ASSUME TypeOK, NEW s \in Sources, NEW cut \in Recuts(s), Recut(s, cut)
    PROVE  TypeOK'
<1>1. PICK gone, rewritten, to : Recutting(s, gone, rewritten, to)
  BY RecutCuts
<1>2. Followed(jobs, to) \in [Works -> Job]
  BY <1>1, FollowedFollows DEF TypeOK, Recutting
<1>3. jobs' \in [Works -> Job]
  BY <1>1, <1>2 DEF NoJob, Job, Recutting
<1>4. kept' \subseteq Works /\ behind' \subseteq Works
  BY <1>1 DEF TypeOK, KeptBy, Caught, Recutting
<1> QED
  BY <1>1, <1>3, <1>4, WorkerStays, RunStays DEF TypeOK, Recut, Recutting

(* A claim keeps the types.                                                *)
LEMMA ClaimRunTypes ==
    ASSUME TypeOK, NEW k \in Kinds, NEW ps \in SUBSET Phrases, ClaimRun(k, ps)
    PROVE  TypeOK'
<1>1. jobs' \in [Works -> Job]
  BY DEF TypeOK, ClaimRun, Job
<1>2. worker' = [pc |-> "claimed", kind |-> k, refs |-> [p \in ps |-> jobs[<<p, k>>].revision],
                 cards |-> Nothing, answers |-> Nothing, unanswered |-> {}]
  BY DEF ClaimRun, NoWork
<1>3. \A p \in ps : jobs[<<p, k>>].revision \in Nat
  BY DEF TypeOK, Job
<1>4. IsWorker'
  BY <1>2, <1>3, NothingType DEF IsWorker, OfPhrases
<1> QED BY <1>1, <1>4, RunStays DEF TypeOK, ClaimRun, history

(* The idle worker is of the type of one.                                  *)
LEMMA NoWorkType == ASSUME worker' = NoWork PROVE IsWorker'
BY NothingType DEF IsWorker, NoWork, OfPhrases

(* No answer before it is asked for.                                       *)
NoAnswerYet ==
    worker.pc \in {"idle", "claimed", "asking"} =>
        DOMAIN worker.answers = {} /\ worker.unanswered = {}

(* A run of the worker with its fields of their types.                     *)
LEMMA WorkerBecomes ==
    ASSUME NEW pc \in {"claimed", "asking", "answered", "stored"}, NEW kind \in Kinds,
           NEW refs, OfPhrases(refs, Nat),
           NEW cards, OfPhrases(cards, Phrase), DOMAIN cards \subseteq DOMAIN refs,
           NEW answers, OfPhrases(answers, Texts), DOMAIN answers \subseteq DOMAIN cards,
           NEW unanswered \in SUBSET DOMAIN cards,
           worker' = [pc |-> pc, kind |-> kind, refs |-> refs, cards |-> cards,
                      answers |-> answers, unanswered |-> unanswered]
    PROVE  IsWorker'
BY DEF IsWorker, OfPhrases

(* Reading the cards keeps the types.                                      *)
LEMMA ReadCardsTypes ==
    ASSUME TypeOK, NoAnswerYet, ReadCards
    PROVE  TypeOK'
<1> DEFINE current == {p \in DOMAIN worker.refs :
                          /\ phrase[p].alive
                          /\ phrase[p].revision = worker.refs[p]
                          /\ worker.kind = Speech \/ ~IsDone(p, worker.kind)}
           pc == IF current = {} THEN "stored" ELSE "asking"
           cards == [p \in current |-> phrase[p]]
<1>1. /\ worker' = [worker EXCEPT !.cards = cards, !.pc = pc]
      /\ UNCHANGED <<phrase, made, jobs, held, stops, run, count, history>>
  BY DEF ReadCards
<1>2. /\ worker.kind \in Kinds /\ OfPhrases(worker.refs, Nat)
      /\ OfPhrases(worker.answers, Texts) /\ DOMAIN worker.answers = {}
      /\ worker.unanswered = {} /\ current \subseteq DOMAIN worker.refs
  BY DEF ReadCards, TypeOK, IsWorker, NoAnswerYet
<1>3. OfPhrases(cards, Phrase)
  BY <1>2 DEF OfPhrases, TypeOK
<1>4. worker' = [pc |-> pc, kind |-> worker.kind, refs |-> worker.refs, cards |-> cards,
                 answers |-> worker.answers, unanswered |-> worker.unanswered]
  BY <1>1 DEF TypeOK, IsWorker
<1>5. DOMAIN cards = current /\ pc \in {"claimed", "asking", "answered", "stored"}
  OBVIOUS
<1> HIDE DEF cards, pc, current
<1>6. IsWorker'
  BY <1>2, <1>3, <1>4, <1>5, WorkerBecomes
<1> QED BY <1>1, <1>6, RunStays DEF TypeOK, history

(* The cards kept are among those read, and the answers are of some of     *)
(* them.                                                                   *)
LEMMA AnswerAnswers ==
    ASSUME TypeOK, Answer
    PROVE  \E answers :
             /\ OfPhrases(answers, Texts) /\ DOMAIN answers \subseteq Wanted
             /\ worker.kind # Polish =>
                  \A p \in DOMAIN answers : answers[p] = Shown(worker.cards[p])
             /\ worker' = [worker EXCEPT !.pc = "answered", !.answers = answers,
                                         !.cards = [p \in Wanted |-> worker.cards[p]]]
<1>1. PICK answered \in IF worker.kind = Speech THEN {Wanted} ELSE SUBSET Wanted :
        \E answers \in Answers(answered) :
          worker' = [worker EXCEPT !.pc = "answered", !.answers = answers,
                                   !.cards = [p \in Wanted |-> worker.cards[p]]]
  BY DEF Answer, AnswerOf
<1>2. PICK answers \in Answers(answered) :
          worker' = [worker EXCEPT !.pc = "answered", !.answers = answers,
                                   !.cards = [p \in Wanted |-> worker.cards[p]]]
  BY <1>1
<1>3. answered \subseteq Wanted /\ Wanted \subseteq DOMAIN worker.cards
  BY <1>1 DEF Wanted
<1>4. DOMAIN worker.cards \subseteq Phrases
      /\ \A p \in DOMAIN worker.cards : worker.cards[p] \in Phrase
  BY DEF TypeOK, IsWorker, OfPhrases
<1>5. /\ OfPhrases(answers, Texts) /\ DOMAIN answers \subseteq Wanted
      /\ worker.kind # Polish =>
            \A p \in DOMAIN answers : answers[p] = Shown(worker.cards[p])
  <2>1. CASE worker.kind = Polish
    <3>1. answers \in [answered -> Texts]
      BY <2>1 DEF Answers
    <3> QED BY <1>3, <1>4, <2>1, <3>1 DEF OfPhrases
  <2>2. CASE worker.kind # Polish
    <3>1. answers = [p \in answered |-> Shown(worker.cards[p])]
      BY <2>2 DEF Answers
    <3>2. \A p \in answered : Shown(worker.cards[p]) \in Texts
      BY <1>3, <1>4, ShownIsText
    <3> QED BY <1>3, <1>4, <3>1, <3>2 DEF OfPhrases
  <2> QED BY <2>1, <2>2
<1> QED BY <1>2, <1>5

(* An answer keeps the types.                                              *)
LEMMA AnswerTypes ==
    ASSUME TypeOK, NoAnswerYet, Answer
    PROVE  TypeOK'
<1> DEFINE cards == [p \in Wanted |-> worker.cards[p]]
<1>1. PICK answers : /\ OfPhrases(answers, Texts) /\ DOMAIN answers \subseteq Wanted
                     /\ worker' = [worker EXCEPT !.pc = "answered", !.answers = answers,
                                                 !.cards = cards]
  BY AnswerAnswers
<1>2. /\ worker.kind \in Kinds /\ OfPhrases(worker.refs, Nat)
      /\ OfPhrases(worker.cards, Phrase)
      /\ DOMAIN worker.cards \subseteq DOMAIN worker.refs /\ worker.unanswered = {}
  BY DEF Answer, AnswerOf, TypeOK, IsWorker, NoAnswerYet
<1>3. Wanted \subseteq DOMAIN worker.cards
  BY DEF Wanted
<1>4. OfPhrases(cards, Phrase) /\ DOMAIN cards = Wanted
  BY <1>2, <1>3 DEF OfPhrases
<1>5. worker' = [pc |-> "answered", kind |-> worker.kind, refs |-> worker.refs,
                 cards |-> cards, answers |-> answers, unanswered |-> worker.unanswered]
  BY <1>1 DEF TypeOK, IsWorker
<1> HIDE DEF cards
<1>6. /\ DOMAIN cards \subseteq DOMAIN worker.refs /\ DOMAIN answers \subseteq DOMAIN cards
      /\ worker.unanswered \in SUBSET DOMAIN cards
  BY <1>1, <1>2, <1>3, <1>4
<1>7. IsWorker'
  <2>1. "answered" \in {"claimed", "asking", "answered", "stored"}
    OBVIOUS
  <2>2. /\ OfPhrases(answers, Texts) /\ OfPhrases(worker.refs, Nat) /\ OfPhrases(cards, Phrase)
        /\ worker.kind \in Kinds
    BY <1>1, <1>2, <1>4
  <2> QED BY <1>5, <1>6, <2>1, <2>2, WorkerBecomes
<1> QED BY <1>7, RunStays DEF TypeOK, Answer, AnswerOf, history

(* The names of what a store writes.                                       *)
Current == {p \in DOMAIN worker.cards : Holds(p)}
Done == Current \cap DOMAIN worker.answers
Polished == IF worker.kind = Polish THEN Done ELSE {}
PolishedTo == [p \in Polished |-> WriteText(phrase[p], worker.cards[p].source,
                                            worker.answers[p], FALSE)]

(* A store with a job of the run left writes these.                        *)
LEMMA StoreStores ==
    ASSUME TypeOK, Store, StillClaimed # {}
    PROVE  /\ phrase' = Written(PolishedTo)
           /\ \A p \in Polished : PolishedTo[p] \in Phrase
           /\ made' = [p \in Phrases |-> IF p \in Done
                                         THEN Result(p, worker.kind, worker.answers[p])
                                         ELSE made[p]]
           /\ jobs' = Followed(jobs, PolishedTo)
           /\ kept' = {w \in kept : made'[w[1]][w[2]] = made[w[1]][w[2]]
                                       /\ ~(w[1] \in Done /\ w[2] = worker.kind)}
           /\ behind' = Caught(PolishedTo)
           /\ worker' = [worker EXCEPT !.pc = "stored",
                                       !.unanswered = Current \ DOMAIN worker.answers]
<1>1. ASSUME NEW p \in Polished
      PROVE  PolishedTo[p] \in Phrase
  <2>1. phrase[p] \in Phrase /\ worker.cards[p].source \in Texts /\ worker.answers[p] \in Texts
    BY DEF Polished, Done, Current, TypeOK, IsWorker, OfPhrases, Phrase
  <2>2. WriteText(phrase[p], worker.cards[p].source, worker.answers[p], FALSE) \in Phrase
    BY <2>1, WriteTextWrites
  <2> QED BY <2>2 DEF PolishedTo
<1> QED BY <1>1 DEF Store, Current, Done, Polished, PolishedTo

(* A store keeps the types.                                                *)
LEMMA StoreTypes ==
    ASSUME TypeOK, Store
    PROVE  TypeOK'
<1>1. CASE StillClaimed = {}
  BY <1>1, NoWorkType, RunStays DEF TypeOK, Store
<1>2. CASE StillClaimed # {}
  <2>1. DOMAIN PolishedTo = Polished
    BY DEF PolishedTo
  <2>2. \A p \in DOMAIN PolishedTo : PolishedTo[p] \in Phrase
    BY <1>2, <2>1, StoreStores
  <2>3. phrase' \in [Phrases -> Phrase]
    BY <1>2, <2>2, StoreStores, WrittenType DEF TypeOK
  <2>4. jobs' \in [Works -> Job]
    <3>1. jobs' = Followed(jobs, PolishedTo)
      BY <1>2, StoreStores
    <3> QED BY <2>2, <3>1, FollowedFollows DEF TypeOK
  <2>5. made' \in [Phrases -> [Kinds -> Texts \cup {NoText}]]
    <3>1. ASSUME NEW p \in Done
          PROVE  Result(p, worker.kind, worker.answers[p]) \in [Kinds -> Texts \cup {NoText}]
      <4>1. /\ p \in Phrases /\ worker.cards[p].source \in Texts /\ worker.answers[p] \in Texts
            /\ made[p] \in [Kinds -> Texts \cup {NoText}]
        BY DEF Done, Current, TypeOK, IsWorker, OfPhrases, Phrase
      <4>2. CASE worker.kind # Polish
        BY <4>1, <4>2 DEF Result
      <4>3. CASE worker.kind = Polish
        BY <4>1, <4>3 DEF Result, Reset
      <4> QED BY <4>2, <4>3
    <3> QED BY <1>2, <3>1, StoreStores DEF TypeOK
  <2>6. kept' \subseteq Works /\ behind' \subseteq Works
    BY <1>2, StoreStores DEF TypeOK, Caught
  <2>7. IsWorker'
    <3>1. /\ worker.kind \in Kinds /\ OfPhrases(worker.refs, Nat)
          /\ OfPhrases(worker.cards, Phrase) /\ OfPhrases(worker.answers, Texts)
          /\ DOMAIN worker.cards \subseteq DOMAIN worker.refs
          /\ DOMAIN worker.answers \subseteq DOMAIN worker.cards
      BY DEF Store, TypeOK, IsWorker
    <3>2. Current \ DOMAIN worker.answers \in SUBSET DOMAIN worker.cards
      BY DEF Current
    <3>3. worker' = [pc |-> "stored", kind |-> worker.kind, refs |-> worker.refs,
                     cards |-> worker.cards, answers |-> worker.answers,
                     unanswered |-> Current \ DOMAIN worker.answers]
      BY <1>2, StoreStores DEF TypeOK, IsWorker
    <3> QED BY <3>1, <3>2, <3>3, WorkerBecomes
  <2> QED BY <2>3, <2>4, <2>5, <2>6, <2>7, RunStays DEF TypeOK, Store
<1> QED BY <1>1, <1>2

(* Jobs of the run that fail or go back in line are jobs.                  *)
LEMMA SettledType ==
    ASSUME TypeOK, NEW status \in {"queued", "failed"}, NEW ps
    PROVE  /\ Settled(status, ps) \in [Works -> Job]
           /\ \A w \in Works :
                /\ Settled(status, ps)[w].revision = jobs[w].revision
                /\ Settled(status, ps)[w].status \in {jobs[w].status, status}
BY DEF Settled, TypeOK, Job

(* The end of a run of the worker keeps the types.                         *)
LEMMA SettleTypes ==
    ASSUME TypeOK, Settle
    PROVE  TypeOK'
<1>1. jobs' \in [Works -> Job]
  <2>1. Settled("failed", worker.unanswered) \in [Works -> Job]
    BY SettledType
  <2> QED BY <2>1 DEF Settle, NoJob, Job
<1> QED BY <1>1, NoWorkType, RunStays DEF TypeOK, Settle, history

(* Work that breaks keeps the types.                                       *)
LEMMA BreakTypes ==
    ASSUME TypeOK, Break
    PROVE  TypeOK'
BY SettledType, NoWorkType, RunStays DEF TypeOK, Break, history

(* Jobs put back in line keep the types.                                   *)
LEMMA RequeueTypes ==
    ASSUME TypeOK, Requeue
    PROVE  TypeOK'
<1>1. worker.kind \in Kinds /\ StillClaimed \subseteq Phrases
  BY DEF TypeOK, IsWorker, OfPhrases, StillClaimed, Requeue
<1>2. behind' \subseteq Works
  BY <1>1 DEF TypeOK, Requeue
<1>3. jobs' \in [Works -> Job]
  BY SettledType DEF Requeue
<1> QED BY <1>2, <1>3, NoWorkType, RunStays DEF TypeOK, Requeue

(* An answer is there only once it was asked for.                          *)
LEMMA NoAnswerYetStays ==
    ASSUME TypeOK, NoAnswerYet, [Next]_vars
    PROVE  NoAnswerYet'
<1> USE DEF NoAnswerYet
<1>1. CASE UNCHANGED worker
  BY <1>1
<1>2. CASE worker' = NoWork
  BY <1>2, NothingType DEF NoWork
<1>3. ASSUME NEW k \in Kinds, NEW ps, ClaimRun(k, ps)
      PROVE  NoAnswerYet'
  BY <1>3, NothingType DEF ClaimRun, NoWork
<1>4. CASE ReadCards
  BY <1>4 DEF ReadCards, TypeOK, IsWorker
<1>5. CASE Answer
  <2>1. worker'.pc = "answered"
    BY <1>5 DEF Answer, AnswerOf, TypeOK, IsWorker
  <2> QED BY <2>1
<1>6. CASE Store
  <2>1. CASE StillClaimed = {}
    BY <1>2, <1>6, <2>1 DEF Store
  <2>2. CASE StillClaimed # {}
    <3>1. worker'.pc = "stored"
      BY <1>6, <2>2, StoreStores DEF TypeOK, IsWorker
    <3> QED BY <3>1
  <2> QED BY <2>1, <2>2
<1>7. UserEdit \/ UserAsk \/ GenerationRun \/ Rebuild \/ UNCHANGED vars => UNCHANGED worker
  BY DEF UserEdit, UserAsk, GenerationRun, Rebuild, SetBoundary, EditText, SwitchPolish,
         AskPolish, AskResult, CancelSelected, CancelOne, RetrySelected, BeginRun, Plan,
         PlanSince, RunRefused, Replace, QueueChunk, Hold, Recut, vars
<1>8. Settle \/ Break \/ Requeue => worker' = NoWork
  BY DEF Settle, Break, Requeue
<1> QED BY <1>1, <1>2, <1>3, <1>4, <1>5, <1>6, <1>7, <1>8 DEF Next, Worker

TypeInv == TypeOK /\ NoAnswerYet

(* Every step keeps the types, and no answer before it is asked for.       *)
LEMMA StepTypes == TypeInv /\ [Next]_vars => TypeInv'
<1> SUFFICES ASSUME TypeOK, NoAnswerYet, [Next]_vars PROVE TypeOK'
  BY NoAnswerYetStays DEF TypeInv
<1>1. CASE UserEdit
  BY <1>1, UserEditTypes
<1>2. CASE UserAsk
  BY <1>2, AskPolishTypes, AskResultTypes, CancelSelectedTypes, RetrySelectedTypes,
     CancelOneTypes DEF UserAsk
<1>3. CASE GenerationRun
  BY <1>3, BeginRunTypes, PlanTypes, RunRefusedTypes, ReplaceTypes, QueueChunkTypes
     DEF GenerationRun
<1>4. CASE Worker
  BY <1>4, ClaimRunTypes, ReadCardsTypes, AnswerTypes, StoreTypes, SettleTypes, BreakTypes,
     RequeueTypes DEF Worker
<1>5. CASE Rebuild
  BY <1>5, HoldTypes, RecutTypes DEF Rebuild
<1>6. CASE UNCHANGED vars
  BY <1>6, WorkerStays, RunStays DEF TypeOK, vars, history
<1> QED BY <1>1, <1>2, <1>3, <1>4, <1>5, <1>6 DEF Next

(* Both hold always: the base of the invariants to come.                   *)
LEMMA TypeInvHolds == Spec => []TypeInv
<1>1. Init => TypeInv
  <2>1. Init => NoAnswerYet
    BY NothingType DEF Init, NoAnswerYet, NoWork
  <2> QED BY <2>1, InitTypes DEF TypeInv
<1> QED BY <1>1, StepTypes, PTL DEF Spec

(* Every variable keeps its type, whatever the phrases, kinds and limits.  *)
THEOREM TypeCorrect == Spec => []TypeOK
<1>1. TypeInv => TypeOK
  BY DEF TypeInv
<1> QED BY <1>1, TypeInvHolds, PTL

HIDE DEF Works

-----------------------------------------------------------------------------
(* Jobs in line follow the text.                                           *)

(* The property for one set of jobs, phrases and exceptions.               *)
Follows(js, ph, except) ==
    \A w \in Works : js[w].status = "queued" =>
        js[w].revision = ph[w[1]].revision \/ w \in except

(* For the variables of the specification it is the property.              *)
LEMMA FollowsIsProperty ==
    ASSUME TypeOK
    PROVE  WaitingJobsFollow <=> Follows(jobs, phrase, behind)
BY DEF WaitingJobsFollow, Follows, WithStatus

(* Following an edit, a job keeps its status.                              *)
LEMMA FollowedStatus ==
    ASSUME TypeOK, NEW to, \A p \in DOMAIN to : to[p] \in Phrase
    PROVE  \A w \in Works : Followed(jobs, to)[w].status = jobs[w].status
<1>1. jobs \in [Works -> Job]
  BY DEF TypeOK
<1> QED BY <1>1, FollowedFollows

(* A change of texts that the jobs follow.                                 *)
LEMMA FollowedKeeps ==
    ASSUME TypeOK, Follows(jobs, phrase, behind),
           NEW to, \A p \in DOMAIN to : to[p] \in Phrase, DOMAIN to \subseteq Phrases
    PROVE  Follows(Followed(jobs, to), Written(to), Caught(to))
<1> SUFFICES ASSUME NEW w \in Works, Followed(jobs, to)[w].status = "queued"
             PROVE  \/ Followed(jobs, to)[w].revision = Written(to)[w[1]].revision
                    \/ w \in Caught(to)
  BY DEF Follows
<1>1. /\ jobs[w].status = "queued" /\ w[1] \in Phrases
      /\ Followed(jobs, to)[w].revision = IF IsMoved(to, w[1]) THEN to[w[1]].revision
                                                              ELSE jobs[w].revision
  <2>1. jobs \in [Works -> Job] /\ w[1] \in Phrases
    BY DEF TypeOK, Works
  <2>2. /\ Followed(jobs, to)[w].status = jobs[w].status
        /\ Followed(jobs, to)[w].revision =
             IF IsMoved(to, w[1]) /\ jobs[w].status = "queued"
             THEN to[w[1]].revision ELSE jobs[w].revision
    BY <2>1, FollowedFollows
  <2> QED BY <2>1, <2>2
<1>2. Written(to)[w[1]] = IF w[1] \in DOMAIN to THEN to[w[1]] ELSE phrase[w[1]]
  BY <1>1 DEF Written
<1>3. CASE IsMoved(to, w[1])
  BY <1>1, <1>2, <1>3 DEF IsMoved
<1>4. CASE ~IsMoved(to, w[1])
  BY <1>1, <1>2, <1>4 DEF IsMoved, Caught, Follows
<1> QED BY <1>3, <1>4

(* Jobs enqueued at the revision of their phrase.                          *)
LEMMA EnqueuedKeeps ==
    ASSUME NEW js \in [Works -> Job], NEW ph, NEW except, Follows(js, ph, except),
           NEW works, NEW revisions, DOMAIN revisions = works,
           \A w \in works : revisions[w] \in Nat /\ revisions[w] = ph[w[1]].revision
    PROVE  /\ Follows(Enqueued(js, revisions), ph, except)
           /\ works \cap Active = {} =>
                 Follows(Enqueued(js, revisions), ph, except \ works)
<1>1. \A w \in Works : Enqueued(js, revisions)[w] =
         IF w \in works /\ w \notin Active THEN QueuedJob(revisions[w]) ELSE js[w]
  <2>1. \A w \in DOMAIN revisions : revisions[w] \in Nat
    OBVIOUS
  <2> QED BY <2>1, EnqueuedQueues
<1>2. \A w \in works : QueuedJob(revisions[w]).revision = ph[w[1]].revision
  BY DEF QueuedJob
<1> QED BY <1>1, <1>2 DEF Follows

(* Waiting jobs follow an edit of the user.                                *)
LEMMA EditFollows ==
    ASSUME TypeOK, Follows(jobs, phrase, behind), UserEdit
    PROVE  Follows(jobs, phrase, behind)'
<1>1. PICK p, next, results : Editing(p, next, results)
  BY UserEditEdits
<1> DEFINE to == [q \in {p} |-> next]
<1>2. /\ \A q \in DOMAIN to : to[q] \in Phrase
      /\ DOMAIN to \subseteq Phrases
      /\ phrase' = Written(to) /\ jobs' = Followed(jobs, to) /\ behind' = Caught(to)
  BY <1>1 DEF Editing, Edit
<1> HIDE DEF to
<1>3. Follows(Followed(jobs, to), Written(to), Caught(to))
  BY <1>2, FollowedKeeps
<1> QED BY <1>2, <1>3 DEF Follows

(* They follow a request for a polish, which drops the old one.            *)
LEMMA AskPolishFollows ==
    ASSUME TypeOK, Follows(jobs, phrase, behind), NEW p \in Phrases, AskPolish(p)
    PROVE  Follows(jobs, phrase, behind)'
<1> DEFINE next == WriteText(phrase[p], phrase[p].source, NoText, FALSE)
           to == [q \in {p} |-> next]
           asked == [w \in {<<p, Polish>>} |-> next.revision]
<1>1. next \in Phrase /\ next.revision \in Nat
  <2>1. phrase[p] \in Phrase /\ phrase[p].source \in Texts
    BY DEF TypeOK, Phrase
  <2>2. next \in Phrase
    BY <2>1, WriteTextWrites
  <2> QED BY <2>2 DEF Phrase
<1>2. /\ Polish \in Kinds /\ phrase' = Written(to)
      /\ jobs' = Enqueued(Followed(jobs, to), asked)
      /\ behind' = IF <<p, Polish>> \in Active THEN Caught(to)
                   ELSE Caught(to) \ {<<p, Polish>>}
  BY DEF AskPolish
<1> HIDE DEF next
<1>3. /\ \A q \in DOMAIN to : to[q] \in Phrase
      /\ DOMAIN to \subseteq Phrases
      /\ Written(to)[p] = next /\ DOMAIN asked = {<<p, Polish>>}
      /\ \A w \in {<<p, Polish>>} : asked[w] \in Nat /\ asked[w] = Written(to)[w[1]].revision
  BY <1>1 DEF Written
<1> HIDE DEF to, asked
<1>4. Follows(Followed(jobs, to), Written(to), Caught(to))
      /\ Followed(jobs, to) \in [Works -> Job]
  BY <1>3, FollowedKeeps, FollowedFollows DEF TypeOK
<1>5. /\ Follows(jobs', Written(to), Caught(to))
      /\ {<<p, Polish>>} \cap Active = {} =>
            Follows(jobs', Written(to), Caught(to) \ {<<p, Polish>>})
  BY <1>2, <1>3, <1>4, EnqueuedKeeps
<1> QED BY <1>2, <1>5 DEF Follows

(* They follow a request for a meaning or for speech.                      *)
LEMMA AskResultFollows ==
    ASSUME TypeOK, Follows(jobs, phrase, behind),
           NEW p \in Phrases, NEW k \in Kinds, AskResult(p, k)
    PROVE  Follows(jobs, phrase, behind)'
<1> DEFINE asked == [w \in {<<p, k>>} |-> phrase[p].revision]
<1>1. /\ jobs' = Enqueued(jobs, asked) /\ UNCHANGED phrase
      /\ behind' = IF <<p, k>> \in Active THEN behind ELSE behind \ {<<p, k>>}
  BY DEF AskResult
<1>2. /\ DOMAIN asked = {<<p, k>>}
      /\ \A w \in {<<p, k>>} : asked[w] \in Nat /\ asked[w] = phrase[w[1]].revision
  BY DEF TypeOK, Phrase
<1> HIDE DEF asked
<1>3. /\ Follows(jobs', phrase, behind)
      /\ {<<p, k>>} \cap Active = {} => Follows(jobs', phrase, behind \ {<<p, k>>})
  BY <1>1, <1>2, EnqueuedKeeps DEF TypeOK
<1> QED BY <1>1, <1>3 DEF Follows

(* A job retried is an exception.                                          *)
LEMMA RetryFollows ==
    ASSUME TypeOK, Follows(jobs, phrase, behind), NEW sel, RetrySelected(sel)
    PROVE  Follows(jobs, phrase, behind)'
BY DEF RetrySelected, Follows, TypeOK

(* A job of a plan is an exception: its revision was read before.          *)
LEMMA QueueChunkFollows ==
    ASSUME TypeOK, Follows(jobs, phrase, behind), NEW chunk, QueueChunk(chunk)
    PROVE  Follows(jobs, phrase, behind)'
<1>1. PICK taken :
        /\ jobs' = Enqueued(jobs, [w \in taken |-> run.plan[w[1]]])
        /\ behind' = behind \cup (taken \ Active)
        /\ UNCHANGED phrase
  BY DEF QueueChunk
<1>2. \A w \in Works : w \in taken \ Active \/ jobs'[w] = jobs[w]
  BY <1>1 DEF Enqueued
<1> QED BY <1>1, <1>2 DEF Follows

(* The jobs of a run that replaces are queued at its own revisions.        *)
LEMMA ReplaceFollows ==
    ASSUME TypeOK, Follows(jobs, phrase, behind), NEW chosen \in SUBSET Phrases, Replace(chosen)
    PROVE  Follows(jobs, phrase, behind)'
<1> DEFINE works == chosen \X {run.kind}
<1>1. PICK to, asked : /\ Replacing(chosen, to)
                       /\ asked = [w \in works |-> Written(to)[w[1]].revision]
  BY ReplaceReplaces
<1>2. /\ phrase' = Written(to) /\ jobs' = Enqueued(Followed(jobs, to), asked)
      /\ behind' = Caught(to) \ works
      /\ \A p \in DOMAIN to : to[p] \in Phrase
      /\ DOMAIN to \subseteq Phrases /\ works \cap Active = {}
  BY <1>1 DEF Replacing
<1>3. Written(to) \in [Phrases -> Phrase]
  BY <1>2, WrittenType DEF TypeOK
<1>4. /\ DOMAIN asked = works
      /\ \A w \in works : asked[w] \in Nat /\ asked[w] = Written(to)[w[1]].revision
  BY <1>1, <1>3 DEF Phrase
<1>5. Follows(Followed(jobs, to), Written(to), Caught(to))
      /\ Followed(jobs, to) \in [Works -> Job]
  BY <1>2, FollowedKeeps, FollowedFollows DEF TypeOK
<1> HIDE DEF works
<1>6. Follows(jobs', Written(to), Caught(to) \ works)
  BY <1>2, <1>4, <1>5, EnqueuedKeeps
<1> QED BY <1>2, <1>6 DEF Follows

(* They follow a re-cut, but for the running ones, which go.               *)
LEMMA RecutFollows ==
    ASSUME TypeOK, Follows(jobs, phrase, behind),
           NEW s \in Sources, NEW cut \in Recuts(s), Recut(s, cut)
    PROVE  Follows(jobs, phrase, behind)'
<1>1. PICK gone, rewritten, to : Recutting(s, gone, rewritten, to)
  BY RecutCuts
<1>2. /\ \A p \in DOMAIN to : to[p] \in Phrase
      /\ DOMAIN to \subseteq Phrases /\ DOMAIN to \cap gone = {}
      /\ behind' = Caught(to)
      /\ \A w \in Works : jobs'[w] \in {NoJob, Followed(jobs, to)[w]}
  BY <1>1 DEF Recutting
<1>3. \A p \in Phrases : phrase'[p].revision = Written(to)[p].revision
  <2>1. ASSUME NEW p \in gone
        PROVE  phrase'[p].revision = phrase[p].revision
    <3>1. phrase[p] \in Phrase /\ phrase'[p] = [phrase[p] EXCEPT !.alive = FALSE]
      BY <1>1 DEF Recutting, TypeOK
    <3> QED BY <3>1 DEF Phrase
  <2> QED BY <1>1, <2>1 DEF Recutting, Written
<1>4. Follows(Followed(jobs, to), Written(to), Caught(to))
  BY <1>2, FollowedKeeps
<1>5. NoJob.status # "queued"
  BY DEF NoJob
<1>6. ASSUME NEW w \in Works, jobs'[w].status = "queued"
      PROVE  jobs'[w].revision = phrase'[w[1]].revision \/ w \in behind'
  <2>1. jobs'[w] = Followed(jobs, to)[w] /\ w[1] \in Phrases
    BY <1>2, <1>5, <1>6 DEF Works
  <2> QED BY <1>2, <1>3, <1>4, <1>6, <2>1 DEF Follows
<1> QED BY <1>6 DEF Follows

(* They follow a polish by the worker.                                     *)
LEMMA StoreFollows ==
    ASSUME TypeOK, Follows(jobs, phrase, behind), Store
    PROVE  Follows(jobs, phrase, behind)'
<1>1. CASE StillClaimed = {}
  BY <1>1 DEF Store, Follows
<1>2. CASE StillClaimed # {}
  <2>1. /\ \A p \in DOMAIN PolishedTo : PolishedTo[p] \in Phrase
        /\ phrase' = Written(PolishedTo) /\ jobs' = Followed(jobs, PolishedTo)
        /\ behind' = Caught(PolishedTo)
    BY <1>2, StoreStores DEF PolishedTo
  <2>2. DOMAIN PolishedTo \subseteq Phrases
    BY DEF PolishedTo, Polished, Done, Current, TypeOK, IsWorker, OfPhrases
  <2>3. Follows(Followed(jobs, PolishedTo), Written(PolishedTo), Caught(PolishedTo))
    BY <2>1, <2>2, FollowedKeeps
  <2> QED BY <2>1, <2>3 DEF Follows
<1> QED BY <1>1, <1>2

(* A job put back in line by the worker is an exception.                   *)
LEMMA RequeueFollows ==
    ASSUME TypeOK, Follows(jobs, phrase, behind), Requeue
    PROVE  Follows(jobs, phrase, behind)'
<1>1. ASSUME NEW w \in Works
      PROVE  w \in behind' \/ jobs'[w] = jobs[w]
  <2>1. w = <<w[1], w[2]>>
    BY DEF Works
  <2> QED BY <2>1 DEF Requeue, Settled
<1>2. behind \subseteq behind' /\ UNCHANGED phrase
  BY DEF Requeue
<1> QED BY <1>1, <1>2 DEF Follows

(* Steps that put no job in line and change no text.                       *)
LEMMA OthersFollow ==
    ASSUME TypeOK, Follows(jobs, phrase, behind), UNCHANGED <<phrase, behind>>,
           \A w \in Works : jobs'[w].status = "queued" => jobs'[w] = jobs[w]
    PROVE  Follows(jobs, phrase, behind)'
BY DEF Follows

(* Waiting jobs follow every step.                                         *)
LEMMA FollowsStays ==
    ASSUME TypeOK, Follows(jobs, phrase, behind), [Next]_vars
    PROVE  Follows(jobs, phrase, behind)'
<1>1. CASE UserEdit
  BY <1>1, EditFollows
<1>2. CASE UserAsk
  <2>1. ASSUME NEW sel \in Selections, CancelSelected(sel)
        PROVE  Follows(jobs, phrase, behind)'
    BY <2>1, OthersFollow DEF CancelSelected, NoJob, history
  <2>2. ASSUME NEW w \in Works, CancelOne(w)
        PROVE  Follows(jobs, phrase, behind)'
    BY <2>2, OthersFollow DEF CancelOne, NoJob, TypeOK, history
  <2> QED
    BY <1>2, <2>1, <2>2, AskPolishFollows, AskResultFollows, RetryFollows DEF UserAsk
<1>3. CASE GenerationRun
  <2>1. ASSUME \/ \E k \in Kinds : BeginRun(k)
               \/ Plan \/ RunRefused
        PROVE  Follows(jobs, phrase, behind)'
    BY <2>1, OthersFollow DEF BeginRun, Plan, PlanSince, RunRefused, history
  <2> QED BY <1>3, <2>1, ReplaceFollows, QueueChunkFollows DEF GenerationRun
<1>4. CASE Worker
  <2>1. ASSUME NEW k \in Kinds, NEW ps \in SUBSET Phrases, ClaimRun(k, ps)
        PROVE  Follows(jobs, phrase, behind)'
    BY <2>1, OthersFollow DEF ClaimRun, TypeOK, Job, history
  <2>2. ASSUME ReadCards \/ Answer
        PROVE  Follows(jobs, phrase, behind)'
    BY <2>2, OthersFollow DEF ReadCards, Answer, AnswerOf, history
  <2>3. CASE Settle
    BY <2>3, OthersFollow DEF Settle, Settled, NoJob, TypeOK, Job, history
  <2>4. CASE Break
    BY <2>4, OthersFollow DEF Break, Settled, TypeOK, Job, history
  <2> QED BY <1>4, <2>1, <2>2, <2>3, <2>4, StoreFollows, RequeueFollows DEF Worker
<1>5. CASE Rebuild
  <2>1. ASSUME NEW s \in Sources, Hold(s)
        PROVE  Follows(jobs, phrase, behind)'
    BY <2>1, OthersFollow DEF Hold, history
  <2> QED BY <1>5, <2>1, RecutFollows DEF Rebuild
<1>6. CASE UNCHANGED vars
  BY <1>6, OthersFollow DEF vars, history
<1> QED BY <1>1, <1>2, <1>3, <1>4, <1>5, <1>6 DEF Next

(* A job in line works on the text its phrase shows, unless it was put     *)
(* there with a revision read before.                                      *)
THEOREM WaitingJobsFollowText == Spec => []WaitingJobsFollow
<1> DEFINE F == Follows(jobs, phrase, behind)
<1>1. Init => F
  BY DEF Init, Follows, NoJob
<1>2. TypeInv /\ F /\ [Next]_vars => F'
  BY FollowsStays DEF TypeInv
<1>3. TypeInv /\ F => WaitingJobsFollow
  BY FollowsIsProperty DEF TypeInv
<1> HIDE DEF F
<1> QED BY <1>1, <1>2, <1>3, TypeInvHolds, PTL DEF Spec

-----------------------------------------------------------------------------
(* A stop holds for what was asked for before it.                          *)

(* The run of generation counts stops from its beginning.                  *)
MarkIsBeginning == run.pc # "none" => run.mark = run.began

StopInv == StopsHold /\ MarkIsBeginning

(* A step that adds no work and notes no stop.                             *)
LEMMA NoMoreActive ==
    ASSUME StopsHold, UNCHANGED <<stops, since>>,
           \A w \in Works : jobs'[w].status \in {"queued", "running"} =>
                            jobs[w].status \in {"queued", "running"}
    PROVE  StopsHold'
<1>1. Active' \subseteq Active
  BY DEF Active, WithStatus
<1> QED BY <1>1 DEF StopsHold

(* A request for work counts stops from now on.                            *)
LEMMA AskedNowStops ==
    ASSUME TypeOK, StopsHold, UNCHANGED stops, NEW works, AskedNow(works),
           \A w \in Works : jobs'[w].status \in {"queued", "running"} =>
                            w \in Active \/ w \in works
    PROVE  StopsHold'
<1> SUFFICES ASSUME NEW w \in Active', NEW i \in (since'[w] + 1) .. Len(stops')
             PROVE  ~Matches(stops'[i], w[2], SourceOf[w[1]])
  BY DEF StopsHold
<1>1. w \in Works /\ (w \in Active \/ w \in works)
  BY DEF Active, WithStatus
<1>2. CASE w \in Active
  <2>1. since'[w] = since[w]
    BY <1>1, <1>2 DEF AskedNow
  <2> QED BY <1>2, <2>1 DEF StopsHold
<1>3. CASE w \notin Active
  <2>1. since'[w] = Len(stops) /\ Len(stops) \in Nat
    BY <1>1, <1>3 DEF AskedNow, TypeOK
  <2> QED BY <2>1
<1> QED BY <1>2, <1>3

(* A stop takes every job of its kind and source out of line.              *)
LEMMA CancelStops ==
    ASSUME TypeOK, StopsHold, NEW sel \in Selections, CancelSelected(sel)
    PROVE  StopsHold'
<1> SUFFICES ASSUME NEW w \in Active', NEW i \in (since'[w] + 1) .. Len(stops')
             PROVE  ~Matches(stops'[i], w[2], SourceOf[w[1]])
  BY DEF StopsHold
<1>1. /\ stops' = Append(stops, sel) /\ since' = since
      /\ jobs' = [v \in Works |-> IF v \in Selected(sel) \cap Active THEN NoJob ELSE jobs[v]]
  BY DEF CancelSelected, history
<1>2. w \in Works /\ jobs'[w].status \in {"queued", "running"}
  BY DEF Active, WithStatus
<1>3. w \in Active /\ w \notin Selected(sel)
  BY <1>1, <1>2 DEF Active, WithStatus, NoJob
<1>4. /\ Len(stops) \in Nat /\ Len(stops') = Len(stops) + 1 /\ stops'[Len(stops) + 1] = sel
      /\ \A j \in 1 .. Len(stops) : stops'[j] = stops[j]
  BY <1>1 DEF TypeOK
<1>5. since[w] \in Nat
  BY <1>2 DEF TypeOK
<1>6. CASE i = Len(stops) + 1
  BY <1>2, <1>3, <1>4, <1>6 DEF Selected
<1>7. CASE i # Len(stops) + 1
  <2>1. i \in (since[w] + 1) .. Len(stops) /\ i \in 1 .. Len(stops)
    BY <1>1, <1>4, <1>5, <1>7
  <2> QED BY <1>3, <1>4, <2>1 DEF StopsHold
<1> QED BY <1>6, <1>7

(* A chunk leaves out what was stopped since the run began.                *)
LEMMA QueueChunkStops ==
    ASSUME TypeOK, StopInv, NEW chunk \in SUBSET Phrases, QueueChunk(chunk)
    PROVE  StopsHold'
<1> DEFINE sources == {SourceOf[p] : p \in chunk} \ run.leftOut
           leftOut == run.leftOut \cup (sources \cap (Stopped \cup held))
           taken == {<<p, run.kind>> : p \in {q \in chunk : /\ SourceOf[q] \notin leftOut
                                                            /\ phrase[q].alive}}
<1>1. /\ jobs' = Enqueued(jobs, [w \in taken |-> run.plan[w[1]]])
      /\ since' = [w \in Works |-> IF w \in taken \ Active THEN run.began ELSE since[w]]
      /\ UNCHANGED stops /\ run.mark = run.began
  BY DEF QueueChunk, StopInv, MarkIsBeginning
<1>2. \A w \in taken : w[2] = run.kind /\ SourceOf[w[1]] \in Sources \ Stopped
  BY PhraseWorkAssumption
<1> HIDE DEF taken
<1> SUFFICES ASSUME NEW w \in Active', NEW i \in (since'[w] + 1) .. Len(stops')
             PROVE  ~Matches(stops'[i], w[2], SourceOf[w[1]])
  BY DEF StopsHold
<1>3. w \in Works /\ jobs'[w].status \in {"queued", "running"}
  BY DEF Active, WithStatus
<1>4. CASE w \in Active
  BY <1>1, <1>3, <1>4 DEF StopsHold, StopInv
<1>5. CASE w \notin Active
  <2>1. w \in taken
    BY <1>1, <1>3, <1>5 DEF Enqueued, Active, WithStatus
  <2>2. since'[w] = run.mark
    BY <1>1, <1>3, <1>5, <2>1
  <2> QED BY <1>1, <1>2, <2>1, <2>2 DEF Stopped
<1> QED BY <1>4, <1>5

(* Every step keeps the mark of a run.                                     *)
LEMMA MarkIsBeginningStays ==
    ASSUME TypeOK, MarkIsBeginning, [Next]_vars
    PROVE  MarkIsBeginning'
<1> USE DEF MarkIsBeginning
<1>1. CASE UNCHANGED run
  BY <1>1
<1>2. CASE run' = NoRun
  BY <1>2 DEF NoRun
<1>3. ASSUME NEW k \in Kinds, BeginRun(k)
      PROVE  MarkIsBeginning'
  BY <1>3 DEF BeginRun, NoRun
<1>4. CASE Plan
  BY <1>4 DEF Plan, PlanSince, NoRun, TypeOK, IsGenerationRun
<1>5. ASSUME NEW chunk \in SUBSET Phrases, QueueChunk(chunk)
      PROVE  MarkIsBeginning'
  <2>1. run.pc = "queueing"
    BY <1>5 DEF QueueChunk
  <2>2. run' = NoRun \/ \E leftOut, plan :
          run' = [run EXCEPT !.leftOut = leftOut, !.plan = plan]
    BY <1>5 DEF QueueChunk
  <2> QED BY <1>2, <2>1, <2>2 DEF TypeOK, IsGenerationRun
<1>6. UserEdit \/ UserAsk \/ Rebuild \/ Worker \/ UNCHANGED vars => UNCHANGED run
  BY DEF UserEdit, UserAsk, Worker, Rebuild, SetBoundary, EditText, SwitchPolish,
         AskPolish, AskResult, CancelSelected, CancelOne, RetrySelected, ClaimRun,
         ReadCards, Answer, AnswerOf, Store, Settle, Break, Requeue, Hold, Recut, vars
<1>7. ASSUME NEW chosen, RunRefused \/ Replace(chosen)
      PROVE  run' = NoRun
  BY <1>7 DEF RunRefused, Replace
<1> QED BY <1>1, <1>2, <1>3, <1>4, <1>5, <1>6, <1>7 DEF Next, GenerationRun

(* Every step keeps the stops.                                             *)
LEMMA StopsStay ==
    ASSUME TypeOK, StopInv, [Next]_vars
    PROVE  StopsHold'
<1> USE DEF StopInv
<1>1. CASE UserEdit
  <2>1. PICK p, next, results : Editing(p, next, results)
    BY <1>1, UserEditEdits
  <2>2. \A w \in Works : jobs'[w].status = jobs[w].status
    BY <2>1, FollowedFollows DEF Editing, TypeOK
  <2>3. UNCHANGED <<stops, since>>
    BY <2>1 DEF Editing
  <2> QED BY <2>2, <2>3, NoMoreActive
<1>2. CASE UserAsk
  <2>1. ASSUME NEW p \in Phrases, AskPolish(p)
        PROVE  StopsHold'
    <3> DEFINE next == WriteText(phrase[p], phrase[p].source, NoText, FALSE)
    <3>1. /\ jobs' = Enqueued(Followed(jobs, [q \in {p} |-> next]),
                              [w \in {<<p, Polish>>} |-> next.revision])
          /\ AskedNow({<<p, Polish>>}) /\ UNCHANGED stops
      BY <2>1 DEF AskPolish
    <3>2. next \in Phrase
      <4>1. phrase[p] \in Phrase /\ phrase[p].source \in Texts
        BY DEF TypeOK, Phrase
      <4> QED BY <4>1, WriteTextWrites
    <3> HIDE DEF next
    <3>3. \A w \in Works : w = <<p, Polish>> \/ jobs'[w].status = jobs[w].status
      <4>1. \A w \in Works : Followed(jobs, [q \in {p} |-> next])[w].status = jobs[w].status
        BY <3>2, FollowedStatus
      <4> QED BY <3>1, <4>1 DEF Enqueued
    <3> QED BY <3>1, <3>3, AskedNowStops DEF Active, WithStatus
  <2>2. ASSUME NEW p \in Phrases, NEW k \in Kinds, AskResult(p, k)
        PROVE  StopsHold'
    <3>1. /\ \A w \in Works : w = <<p, k>> \/ jobs'[w] = jobs[w]
          /\ AskedNow({<<p, k>>}) /\ UNCHANGED stops
      BY <2>2 DEF AskResult, Enqueued
    <3> QED BY <3>1, AskedNowStops DEF Active, WithStatus
  <2>3. ASSUME NEW sel \in Selections, RetrySelected(sel)
        PROVE  StopsHold'
    <3> DEFINE again == Selected(sel) \cap WithStatus("failed")
    <3>1. /\ \A w \in Works : w \in again \/ jobs'[w] = jobs[w]
          /\ AskedNow(again) /\ UNCHANGED stops
      BY <2>3 DEF RetrySelected
    <3> HIDE DEF again
    <3> QED BY <3>1, AskedNowStops DEF Active, WithStatus
  <2>4. ASSUME NEW w \in Works, CancelOne(w)
        PROVE  StopsHold'
    BY <2>4, NoMoreActive DEF CancelOne, NoJob, TypeOK, history
  <2> QED BY <1>2, <2>1, <2>2, <2>3, <2>4, CancelStops DEF UserAsk
<1>3. CASE GenerationRun
  <2>1. ASSUME NEW chosen \in SUBSET Phrases, Replace(chosen)
        PROVE  StopsHold'
    <3>1. PICK to : Replacing(chosen, to)
      BY <2>1, ReplaceReplaces
    <3> DEFINE works == chosen \X {run.kind}
    <3>2. /\ jobs' = Enqueued(Followed(jobs, to),
                              [w \in works |-> Written(to)[w[1]].revision])
          /\ \A p \in DOMAIN to : to[p] \in Phrase
          /\ AskedNow(works) /\ UNCHANGED stops
      BY <3>1 DEF Replacing
    <3> HIDE DEF works
    <3>3. \A w \in Works : w \in works \/ jobs'[w].status = jobs[w].status
      <4>1. \A w \in Works : Followed(jobs, to)[w].status = jobs[w].status
        BY <3>2, FollowedStatus
      <4> QED BY <3>2, <4>1 DEF Enqueued
    <3> QED BY <3>2, <3>3, AskedNowStops DEF Active, WithStatus
  <2>2. ASSUME \/ \E k \in Kinds : BeginRun(k)
               \/ Plan \/ RunRefused
        PROVE  StopsHold'
    BY <2>2, NoMoreActive DEF BeginRun, Plan, PlanSince, RunRefused, history
  <2> QED BY <1>3, <2>1, <2>2, QueueChunkStops DEF GenerationRun
<1>4. CASE Worker
  <2>1. UNCHANGED <<stops, since>>
    BY <1>4 DEF Worker, ClaimRun, ReadCards, Answer, AnswerOf, Store, Settle, Break, Requeue,
                history
  <2>2. ASSUME NEW w \in Works, jobs'[w].status \in {"queued", "running"}
        PROVE  jobs[w].status \in {"queued", "running"}
    <3>1. w = <<w[1], w[2]>>
      BY DEF Works
    <3>2. ASSUME NEW k \in Kinds, NEW ps \in SUBSET Phrases, ClaimRun(k, ps)
          PROVE  jobs[w].status \in {"queued", "running"}
      BY <2>2, <3>1, <3>2 DEF ClaimRun
    <3>3. CASE ReadCards \/ Answer
      BY <2>2, <3>3 DEF ReadCards, Answer, AnswerOf
    <3>4. CASE Store
      <4>1. CASE StillClaimed = {}
        BY <2>2, <3>4, <4>1 DEF Store
      <4>2. CASE StillClaimed # {}
        <5>1. /\ jobs' = Followed(jobs, PolishedTo)
              /\ \A p \in DOMAIN PolishedTo : PolishedTo[p] \in Phrase
          BY <3>4, <4>2, StoreStores DEF PolishedTo
        <5> QED BY <2>2, <5>1, FollowedStatus
      <4> QED BY <4>1, <4>2
    <3>5. CASE Settle
      BY <2>2, <3>1, <3>5 DEF Settle, Settled, StillClaimed, NoJob
    <3>6. CASE Break \/ Requeue
      <4>1. PICK status : jobs' = Settled(status, DOMAIN worker.refs)
        BY <3>6 DEF Break, Requeue
      <4>2. CASE w[2] = worker.kind /\ w[1] \in StillClaimed
        BY <3>1, <4>2 DEF StillClaimed
      <4>3. CASE ~(w[2] = worker.kind /\ w[1] \in StillClaimed)
        BY <2>2, <4>1, <4>3 DEF Settled
      <4> QED BY <4>2, <4>3
    <3> QED BY <1>4, <3>2, <3>3, <3>4, <3>5, <3>6 DEF Worker
  <2> QED BY <2>1, <2>2, NoMoreActive
<1>5. CASE Rebuild
  <2>1. ASSUME NEW s \in Sources, Hold(s)
        PROVE  StopsHold'
    BY <2>1, NoMoreActive DEF Hold, history
  <2>2. ASSUME NEW s \in Sources, NEW cut \in Recuts(s), Recut(s, cut)
        PROVE  StopsHold'
    <3>1. PICK gone, rewritten, to : Recutting(s, gone, rewritten, to)
      BY <2>2, RecutCuts
    <3>2. \A w \in Works : jobs'[w] = NoJob \/ jobs'[w].status = jobs[w].status
      <4>1. \A w \in Works : Followed(jobs, to)[w].status = jobs[w].status
        BY <3>1, FollowedStatus DEF Recutting
      <4> QED BY <3>1, <4>1 DEF Recutting
    <3>3. \A w \in Works : jobs'[w].status \in {"queued", "running"} =>
                           jobs[w].status \in {"queued", "running"}
      BY <3>2 DEF NoJob
    <3>4. UNCHANGED <<stops, since>>
      BY <2>2 DEF Recut
    <3> QED BY <3>3, <3>4, NoMoreActive
  <2> QED BY <1>5, <2>1, <2>2 DEF Rebuild
<1>6. CASE UNCHANGED vars
  BY <1>6, NoMoreActive DEF vars, history
<1> QED BY <1>1, <1>2, <1>3, <1>4, <1>5, <1>6 DEF Next

(* No job in line or running was asked for before a stop of its kind and   *)
(* source, not even one that a run queued after the stop.                  *)
THEOREM StopsAreKept == Spec => []StopsHold
<1>1. Init => StopInv
  <2>1. Init => Active = {}
    BY DEF Init, Active, WithStatus, NoJob
  <2>2. Init => StopsHold
    BY <2>1 DEF StopsHold
  <2>3. Init => MarkIsBeginning
    BY DEF Init, MarkIsBeginning, NoRun
  <2> QED BY <2>2, <2>3 DEF StopInv
<1>2. TypeInv /\ StopInv /\ [Next]_vars => StopInv'
  BY StopsStay, MarkIsBeginningStays DEF TypeInv, StopInv
<1>3. StopInv => StopsHold
  BY DEF StopInv
<1> QED BY <1>1, <1>2, <1>3, TypeInvHolds, PTL DEF Spec

-----------------------------------------------------------------------------
(* Results fit the texts they stand beside.                                *)

(* A card was read of the phrase: as long as the phrase keeps the card's   *)
(* revision it shows the card's text; and one read for a polish has none.  *)
IsCardOf(card, ph) ==
    /\ card.revision <= ph.revision
    /\ ph.alive /\ ph.revision = card.revision =>
          /\ Shown(ph) = Shown(card)
          /\ worker.kind = Polish =>
                card.polish = NoText /\ ph.polish = NoText /\ ph.source = card.source

CardsFit ==
    worker.pc \in {"asking", "answered"} =>
        \A p \in DOMAIN worker.cards : IsCardOf(worker.cards[p], phrase[p])

(* The answers of a run that explains or speaks are of its cards' texts.   *)
AnswersFit ==
    worker.pc = "answered" /\ worker.kind # Polish =>
        \A p \in DOMAIN worker.answers : worker.answers[p] = Shown(worker.cards[p])

(* What no step but a store does to a phrase: to show another text by the  *)
(* same revision, to polish it, or to bring it back.                       *)
KeepsCards(ph, next) ==
    /\ next.alive => ph.alive
    /\ ph.revision <= next.revision
    /\ next.alive /\ next.revision = ph.revision =>
          /\ Shown(next) = Shown(ph)
          /\ ph.polish = NoText => next.polish = NoText /\ next.source = ph.source

(* What keeps cards keeps a card of the phrase one.                        *)
LEMMA KeepsCardsFits ==
    ASSUME NEW card \in Phrase, NEW ph \in Phrase, NEW next \in Phrase,
           IsCardOf(card, ph), KeepsCards(ph, next), UNCHANGED worker
    PROVE  /\ card.revision <= next.revision
           /\ next.alive /\ next.revision = card.revision =>
                 /\ Shown(next) = Shown(card)
                 /\ worker'.kind = Polish =>
                       card.polish = NoText /\ next.polish = NoText
                         /\ next.source = card.source
<1>1. card.revision \in Nat /\ ph.revision \in Nat /\ next.revision \in Nat
  BY DEF Phrase
<1> QED BY <1>1 DEF IsCardOf, KeepsCards

(* A phrase rewritten from its source text keeps its cards.                *)
LEMMA RewrittenKeepsCards ==
    ASSUME NEW ph \in Phrase, NEW next, IsRewritten(next, ph, ph.source, NoText, FALSE)
    PROVE  KeepsCards(ph, next)
BY DEF IsRewritten, KeepsCards, Shown, Phrase

(* So do all phrases when some are.                                        *)
LEMMA WrittenKeepsCards ==
    ASSUME TypeOK, NEW to, phrase' = Written(to),
           \A p \in DOMAIN to : IsRewritten(to[p], phrase[p], phrase[p].source, NoText, FALSE)
    PROVE  \A p \in Phrases : KeepsCards(phrase[p], phrase'[p])
<1> TAKE p \in Phrases
<1>1. phrase[p] \in Phrase /\ phrase'[p] = IF p \in DOMAIN to THEN to[p] ELSE phrase[p]
  BY DEF TypeOK, Written
<1>2. CASE p \in DOMAIN to
  BY <1>1, <1>2, RewrittenKeepsCards
<1>3. CASE p \notin DOMAIN to
  BY <1>1, <1>3 DEF KeepsCards, Phrase
<1> QED BY <1>2, <1>3

(* No step but a store breaks a card.                                      *)
LEMMA StepKeepsCards ==
    ASSUME TypeOK, [Next]_vars, ~Store, NEW p \in Phrases
    PROVE  KeepsCards(phrase[p], phrase'[p])
<1>1. phrase[p] \in Phrase
  BY DEF TypeOK
<1>2. CASE UNCHANGED phrase
  BY <1>1, <1>2 DEF KeepsCards, Phrase
<1>3. CASE UserEdit
  <2>1. PICK q, next, results : Editing(q, next, results)
    BY <1>3, UserEditEdits
  <2>2. phrase'[p] = IF p = q THEN next ELSE phrase[p]
    BY <2>1, EditTypes DEF Editing
  <2>3. CASE p = q
    <3>1. KeepsCards(phrase[p], next)
      BY <1>1, <2>1, <2>3 DEF Editing, KeepsCards, Phrase
    <3> QED BY <2>2, <2>3, <3>1
  <2>4. CASE p # q
    BY <1>1, <2>2, <2>4 DEF KeepsCards, Phrase
  <2> QED BY <2>3, <2>4
<1>4. ASSUME NEW q \in Phrases, AskPolish(q)
      PROVE  KeepsCards(phrase[p], phrase'[p])
  <2> DEFINE next == WriteText(phrase[q], phrase[q].source, NoText, FALSE)
             to == [r \in {q} |-> next]
  <2>1. IsRewritten(next, phrase[q], phrase[q].source, NoText, FALSE)
    <3>1. phrase[q] \in Phrase /\ phrase[q].source \in Texts
      BY DEF TypeOK, Phrase
    <3> QED BY <3>1, WriteTextWrites
  <2>2. phrase' = Written(to)
    BY <1>4 DEF AskPolish
  <2> HIDE DEF next
  <2>3. \A r \in DOMAIN to : IsRewritten(to[r], phrase[r], phrase[r].source, NoText, FALSE)
    BY <2>1
  <2> HIDE DEF to
  <2> QED BY <2>2, <2>3, WrittenKeepsCards
<1>5. ASSUME NEW chosen \in SUBSET Phrases, Replace(chosen)
      PROVE  KeepsCards(phrase[p], phrase'[p])
  <2>1. PICK to : Replacing(chosen, to)
    BY <1>5, ReplaceReplaces
  <2> QED BY <2>1, WrittenKeepsCards DEF Replacing
<1>6. ASSUME NEW s \in Sources, NEW cut \in Recuts(s), Recut(s, cut)
      PROVE  KeepsCards(phrase[p], phrase'[p])
  <2>1. PICK gone, rewritten, to : Recutting(s, gone, rewritten, to)
    BY <1>6, RecutCuts
  <2>2. CASE p \in gone
    <3>1. phrase'[p] = [phrase[p] EXCEPT !.alive = FALSE]
      BY <2>1, <2>2 DEF Recutting
    <3> QED BY <1>1, <3>1 DEF KeepsCards, Phrase
  <2>3. CASE p \in rewritten
    <3>1. phrase'[p].revision = phrase[p].revision + 1 /\ phrase[p].alive
      BY <2>1, <2>3 DEF Recutting
    <3> QED BY <1>1, <3>1 DEF KeepsCards, Phrase
  <2>4. CASE p \notin gone \cup rewritten
    <3>1. phrase'[p] = phrase[p]
      BY <2>1, <2>4 DEF Recutting
    <3> QED BY <1>1, <3>1 DEF KeepsCards, Phrase
  <2> QED BY <2>2, <2>3, <2>4
<1>7. ASSUME Next, ~Store, ~UserEdit,
             ~\E q \in Phrases : AskPolish(q),
             ~\E chosen \in SUBSET Phrases : Replace(chosen),
             ~\E s \in Sources : \E cut \in Recuts(s) : Recut(s, cut)
      PROVE  UNCHANGED phrase
  BY <1>7 DEF Next, UserAsk, GenerationRun, Worker, Rebuild, AskResult, CancelSelected,
              CancelOne, RetrySelected, BeginRun, Plan, PlanSince, RunRefused, QueueChunk,
              ClaimRun, ReadCards, Answer, AnswerOf, Settle, Break, Requeue, Hold
<1>8. UNCHANGED vars => UNCHANGED phrase
  BY DEF vars
<1> QED BY <1>2, <1>3, <1>4, <1>5, <1>6, <1>7, <1>8

(* What each step of the worker is at, and what the others leave it at.    *)
LEMMA WorkerSteps ==
    ASSUME [Next]_vars, TypeOK
    PROVE  \/ UNCHANGED worker /\ ~Store
           \/ worker'.pc \in {"idle", "claimed", "stored"}
           \/ ReadCards /\ worker'.pc = "asking"
           \/ Answer /\ worker'.pc = "answered"
<1>1. CASE ReadCards
  <2>1. worker'.pc \in {"asking", "stored"}
    BY <1>1 DEF ReadCards, TypeOK, IsWorker
  <2> QED BY <1>1, <2>1
<1>2. CASE Answer
  <2>1. worker'.pc = "answered"
    BY <1>2 DEF Answer, AnswerOf, TypeOK, IsWorker
  <2> QED BY <1>2, <2>1
<1>3. CASE Store
  <2>1. CASE StillClaimed = {}
    BY <1>3, <2>1 DEF Store, NoWork
  <2>2. CASE StillClaimed # {}
    <3>1. worker'.pc = "stored"
      BY <1>3, <2>2, StoreStores DEF TypeOK, IsWorker
    <3> QED BY <3>1
  <2> QED BY <2>1, <2>2
<1>4. ASSUME NEW k \in Kinds, NEW ps \in SUBSET Phrases, ClaimRun(k, ps)
      PROVE  worker'.pc = "claimed"
  BY <1>4 DEF ClaimRun, NoWork
<1>5. Settle \/ Break \/ Requeue => worker'.pc = "idle"
  BY DEF Settle, Break, Requeue, NoWork
<1>6. UserEdit \/ UserAsk \/ GenerationRun \/ Rebuild \/ UNCHANGED vars => UNCHANGED worker
  BY DEF UserEdit, UserAsk, GenerationRun, Rebuild, SetBoundary, EditText, SwitchPolish,
         AskPolish, AskResult, CancelSelected, CancelOne, RetrySelected, BeginRun, Plan,
         PlanSince, RunRefused, Replace, QueueChunk, Hold, Recut, vars
<1> QED BY <1>1, <1>2, <1>3, <1>4, <1>5, <1>6 DEF Next, Worker

(* Cards fit after every step.                                             *)
LEMMA CardsFitStays ==
    ASSUME TypeOK, TypeOK', CardsFit, [Next]_vars
    PROVE  CardsFit'
<1>1. CASE UNCHANGED worker /\ ~Store
  <2> SUFFICES ASSUME worker.pc \in {"asking", "answered"}, NEW p \in DOMAIN worker.cards
               PROVE  IsCardOf(worker.cards[p], phrase[p])'
    BY <1>1 DEF CardsFit
  <2>1. /\ p \in Phrases /\ worker.cards[p] \in Phrase
        /\ phrase[p] \in Phrase /\ phrase'[p] \in Phrase
    BY DEF TypeOK, IsWorker, OfPhrases
  <2>2. KeepsCards(phrase[p], phrase'[p])
    BY <1>1, <2>1, StepKeepsCards
  <2>3. IsCardOf(worker.cards[p], phrase[p])
    BY DEF CardsFit
  <2> QED BY <1>1, <2>1, <2>2, <2>3, KeepsCardsFits DEF IsCardOf
<1>2. CASE worker'.pc \in {"idle", "claimed", "stored"}
  BY <1>2 DEF CardsFit
<1>3. CASE ReadCards /\ worker'.pc = "asking"
  <2>1. /\ UNCHANGED phrase /\ worker'.kind = worker.kind
        /\ DOMAIN worker'.cards \subseteq Phrases
        /\ \A p \in DOMAIN worker'.cards :
              /\ worker'.cards[p] = phrase[p]
              /\ worker.kind = Speech \/ ~IsDone(p, worker.kind)
    BY <1>3 DEF ReadCards, TypeOK, IsWorker, OfPhrases
  <2> SUFFICES ASSUME NEW p \in DOMAIN worker'.cards
               PROVE  IsCardOf(worker.cards[p], phrase[p])'
    BY DEF CardsFit
  <2>2. worker'.cards[p] = phrase[p] /\ phrase[p].revision \in Nat
    BY <2>1 DEF TypeOK, Phrase
  <2>3. worker.kind = Polish => phrase[p].polish = NoText
    BY <2>1, PhraseWorkAssumption DEF IsDone
  <2> QED BY <2>1, <2>2, <2>3 DEF IsCardOf
<1>4. CASE Answer /\ worker'.pc = "answered"
  <2>1. /\ UNCHANGED phrase /\ worker.pc = "asking" /\ worker'.kind = worker.kind
        /\ worker'.cards = [p \in Wanted |-> worker.cards[p]]
    BY <1>4 DEF Answer, AnswerOf, TypeOK, IsWorker
  <2>2. Wanted \subseteq DOMAIN worker.cards
    BY DEF Wanted
  <2> QED BY <2>1, <2>2 DEF CardsFit, IsCardOf
<1> QED BY <1>1, <1>2, <1>3, <1>4, WorkerSteps

(* Answers fit after every step.                                           *)
LEMMA AnswersFitStays ==
    ASSUME TypeOK, AnswersFit, [Next]_vars
    PROVE  AnswersFit'
<1>1. CASE UNCHANGED worker
  BY <1>1 DEF AnswersFit
<1>2. CASE worker'.pc # "answered"
  BY <1>2 DEF AnswersFit
<1>3. CASE Answer
  <2>1. PICK answers :
           /\ DOMAIN answers \subseteq Wanted
           /\ worker.kind # Polish =>
                \A p \in DOMAIN answers : answers[p] = Shown(worker.cards[p])
           /\ worker' = [worker EXCEPT !.pc = "answered", !.answers = answers,
                                       !.cards = [p \in Wanted |-> worker.cards[p]]]
    BY <1>3, AnswerAnswers
  <2>2. /\ worker'.kind = worker.kind /\ worker'.answers = answers
        /\ worker'.cards = [p \in Wanted |-> worker.cards[p]]
    BY <2>1 DEF TypeOK, IsWorker
  <2>3. \A p \in DOMAIN answers : worker'.cards[p] = worker.cards[p]
    BY <2>1, <2>2
  <2> QED BY <2>1, <2>2, <2>3 DEF AnswersFit
<1> QED BY <1>1, <1>2, <1>3, WorkerSteps

WorkInv == TypeInv /\ CardsFit /\ AnswersFit

(* Types, cards and answers: the invariant the results rest on.            *)
LEMMA WorkInvHolds == Spec => []WorkInv
<1>1. Init => WorkInv
  <2>1. Init => TypeInv
    <3>1. Init => NoAnswerYet
      BY NothingType DEF Init, NoAnswerYet, NoWork
    <3> QED BY <3>1, InitTypes DEF TypeInv
  <2>2. Init => CardsFit /\ AnswersFit
    BY DEF Init, NoWork, CardsFit, AnswersFit
  <2> QED BY <2>1, <2>2 DEF WorkInv
<1>2. WorkInv /\ [Next]_vars => WorkInv'
  BY StepTypes, CardsFitStays, AnswersFitStays DEF WorkInv, TypeInv
<1> QED BY <1>1, <1>2, PTL DEF Spec

(* What a store finds of a phrase it writes a result of.                   *)
LEMMA DoneFits ==
    ASSUME WorkInv, Store, NEW p \in Done
    PROVE  /\ p \in Phrases /\ worker.cards[p] \in Phrase /\ worker.answers[p] \in Texts
           /\ phrase[p].alive /\ Shown(phrase[p]) = Shown(worker.cards[p])
           /\ worker.kind = Polish =>
                /\ phrase[p].polish = NoText
                /\ phrase[p].source = worker.cards[p].source
           /\ worker.kind # Polish => worker.answers[p] = Shown(phrase[p])
<1>1. /\ p \in DOMAIN worker.cards /\ p \in DOMAIN worker.answers
      /\ phrase[p].alive /\ phrase[p].revision = worker.cards[p].revision
  BY DEF Done, Current, Holds
<1>2. p \in Phrases /\ worker.cards[p] \in Phrase /\ worker.answers[p] \in Texts
  BY <1>1 DEF WorkInv, TypeInv, TypeOK, IsWorker, OfPhrases
<1>3. worker.pc = "answered"
  BY DEF Store
<1>4. IsCardOf(worker.cards[p], phrase[p])
  BY <1>1, <1>3 DEF WorkInv, CardsFit
<1>5. worker.kind # Polish => worker.answers[p] = Shown(worker.cards[p])
  BY <1>1, <1>3 DEF WorkInv, AnswersFit
<1> QED BY <1>1, <1>2, <1>4, <1>5 DEF IsCardOf

(* The worker rewrites a phrase only where no polish is, and leaves the     *)
(* source text: what the user typed or kept meanwhile stays.               *)
THEOREM JobsKeepUsersTexts == Spec => JobsKeepTexts
<1> DEFINE Keeps == \A p \in Phrases : phrase'[p] # phrase[p] =>
                      /\ phrase[p].polish = NoText
                      /\ phrase'[p].source = phrase[p].source
<1>1. ASSUME WorkInv, [Next]_vars, worker' # worker
      PROVE  Keeps
  <2>1. CASE Store
    <3>1. CASE StillClaimed = {}
      BY <2>1, <3>1 DEF Store
    <3>2. CASE StillClaimed # {}
      <4>1. TypeOK
        BY <1>1 DEF WorkInv, TypeInv
      <4> SUFFICES ASSUME NEW p \in Phrases, phrase'[p] # phrase[p]
                   PROVE  /\ phrase[p].polish = NoText
                          /\ phrase'[p].source = phrase[p].source
        OBVIOUS
      <4>2. p \in Polished /\ phrase'[p] = PolishedTo[p]
        BY <2>1, <3>2, <4>1, StoreStores DEF Written, PolishedTo
      <4>3. p \in Done /\ worker.kind = Polish
        BY <4>2 DEF Polished
      <4>4. /\ phrase[p].polish = NoText /\ phrase[p].source = worker.cards[p].source
            /\ worker.cards[p].source \in Texts /\ worker.answers[p] \in Texts
        BY <1>1, <2>1, <4>3, DoneFits DEF Phrase
      <4>5. IsRewritten(PolishedTo[p], phrase[p], worker.cards[p].source,
                        worker.answers[p], FALSE)
        BY <4>1, <4>2, <4>4, WriteTextWrites DEF PolishedTo, TypeOK
      <4> QED BY <4>2, <4>4, <4>5 DEF IsRewritten
    <3> QED BY <3>1, <3>2
  <2>2. CASE ~Store
    <3>1. UNCHANGED phrase
      BY <1>1, <2>2 DEF Next, UserEdit, UserAsk, GenerationRun, Worker, Rebuild, SetBoundary,
         EditText, SwitchPolish, AskPolish, AskResult, CancelSelected, CancelOne,
         RetrySelected, BeginRun, Plan, PlanSince, RunRefused, Replace, QueueChunk, ClaimRun,
         ReadCards, Answer, AnswerOf, Settle, Break, Requeue, Hold, Recut, vars
    <3> QED BY <3>1
  <2> QED BY <2>1, <2>2
<1>2. WorkInv /\ [Next]_vars => [worker' # worker => Keeps]_vars
  BY <1>1
<1> HIDE DEF Keeps
<1>3. Spec => [][worker' # worker => Keeps]_vars
  BY <1>2, WorkInvHolds, PTL DEF Spec
<1> QED BY <1>3 DEF JobsKeepTexts, Keeps

(* The property for one phrase.                                            *)
PolishFits(ph, results) ==
    ph.alive /\ Polish \in Kinds /\ ph.polish # NoText => results[Polish] = ph.source

OthersFit(p, ph, results, except) ==
    ph.alive => \A k \in Misfits(ph, results) : <<p, k>> \in except

Fits(p, ph, results, except) == PolishFits(ph, results) /\ OthersFit(p, ph, results, except)

(* For all phrases it is the property.                                     *)
LEMMA FitsIsProperty ==
    ResultsFit <=> \A p \in Phrases : Fits(p, phrase[p], made[p], kept)
BY DEF ResultsFit, Fits, PolishFits, OthersFit

(* What an edit keeps of another text is an exception.                     *)
LEMMA KeptByFits ==
    ASSUME NEW ps, NEW next, NEW results, NEW p \in Phrases
    PROVE  /\ p \in ps => OthersFit(p, next[p], results[p], KeptBy(ps, next, results))
           /\ \A k : p \notin ps /\ <<p, k>> \in kept => <<p, k>> \in KeptBy(ps, next, results)
BY DEF OthersFit, KeptBy, Misfits, Works

(* A phrase that a step leaves as it is.                                   *)
LEMMA FitsStays ==
    ASSUME NEW p \in Phrases, Fits(p, phrase[p], made[p], kept),
           phrase'[p] = phrase[p], made'[p] = made[p],
           \A k : <<p, k>> \in kept => <<p, k>> \in kept'
    PROVE  Fits(p, phrase'[p], made'[p], kept')
BY DEF Fits, PolishFits, OthersFit

(* Results fit after an edit of the user.                                  *)
LEMMA EditFits ==
    ASSUME TypeOK, ResultsFit, UserEdit
    PROVE  ResultsFit'
<1>1. PICK p, next, results : Editing(p, next, results)
  BY UserEditEdits
<1>2. /\ p \in Phrases
      /\ \A q \in Phrases : phrase'[q] = IF q = p THEN next ELSE phrase[q]
      /\ \A q \in Phrases : made'[q] = IF q = p THEN results ELSE made[q]
      /\ kept' = KeptBy({p}, phrase', made')
  <2>1. /\ p \in Phrases /\ next \in Phrase /\ results \in [Kinds -> Texts \cup {NoText}]
        /\ Edit(p, next, results)
    BY <1>1 DEF Editing
  <2>2. kept' = KeptBy({p}, phrase', made')
    BY <2>1 DEF Edit
  <2> QED BY <2>1, <2>2, EditTypes
<1>3. Fits(p, next, results, kept')
  <2>1. PolishFits(phrase[p], made[p])
    BY <1>2, FitsIsProperty DEF Fits
  <2>2. PolishFits(next, results)
    BY <1>1, <2>1 DEF PolishFits, Editing
  <2>3. OthersFit(p, phrase'[p], made'[p], kept')
    BY <1>2, KeptByFits
  <2> QED BY <1>2, <2>2, <2>3 DEF Fits
<1>4. ASSUME NEW q \in Phrases, q # p
      PROVE  Fits(q, phrase'[q], made'[q], kept')
  <2>1. phrase'[q] = phrase[q] /\ made'[q] = made[q] /\ Fits(q, phrase[q], made[q], kept)
    BY <1>2, <1>4, FitsIsProperty
  <2>2. \A k : <<q, k>> \in kept => <<q, k>> \in kept'
    BY <1>2, <1>4, KeptByFits
  <2> QED BY <2>1, <2>2, FitsStays
<1>5. \A q \in Phrases : Fits(q, phrase'[q], made'[q], kept')
  BY <1>2, <1>3, <1>4
<1> QED BY <1>5 DEF ResultsFit, Fits, PolishFits, OthersFit

(* Rewritten from its source text, a phrase has no polish to fit.          *)
LEMMA RewrittenFits ==
    ASSUME NEW ph, NEW next, NEW results, IsRewritten(next, ph, ph.source, NoText, FALSE)
    PROVE  PolishFits(next, results)
BY DEF IsRewritten, PolishFits

(* Phrases are rewritten from their source text, and results of one kind   *)
(* are discarded.                                                          *)
Discarding(to, kind, except) ==
    /\ phrase' = Written(to)
    /\ \A p \in DOMAIN to : IsRewritten(to[p], phrase[p], phrase[p].source, NoText, FALSE)
    /\ made' \in [Phrases -> [Kinds -> Texts \cup {NoText}]]
    /\ \A p \in Phrases, k \in Kinds :
          made'[p][k] = made[p][k] \/ (k = kind /\ made'[p][k] = NoText)
    /\ kind = Polish => \A p \in Phrases : p \in DOMAIN to \/ made'[p] = made[p]
    /\ kept' = KeptBy(DOMAIN to, phrase', made') \ except
    /\ \A w \in except : made'[w[1]][w[2]] = NoText

(* They fit after results are discarded.                                   *)
LEMMA DiscardingFits ==
    ASSUME TypeOK, ResultsFit, NEW to, NEW kind, NEW except, Discarding(to, kind, except)
    PROVE  ResultsFit'
<1> USE DEF Discarding
<1>1. ASSUME NEW p \in Phrases
      PROVE  Fits(p, phrase'[p], made'[p], kept')
  <2>1. Fits(p, phrase[p], made[p], kept)
    BY FitsIsProperty
  <2>2. \A k \in Misfits(phrase'[p], made'[p]) : <<p, k>> \notin except
    BY DEF Misfits
  <2>3. CASE p \in DOMAIN to
    <3>1. PolishFits(phrase'[p], made'[p])
      BY <2>3, RewrittenFits DEF Written
    <3>2. OthersFit(p, phrase'[p], made'[p], KeptBy(DOMAIN to, phrase', made'))
      BY <2>3, KeptByFits
    <3> QED BY <2>2, <3>1, <3>2 DEF Fits, OthersFit
  <2>4. CASE p \notin DOMAIN to
    <3>1. phrase'[p] = phrase[p]
      BY <2>4 DEF Written
    <3>2. Polish \in Kinds => made'[p][Polish] = made[p][Polish]
      BY <2>4
    <3>3. PolishFits(phrase'[p], made'[p])
      BY <2>1, <3>1, <3>2 DEF Fits, PolishFits
    <3>4. Misfits(phrase'[p], made'[p]) \subseteq Misfits(phrase[p], made[p])
      BY <3>1 DEF Misfits
    <3>5. \A k : <<p, k>> \in kept => <<p, k>> \in KeptBy(DOMAIN to, phrase', made')
      BY <2>4, KeptByFits
    <3> QED BY <2>1, <2>2, <3>1, <3>3, <3>4, <3>5 DEF Fits, OthersFit
  <2> QED BY <2>3, <2>4
<1> QED BY <1>1 DEF ResultsFit, Fits, PolishFits, OthersFit

(* A request for a polish discards the old one.                            *)
LEMMA AskPolishFits ==
    ASSUME TypeOK, TypeOK', ResultsFit, NEW p \in Phrases, AskPolish(p)
    PROVE  ResultsFit'
<1> DEFINE next == WriteText(phrase[p], phrase[p].source, NoText, FALSE)
           to == [q \in {p} |-> next]
<1>1. IsRewritten(next, phrase[p], phrase[p].source, NoText, FALSE)
  <2>1. phrase[p] \in Phrase /\ phrase[p].source \in Texts
    BY DEF TypeOK, Phrase
  <2> QED BY <2>1, WriteTextWrites
<1>2. /\ Polish \in Kinds /\ phrase' = Written(to)
      /\ made' = [made EXCEPT ![p][Polish] = NoText]
      /\ kept' = KeptBy({p}, Written(to), made)
  BY DEF AskPolish
<1> HIDE DEF next
<1>3. DOMAIN to = {p} /\ \A q \in DOMAIN to :
        IsRewritten(to[q], phrase[q], phrase[q].source, NoText, FALSE)
  BY <1>1
<1> HIDE DEF to
<1>4. /\ made' \in [Phrases -> [Kinds -> Texts \cup {NoText}]]
      /\ \A q \in Phrases, k \in Kinds :
            made'[q][k] = made[q][k] \/ (k = Polish /\ made'[q][k] = NoText)
      /\ \A q \in Phrases : q \in DOMAIN to \/ made'[q] = made[q]
  BY <1>2, <1>3 DEF TypeOK
<1>5. \A q \in Phrases : Misfits(phrase'[q], made'[q]) = Misfits(phrase'[q], made[q])
  BY <1>2 DEF Misfits, TypeOK
<1>6. kept' = KeptBy(DOMAIN to, phrase', made') \ {}
  BY <1>2, <1>3, <1>5 DEF KeptBy, Works
<1>7. Discarding(to, Polish, {})
  BY <1>2, <1>3, <1>4, <1>6 DEF Discarding
<1> QED BY <1>7, DiscardingFits

(* A request for a meaning discards the old one.                           *)
LEMMA AskResultFits ==
    ASSUME TypeOK, ResultsFit, NEW p \in Phrases, NEW k \in Kinds, AskResult(p, k)
    PROVE  ResultsFit'
<1>1. UNCHANGED phrase
  BY DEF AskResult
<1>2. CASE UNCHANGED <<made, kept>>
  BY <1>1, <1>2, FitsIsProperty, FitsStays DEF ResultsFit
<1>3. CASE ~UNCHANGED <<made, kept>>
  <2>1. /\ k = Meaning /\ made' = [made EXCEPT ![p][Meaning] = NoText]
        /\ kept' = kept \ {<<p, Meaning>>}
    BY <1>3 DEF AskResult
  <2>2. /\ \A q \in Phrases, j \in Kinds :
              made'[q][j] = IF q = p /\ j = Meaning THEN NoText ELSE made[q][j]
    BY <2>1 DEF TypeOK
  <2>3. \A q \in Phrases : \A j \in Misfits(phrase'[q], made'[q]) :
              j \in Misfits(phrase[q], made[q]) /\ <<q, j>> # <<p, Meaning>>
    BY <1>1, <2>2 DEF Misfits
  <2>4. ASSUME NEW q \in Phrases
        PROVE  Fits(q, phrase'[q], made'[q], kept')
    <3>1. Fits(q, phrase[q], made[q], kept) /\ phrase'[q] = phrase[q]
      BY <1>1, FitsIsProperty
    <3>2. PolishFits(phrase'[q], made'[q])
      BY <2>2, <3>1, PhraseWorkAssumption DEF Fits, PolishFits
    <3>3. OthersFit(q, phrase'[q], made'[q], kept')
      BY <2>1, <2>3, <3>1 DEF Fits, OthersFit
    <3> QED BY <3>2, <3>3 DEF Fits
  <2> QED BY <2>4 DEF ResultsFit, Fits, PolishFits, OthersFit
<1> QED BY <1>2, <1>3

(* A run that replaces discards what it replaces, but for speech.          *)
LEMMA ReplaceFits ==
    ASSUME TypeOK, TypeOK', ResultsFit, NEW chosen \in SUBSET Phrases, Replace(chosen)
    PROVE  ResultsFit'
<1>1. PICK to : Replacing(chosen, to)
  BY ReplaceReplaces
<1> DEFINE k == run.kind
           except == IF k = Meaning THEN chosen \X {k} ELSE {}
<1>2. /\ k \in Kinds /\ phrase' = Written(to)
      /\ DOMAIN to = IF k = Polish THEN chosen ELSE {}
      /\ \A p \in DOMAIN to : IsRewritten(to[p], phrase[p], phrase[p].source, NoText, FALSE)
      /\ made' = [p \in Phrases |-> IF p \in chosen /\ k # Speech
                                    THEN [made[p] EXCEPT ![k] = NoText] ELSE made[p]]
      /\ kept' = KeptBy(DOMAIN to, phrase', made') \ except
  BY <1>1 DEF Replacing
<1> HIDE DEF k
<1>3. \A p \in Phrases : made[p] \in [Kinds -> Texts \cup {NoText}]
  BY DEF TypeOK
<1>4. \A p \in Phrases, j \in Kinds :
         made'[p][j] = made[p][j] \/ (j = k /\ made'[p][j] = NoText)
  BY <1>2, <1>3
<1>5. k = Polish => \A p \in Phrases : p \in DOMAIN to \/ made'[p] = made[p]
  BY <1>2
<1>6. \A w \in except : made'[w[1]][w[2]] = NoText
  BY <1>2, <1>3, PhraseWorkAssumption
<1>7. made' \in [Phrases -> [Kinds -> Texts \cup {NoText}]]
  BY DEF TypeOK
<1> HIDE DEF except
<1>8. Discarding(to, k, except)
  BY <1>2, <1>4, <1>5, <1>6, <1>7 DEF Discarding
<1> QED BY <1>8, DiscardingFits

(* Results fit after a re-cut, which keeps meanings on purpose.            *)
LEMMA RecutFits ==
    ASSUME TypeOK, ResultsFit, NEW s \in Sources, NEW cut \in Recuts(s), Recut(s, cut)
    PROVE  ResultsFit'
<1>1. PICK gone, rewritten, to : Recutting(s, gone, rewritten, to)
  BY RecutCuts
<1>2. ASSUME NEW p \in Phrases
      PROVE  Fits(p, phrase'[p], made'[p], kept')
  <2>1. CASE p \in gone
    <3>1. phrase'[p] = [phrase[p] EXCEPT !.alive = FALSE] /\ phrase[p] \in Phrase
      BY <1>1, <2>1 DEF Recutting, TypeOK
    <3>2. ~phrase'[p].alive
      BY <3>1 DEF Phrase
    <3> QED BY <3>2 DEF Fits, PolishFits, OthersFit
  <2>2. CASE p \in rewritten
    <3>1. phrase'[p].polish = NoText /\ kept' = KeptBy(rewritten \cup gone, phrase', made')
      BY <1>1, <2>2 DEF Recutting
    <3>2. OthersFit(p, phrase'[p], made'[p], kept')
      BY <2>2, <3>1, KeptByFits
    <3> QED BY <3>1, <3>2 DEF Fits, PolishFits
  <2>3. CASE p \notin gone \cup rewritten
    <3>1. /\ phrase'[p] = phrase[p] /\ made'[p] = made[p]
          /\ kept' = KeptBy(rewritten \cup gone, phrase', made')
      BY <1>1, <2>3 DEF Recutting
    <3>2. \A k : <<p, k>> \in kept => <<p, k>> \in kept'
      BY <2>3, <3>1, KeptByFits
    <3> QED BY <3>1, <3>2, FitsIsProperty, FitsStays
  <2> QED BY <2>1, <2>2, <2>3
<1> QED BY <1>2 DEF ResultsFit, Fits, PolishFits, OthersFit

(* What a store makes of a phrase it writes a result of.                   *)
LEMMA DoneResult ==
    ASSUME WorkInv, ResultsFit, Store, StillClaimed # {}, NEW p \in Done
    PROVE  Fits(p, phrase'[p], made'[p], kept')
<1>1. /\ p \in Phrases /\ worker.cards[p] \in Phrase /\ worker.answers[p] \in Texts
      /\ phrase[p].alive /\ Shown(phrase[p]) = Shown(worker.cards[p])
      /\ worker.kind = Polish =>
           phrase[p].polish = NoText /\ phrase[p].source = worker.cards[p].source
      /\ worker.kind # Polish => worker.answers[p] = Shown(phrase[p])
  BY DoneFits
<1>2. /\ TypeOK /\ worker.kind \in Kinds /\ phrase[p] \in Phrase
      /\ made[p] \in [Kinds -> Texts \cup {NoText}]
  BY <1>1 DEF WorkInv, TypeInv, TypeOK, IsWorker, Store
<1>3. /\ phrase' = Written(PolishedTo)
      /\ made'[p] = Result(p, worker.kind, worker.answers[p])
      /\ kept' = {w \in kept : made'[w[1]][w[2]] = made[w[1]][w[2]]
                                 /\ ~(w[1] \in Done /\ w[2] = worker.kind)}
  BY <1>1, <1>2, StoreStores
<1>4. Fits(p, phrase[p], made[p], kept)
  BY <1>1, FitsIsProperty
<1>5. CASE worker.kind # Polish
  <2>1. phrase'[p] = phrase[p]
    BY <1>1, <1>3, <1>5 DEF Written, PolishedTo, Polished
  <2>2. \A k \in Kinds : made'[p][k] = IF k = worker.kind THEN Shown(phrase'[p]) ELSE made[p][k]
    BY <1>1, <1>2, <1>3, <1>5, <2>1 DEF Result
  <2>3. PolishFits(phrase'[p], made'[p])
    BY <1>4, <1>5, <2>1, <2>2 DEF Fits, PolishFits
  <2>4. \A k \in Misfits(phrase'[p], made'[p]) :
          k # worker.kind /\ k \in Misfits(phrase[p], made[p]) /\ made'[p][k] = made[p][k]
    BY <2>1, <2>2 DEF Misfits
  <2>5. OthersFit(p, phrase'[p], made'[p], kept')
    BY <1>3, <1>4, <2>1, <2>4 DEF Fits, OthersFit
  <2> QED BY <2>3, <2>5 DEF Fits
<1>6. CASE worker.kind = Polish
  <2> DEFINE source == worker.cards[p].source
             text == worker.answers[p]
             polished == [made[p] EXCEPT ![Polish] = source]
  <2>1. p \in Polished /\ phrase'[p] = PolishedTo[p]
    BY <1>1, <1>3, <1>6 DEF Written, PolishedTo, Polished
  <2>2. IsRewritten(phrase'[p], phrase[p], source, text, FALSE)
    <3>1. source \in Texts /\ text \in Texts \cup {NoText} /\ phrase[p] \in Phrase
      BY <1>1, <1>2 DEF Phrase
    <3>2. phrase'[p] = WriteText(phrase[p], source, text, FALSE)
      BY <2>1 DEF PolishedTo
    <3> HIDE DEF source, text
    <3> QED BY <3>1, <3>2, WriteTextWrites
  <2>3. phrase'[p].source = source /\ Shown(phrase'[p]) = text
    BY <1>1, <2>2, PhraseWorkAssumption DEF IsRewritten, Shown
  <2>4. made'[p] = IF text = Shown(worker.cards[p]) THEN polished ELSE Reset(polished)
    BY <1>3, <1>6 DEF Result
  <2>5. PolishFits(phrase'[p], made'[p])
    <3>1. polished[Polish] = source /\ Reset(polished)[Polish] = source
      BY <1>2, <1>6, PhraseWorkAssumption DEF Reset
    <3> QED BY <2>3, <2>4, <3>1 DEF PolishFits
  <2>6. CASE text = Shown(worker.cards[p])
    <3>1. \A k \in Kinds \ {Polish} : made'[p][k] = made[p][k]
      BY <1>2, <2>4, <2>6
    <3>2. Shown(phrase'[p]) = Shown(phrase[p])
      BY <1>1, <2>3, <2>6
    <3>3. \A k \in Misfits(phrase'[p], made'[p]) :
            k # Polish /\ k \in Misfits(phrase[p], made[p]) /\ made'[p][k] = made[p][k]
      BY <3>1, <3>2 DEF Misfits
    <3>4. OthersFit(p, phrase'[p], made'[p], kept')
      BY <1>1, <1>3, <1>4, <1>6, <3>3 DEF Fits, OthersFit
    <3> QED BY <2>5, <3>4 DEF Fits
  <2>7. CASE text # Shown(worker.cards[p])
    <3>1. \A k \in Kinds \ {Polish} : made'[p][k] = NoText
      BY <2>4, <2>7, PhraseWorkAssumption DEF Reset
    <3>2. Misfits(phrase'[p], made'[p]) = {}
      BY <3>1 DEF Misfits
    <3> QED BY <2>5, <3>2 DEF Fits, OthersFit
  <2> QED BY <2>6, <2>7
<1> QED BY <1>5, <1>6

(* They fit after a store, for the phrases written and the others.         *)
LEMMA StoreFits ==
    ASSUME WorkInv, ResultsFit, Store
    PROVE  ResultsFit'
<1>1. CASE StillClaimed = {}
  BY <1>1 DEF Store, ResultsFit
<1>2. CASE StillClaimed # {}
  <2>1. ASSUME NEW p \in Phrases
        PROVE  Fits(p, phrase'[p], made'[p], kept')
    <3>1. CASE p \in Done
      BY <1>2, <3>1, DoneResult
    <3>2. CASE p \notin Done
      <4>1. /\ phrase' = Written(PolishedTo) /\ made'[p] = made[p]
            /\ kept' = {w \in kept : made'[w[1]][w[2]] = made[w[1]][w[2]]
                                       /\ ~(w[1] \in Done /\ w[2] = worker.kind)}
        BY <1>2, <3>2, StoreStores DEF WorkInv, TypeInv
      <4>2. phrase'[p] = phrase[p]
        BY <3>2, <4>1 DEF Written, PolishedTo, Polished
      <4>3. \A k : <<p, k>> \in kept => <<p, k>> \in kept'
        BY <3>2, <4>1
      <4> QED BY <4>1, <4>2, <4>3, FitsIsProperty, FitsStays
    <3> QED BY <3>1, <3>2
  <2> QED BY <2>1 DEF ResultsFit, Fits, PolishFits, OthersFit
<1> QED BY <1>1, <1>2

(* They fit after every step.                                              *)
LEMMA ResultsFitStays ==
    ASSUME WorkInv, TypeOK', ResultsFit, [Next]_vars
    PROVE  ResultsFit'
<1>1. TypeOK
  BY DEF WorkInv, TypeInv
<1>2. CASE UNCHANGED <<phrase, made, kept>>
  BY <1>2 DEF ResultsFit
<1>3. CASE UserEdit
  BY <1>1, <1>3, EditFits
<1>4. CASE Store
  BY <1>4, StoreFits
<1>5. ASSUME NEW p \in Phrases, AskPolish(p) \/ \E k \in Kinds : AskResult(p, k)
      PROVE  ResultsFit'
  BY <1>1, <1>5, AskPolishFits, AskResultFits
<1>6. ASSUME NEW chosen \in SUBSET Phrases, Replace(chosen)
      PROVE  ResultsFit'
  BY <1>1, <1>6, ReplaceFits
<1>7. ASSUME NEW s \in Sources, NEW cut \in Recuts(s), Recut(s, cut)
      PROVE  ResultsFit'
  BY <1>1, <1>7, RecutFits
<1>8. ASSUME Next, ~UserEdit, ~Store,
             ~\E p \in Phrases : AskPolish(p) \/ \E k \in Kinds : AskResult(p, k),
             ~\E chosen \in SUBSET Phrases : Replace(chosen),
             ~\E s \in Sources : \E cut \in Recuts(s) : Recut(s, cut)
      PROVE  UNCHANGED <<phrase, made, kept>>
  BY <1>8 DEF Next, UserAsk, GenerationRun, Worker, Rebuild, CancelSelected, CancelOne,
         RetrySelected, BeginRun, Plan, PlanSince, RunRefused, QueueChunk, ClaimRun,
         ReadCards, Answer, AnswerOf, Settle, Break, Requeue, Hold, history
<1>9. UNCHANGED vars => UNCHANGED <<phrase, made, kept>>
  BY DEF vars, history
<1> QED BY <1>2, <1>3, <1>4, <1>5, <1>6, <1>7, <1>8, <1>9

(* The polish of a phrase is of its source text, its meaning and speech of *)
(* the text it shows, but for what an edit kept on purpose: no answer that *)
(* comes late is written beside another text.                              *)
THEOREM ResultsFitTexts == Spec => []ResultsFit
<1>1. Init => ResultsFit
  <2> SUFFICES ASSUME Init, NEW p \in Phrases
               PROVE  phrase[p].polish = NoText /\ Misfits(phrase[p], made[p]) = {}
    BY DEF ResultsFit
  <2>1. phrase[p].polish = NoText
    BY DEF Init
  <2>2. \A k \in Kinds : made[p][k] = NoText
    BY DEF Init
  <2>3. Misfits(phrase[p], made[p]) = {}
    BY <2>2 DEF Misfits
  <2> QED BY <2>1, <2>3
<1>2. WorkInv /\ WorkInv' /\ ResultsFit /\ [Next]_vars => ResultsFit'
  BY ResultsFitStays DEF WorkInv, TypeInv
<1> QED BY <1>1, <1>2, WorkInvHolds, PTL DEF Spec

=============================================================================
