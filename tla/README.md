# Models and proofs of anything-to-anki

anything-to-anki turns sources (texts, books, web pages, videos) into phrases
worth learning, has an AI explain them, voices them, and puts them through a
review or into Anki. This directory holds TLA+ models of its backend, the TLC
runs that check them, and theorems about them that TLAPS checks.

The code is `src/backend/src/backend/`; paths below are relative to it.
`PROJECT.json` maps every definition that models code to its lines.

## 1. The system

Two processes share one SQLite file and one media directory.

- The **app** (FastAPI). Synchronous routes run on a thread pool, asynchronous
  ones on the event loop. It also owns threads for long operations, previews,
  picture searches and the time tick of card states.
- The **worker**, one per machine (an `flock`), polls the queue, runs each
  claimed run in a thread, and starts a subprocess for speech.

Every write is one `BEGIN IMMEDIATE` transaction of a unit of work
(`infrastructure/persistence/sqla_unit_of_work.py`), so writes are serial, and a
write reads the latest committed state. Reads made before the write, on another
session, may be stale: most of what is hard here comes from that, from memory
that ends with its process, and from threads that cannot be stopped.

### Inventory

| Component | State | Operations | Hard behaviour | What makes it correct |
|---|---|---|---|---|
| **Generation queue** (`job_repository`, `job_worker`, `tts_subprocess`) | table `jobs`; the worker's claimed run; the threads and subprocesses at work | enqueue, claim a run, complete, fail, requeue, cancel, dismiss, retry; commit of results | the table changes under a run at each of its steps; late threads; a killed worker; two-write settlement; an absent AI | one job per key; a job stays until answered; RUNNING is attended; every job is served; it is a line of work |
| **Long operations** (`long_operation_*`, `background_long_operation`) | lock row, source locks, progress and registry in memory | start, prepare, apply, commit, cancel, fail, release; preview; build of the index; crash and restart | check-then-act between route, memory and database; double ending; a release that fails | nothing else writes; a cancel is honoured; failure changed nothing; locks are freed |
| **Phrase work** (`phrase_writes`, `sqla_occurrence_repository`) | text, polish and revision of a phrase; what was made of it | edit boundary, polish, revert, re-cut; job results | a result made of a text that has changed since | a result is of the text it stands beside |
| **Generation runs and stops** (`run_generation`, `in_memory_generation_stops`) | the run's plan, the stops noted since | plan, queue in chunks, stop, cancel | a stop between two chunks | nothing of a stopped kind is queued after the stop |
| **Decision rules** (`decision_rules`, `card_view`, `lemma_knowledge`) | none: tables of rules | press, move, bind, remove Known, report Unknown | a state no row of a table was written for | every reachable state has one row |
| **Word decisions** (`decide_phrase`, `decision_effects`, the Known and Unknown lists) | choices, notes and marks; the two lists | press, replace, list, unlist, delete a source | effects on the other cards and sources of a lemma | one decision per word; Unknown and learning never together; Known removed is gone |
| **Card-state projection** (`card_state_projector`) | one row per card and word, computed from facts and due times | project on commit, tick | a write that names too little; a timer due between read and commit | the rows equal the ones computed anew |
| **Anki export** (`sync_to_anki`) | cards, notes in Anki, bindings | queue, make notes, bind | notes are made outside the transaction that binds them; Anki quits | a card is bound only as what its note was made for |
| **Review window and order** (`open_review`, `review_updates`, `file_review_order_store`; the web client's `reviewState`, `useReviewWindow`) | the open review in memory, its order in two files; the client's rows and cards | open, read, fold, move, press, replace, poll, evict | answers lost, late or in another order; two files, one after the other; sources that join and leave | the order is the set's, in key order; rows of two lists never mix; a changed card is sent |
| **Source processing and rebuild plan** (`rebuild_plan`, `rebuild_plan_writer`, `phrase_selection`, `manual_phrases`) | the words and phrases of a source | process, Update, Re-cut; boundary, edit, polish, manual cards, targets | which phrases survive; places that swap | what is written is what was planned; the user's work stays; a second rebuild has nothing to do |
| **Collections and sources tree** (`collection_tree`, the collection use cases, `place_sources`, `source_group_writer`) | the tree with soft deletes; favorites; where each source lies | create, rename, move, delete, restore, place, add | undo into a tree changed since; depth that comes back with a restore | it stays a tree of bounded depth; every source is listed once; moves and deletes can be undone |
| **Media** (`run_media_extraction_job`, `cleanup_media`, `lazy_media_reconciler`, `meaning_image_placer`, `cleanup_youtube_video`) | files beside rows; the downloaded video | make, keep, forget, remove, heal, download | a phrase changed while its file is made; a file that goes between look and write | a row names a file that exists and is of what the phrase is now; losses heal |
| **Unit of work** (`sqla_unit_of_work`) | the transaction, the write gate | enter, commit, roll back | the gate inside the transaction; projection on commit | nothing is half written |
| **Picture searches** (`threaded_picture_searches`) | remembered searches, a waiting line, worker threads | ask, take, finish, forget, close | eviction while searching; order | a waiting search ends |
| **Topics** | a topic's source and collected phrases | create, refresh | asked for twice | a phrase is collected once |
| **Phrase choice and calibration** | levels, index, rounds | score, choose, save a round | arithmetic on features | the choice is part of the rebuild plan |
| **Fragment selection, text analysis** | none | pure functions of parsed sentences | natural language | any outcome is allowed for in the rebuild |
| **Readers and intake** | none until the write at the end | parse, import | formats | their write is `AddOne` and `AddGroup` of Library |
| **Release checks and updates** | a state file, a subprocess | check, start | asked before, started after | one update at a time |
| **AI proxy and adapters** | none | HTTP calls | absence, partial answers | modelled as answers of the queue's work |
| **Persistence mapping, migrations** | the schema | none | none | none |
| **HTTP API, container** | wiring, start-up | none | start-up frees what a crash left | part of LongOperation |
| **Frontends** (web, macOS), **command line, build** | clients | poll | the review's client | the review's client is part of Review |

Interactions: requests and runs of generation *enqueue* jobs; the worker
*claims*, works outside any transaction, and *commits* results while some job
of its run is still claimed. Long operations take the lock that keeps those
writes out: a request is refused, the worker waits. Previews hold sources one
by one. A rebuild re-cuts phrases and so cancels or re-addresses their jobs,
and forgets their files. Every commit that changes facts about a card projects
its state; the review reads that projection and tells its client what changed
since the revision it knows. The export reads the queue, talks to Anki outside
any transaction, and binds what it made in one write.

## 2. Modules

| Module | What it is |
|---|---|
| `JobTable` | the `jobs` table as a function from ids to rows, and each repository method as an operator on it |
| `JobQueue` | the queue at work: users, the worker's loop, threads, TTS subprocesses, faults |
| `MCJobQueue` | its instances for TLC |
| `JobQueueProofs` | lemmas on lines (one for each order, with their parts, fronts and continuations) and on the operators of the table; theorems of the queue: types and keys, claims and the jobs that stay, the line |
| `LongOperation` | long operations with the previews, the index build, other writes, cancel, crash and restart |
| `MCLongOperation` | its instances for TLC |
| `LongOperationProofs` | its theorems |
| `Lines` | putting things in order, said so that it can be proved about: the place of a thing is how many are ahead of it |
| `WorkLine` | what the queue promises, seen from outside: a line of work, what is taken from its head, what is put back, what has failed |
| `JobQueueLine` | the mapping of the jobs table to that line |
| `PhraseWork` | phrases with their texts and revisions, the jobs that carry a revision, runs of generation with the stops that come between their chunks, re-cuts, the worker's claim, answer and write |
| `MCPhraseWork` | its instances for TLC |
| `PhraseWorkProofs` | lemmas on its operators and its types; its theorems |
| `DecisionRules` | the tables of decision rules, and the status and knowledge they read, as operators |
| `WordFacts` | what is stored of words, and what a press, a move, a list, a removal or an export does to it |
| `CardStates` | the projection: the full computation, the increment of a write, the tick |
| `WordDecisions` | users, the export and time on top of the three |
| `MCWordDecisions` | its instance for TLC |
| `WordDecisionsProofs` | lemmas on the tables, the writes and the projection; its theorems |
| `ReviewOrder` | the order of a review as pure operators: keys, places, sections, rows, focus |
| `OpenReview` | an open review on the server and each request it answers |
| `ReviewClient` | how the web client puts an answer into what it knows |
| `Review` | client, server, files and other work, with messages in flight |
| `MCReview` | its instance for TLC |
| `ReviewProofs` | lemmas on orders, lists, answers and the client; its theorems |
| `RebuildPlan` | the plan of a rebuild and the choice of the phrase a word shows |
| `RebuildWriter` | the statements that write a plan, in their order |
| `SourceWords` | the words and phrases of a source between rebuilds, with what users and jobs do |
| `MCSourceWords` | its instance for TLC |
| `SourceWordsProofs` | lemmas on the plan of a word, its write and the rows it leaves; its theorems |
| `Library`, `MCLibrary` | collections and where the sources lie; its instance for TLC |
| `LibraryProofs` | lemmas on trees and orders of siblings; its theorems |
| `Media`, `MCMedia` | files, rows, the threads between them, the downloaded video; its instance for TLC |
| `MediaProofs` | its theorems |

### JobTable and JobQueue against the code

A row has its key (the type with what it works on), a status, `created` and
`started`; ids are the function's domain. Two facts of the schema matter and
are kept: a new id is one more than the largest in the table, so the id of a
removed row comes back; and `started_at` tells two claims of one id apart
(`StillClaimed`), which is what `GenerationClaim` checks.

| Model | Code |
|---|---|
| `Enqueue`, `Placings`, `Fresh` | `SqlaJobRepository.enqueue`: active keys are skipped, failed rows of the rest go |
| `NextRun`, `Claimed` | `claim_next_run` |
| `Complete`, `Fail`, `FailRunning`, `Requeue`, `Cancel`, `Dismiss`, `Retry` | the methods of those names |
| `Ask` | a request for generation: what was there before goes, missing jobs are queued |
| `WorkerStart`, `ClaimRun`, `Settle`, `CompleteRest`, `Timeout`, `FailTimedOut`, `FailTts` | the worker's loop, one action per write or wait |
| `ReadCards`, `Answer`, `Break`, `FindNoAI`, `KeepWanted`, `Commit`, `FinalCheck` | a run in its thread: read, ask outside any transaction, filter, write, look once more |
| `ReadFirstJob`, `SettleTts`, `ClaimTts` | the TTS subprocess, which settles and claims by itself |
| `TtsDies`, `WorkerDies`, `WorkerStops` | faults |

Left out of it: jobs that vanish with their phrase or source (cascade), the
filter of phrases that no longer exist, and the check of a phrase's revision —
these are in `PhraseWork`; the cleanup of downloads after a claim; a worker
write that waits for a long operation. `Ask` stands for the request for one
meaning and for a Regenerate of a set. A worker asked to stop during a run that
is not speech finishes it first, which is `Settle` followed by `WorkerStops`.

### LongOperation against the code

| Model | Code |
|---|---|
| `Ask`, `TryStart`, `LookAround`, `TakeLock` | the route, `StartLongOperation`, the lock's `try_acquire` |
| `ReadTargets`, `PrepareSource`, `BeginWrite`, `ApplySource`, `EnterFinish`, `Commit` | the runner and its scope: prepare each source outside, apply all in one write that also drops the lock |
| `SeeCancel`, `Fail`, `Break`, `CommitFails` | the ways it stops |
| `Release`, `ReleaseFails`, `TellCancelled`, `TellFailed`, `Succeed`, `LauncherTells` | its end: by the runner, and once more by the launcher of one that raised |
| `StartPreview`, `HoldSource`, `Analyse`, `FreeSource`, `EndPreview` | previews |
| `CheckBuild`, `TrackBuild`, `BeginBuild`, `EndBuild` | the build of the calibration index |
| `OtherWrite` | any other write; the gate is asked inside its transaction |
| `Crash`, `Restart` | the app's end and start |

The order in which sources are prepared is abstracted to any order. Cancels
are seen between sources, as the code's check points are. Routes that are
`async` run from their checks to their answer without another one in between
(`LoopIsFree`); a level change comes by the thread pool and does interleave.
There is one progress in a process, and its outcome is the one told last,
whoever told it; what it shows is of the operation that began last (`Shown`).
The history variable `stepped` marks operations that met another one, and those
shown when another one told its end. The code's double end (section 3) makes
both possible; the properties say what holds of the operations it did not touch.

### PhraseWork against the code

A phrase has the text cut from its source, perhaps a polish of it, and a
revision that counts the texts it showed (`write_text`). A job is a function
from phrase and kind to a status and the revision it was queued for: ids, order
and late threads are `JobQueue`'s, so at most one job of a key and one run at a
time are what that module has shown. Instead of the words of a result the model
keeps the text it was made of (`made`), which is what the properties ask about.

| Model | Code |
|---|---|
| `WriteText`, `Followed` | `write_text` and `queued_jobs_follow`: the revision goes up when the text shown changes, queued jobs take it |
| `SetBoundary`, `EditText`, `SwitchPolish` | the user's edits: cut anew, typed, back to the source text and again to the polish |
| `AskPolish`, `AskResult` | requests for one card: the old polish or meaning goes, speech stays |
| `CancelSelected`, `CancelOne`, `RetrySelected` | `ManageQueueUseCase`, `CancelGenerationUseCase`; a kind or a source cancelled is noted as a stop first |
| `BeginRun`, `Plan`, `QueueChunk`, `Replace`, `RunRefused` | `RunGenerationUseCase`: the mark, the read that plans, one write per chunk, the one write of a replacing run, the gate's refusal |
| `Hold`, `Recut` | a source held by a preview and freed; the rebuild plan's write |
| `ClaimRun`, `ReadCards`, `Answer`, `Store`, `Settle`, `Break`, `Requeue` | the worker: claim, the cards still at their revision, the AI or the voice, the write behind `holds_revision`, the end of the run |

Four history variables say what a reader could not see from a state: which
results an edit kept on purpose (`kept`: a meaning after a boundary change, for
example), which jobs were put in line with a revision read before (`behind`),
when a job's work was asked for (`since`), and what a user typed (`typed`).
Left out: media, pronunciations and follow-ups, replaced and added targets,
cards that went out of play, the order of a run's cards, two runs at once.

### WorkLine as the abstraction of JobQueue

`WorkLine` knows no ids, stamps, threads or processes. Its state is a sequence
of keys, waiting or worked on, in the order they joined, with the set of those worked on
and the set of failed ones; its steps are
put in line, take a run from the head, answer, put back, fail, withdraw, dismiss
and retry. `JobQueueLine` maps the table to it: the active rows in the order
`claim_next_run` reads them (`LineOf`), the keys with a RUNNING row, and the
keys with a FAILED row. The run `batch` checks `ImplementsWorkLine`, that is
`INSTANCE WorkLine WITH line <- LineOf(jobs), ...`: whatever late threads, a
killed worker or retries do, the table behaves as a line. What is put back
stands where it stood, before what was queued meanwhile.

### DecisionRules, WordFacts, CardStates and WordDecisions against the code

| Model | Code |
|---|---|
| `PressRows`, `MoveRows`, `RemovalRows`, `MayBind`, `UserChanges` | the tables of `decision_rules.py`, row by row |
| `StatusOf`, `ReadsKnown`, `Elsewhere`, `IsKnown`, `Due` | `card_choice.py`, `lemma_knowledge.py`, `learning_timer.py` |
| `ShownStatus`, `InExportQueue`, `IsDone`, `PressedButton` | `card_view.py` |
| `AfterPress`, `AfterMove`, `WithEffects`, `KnownRemoved`, `AfterUnknown`, `WithoutSource`, `AfterExport` | `decide_phrase`, `phrase_replacement`, `decision_effects`, `sqla_anki_sync_repository`, `sync_to_anki` |
| `AllRows`, `Projected`, `TickFinds`, `ReadAnew`, `Partly` | `card_state_projector.py` and its calculator |
| `Press`, `Replace`, `AddKnown`, `RemoveKnown`, `ReportUnknown`, `RemoveUnknown`, `DeleteSource` | the use cases, each one write with its projection (`Write`) |
| `StartExport`, `PushNote`, `SkipNote`, `AnkiQuits`, `EndExport` | `SyncToAnkiUseCase`: the queue is read once, notes are made one by one, one write binds |
| `Tick`, `TimePasses` | the projector's thread; the clock |

The tables are data in the code and data here: a row is a record of what it
asks and what it grants, and an operator finds the rows that fit. A card's text
and meaning are left out, since no rule reads them. Left out too: Known entries
with a part of speech, calibration records, the lock of a source in work, the
change of level, and the job a replacement queues.

### ReviewOrder, OpenReview, ReviewClient and Review against the code

| Model | Code |
|---|---|
| `PlaceByKey`, `ReplaceCard`, `RemoveCards`, `FocusAfterRemoval`, `FocusAfterPress`, `Layout` | `review_layout.py`, `review_order.py` |
| `GroupedKeys`, `Below` | the sort of `candidate_sorting.py`; the order it gives is a line (`Lines!LineUp`) |
| `OpenedOrder`, `Placed`, `Changes`, `ChangedSince`, `Answered` | `review_ordering`, `review_updates`, `review_answer` |
| `ReadRows`, `ReadAround`, `SetSection`, `Pressed`, `Replaced`, `Opened` | the requests of `review_window`, `review_mutation`, `open_review` |
| `Lands`, `Replaces`, `MissesReplace`, `Applied`, `Reopened`, `WithCurrent` | `reviewState.ts` |
| `Poll`, `LoadRows`, `GoTo`, `MoveTo`, `Toggle`, `Press`, `ReplacePhrase`, `ReceiveRead`, `ReceiveChange`, `ReceiveExpired`, `Fail` | `useReviewWindow.ts` |
| `Serve`, `Refuse`, `LetGo`, `DieWriting`, `NewCode` | the stores: memory, two files, the digest of the code |
| `Elsewhere`, `SetChanges` | writes of others to the projection; sources that join and leave the set |

A card's content stands for the revision it was last written at, so that "the
client shows an old card" is a comparison of numbers. The card a press lands on
is any loaded one, or none. `ReviewMutation.edit` is a write of others followed
by a poll. The client's one retry after it reopened an expired review is dropped. One
review is held at a time; undo, added cards, done marks, text chunks with their
highlights, and the header are left out. A replaced phrase is a new card under a
new id, as in the code; a write of others may change what a card says and leave
its place.

The variable `overtaken` is a history variable. The comment on the revision a
client keeps (`reviewState.ts:11`) says that the client knows every change up to
it. There are two ways for that not to hold, and `CardsKnown` leaves them out:
rows of a window land although their answer is older than what the client
knows, and a poll answered before a window was read lands after it and puts an
older card over the one the window brought (a window does not move the client's
revision on, so `applyUpdate` does not see that the poll is older, and the next
poll, asked with the later revision, does not send the card again).

### RebuildPlan, RebuildWriter and SourceWords against the code

| Model | Code |
|---|---|
| `Fate`, `Rewritten`, `MovedKeys`, `FreshPlaces`, `WordPlan`, `Plan`, `IsEmpty` | `rebuild_plan.py` |
| `Selection`, `Best`, `Rank`, `IsFrozen` | `phrase_selection.py` |
| `UserWork`, `IsUntouchable`, `KeepsWord`, `KeepsSection`, `IsDecided` | `occurrence_row`, `phrase_protection`, `card_view` |
| `DeletePhrases`, `WithoutWords`, `Unplaced`, `RewritePhrases`, `Insert`, `Mark`, `Applied` | `rebuild_plan_writer.py`, statement by statement |
| `Rebuild` | `source_rebuilder`: the plan is made inside the write that applies it, so a rebuild is one step |
| `SetBoundary`, `EditPhrase`, `RevertPolish`, `FinishPolish`, `AddManual`, `Replace`, `ChangeTarget`, `Press` | the use cases of those names |

An analysis is any of `Analyses`: natural language decides nothing here but
which words stand where, and every outcome within the bounds is tried. Left
out: blocks (a place is a line and a character), bindings (a card in Anki has a
choice), the kind of a job before it ends, revisions (they are in `PhraseWork`),
and all presses but learn and skip. The source is free when its user works on
it, which holds here because a rebuild is one step. A behaviour ends with its
last rebuild.

### Library and Media against the code

| Model | Code |
|---|---|
| `Ancestors`, `Depth`, `Height`, `Below`, `MoveTargets`, `MayMove`, `Placed`, `IndexOf`, `NameIsFree` | `collection_tree.py` |
| `Create`, `Rename`, `Move`, `Delete`, `Restore`, `AddToFavorites`, `PlaceSources`, `AddOne`, `AddGroup`, `AddGroupNamed`, `DeleteSource` | the use cases |
| `Request`, `Claim`, `Regenerate`, `Finish`, `FinishRolledBack`, `GiveUp`, `Settle`, `TimeOut` | a file made by the worker or on the spot, with its draft, its write and the check of the revision in it |
| `Pick`, `Place`, `PlaceRolledBack` | a picture put to a word |
| `Edit`, `ShowAnother` | a text or boundary by hand, which keeps all files and rows; a switch of text or AI's polish, which forgets the speech (`reset_phrase`) |
| `Recut`, `Drop`, `Cleanup`, `Remove` | what forgets files, and their removal after the write |
| `Ask`, `Look`, `Clear`, `ClearRefused` | the reconciler: key in progress, look at the folder, write |
| `RequestDownload`, `FetchVideo`, `StoreVideo`, `ForgetVideo`, `DeleteVideo` | the video of a source from YouTube |
| `Lose`, `Restart`, `RestartWorker` | faults |

The number of a delete (`deleted_at`) is the collection that was deleted, and a
name stands for all its spellings. Not in `Library`: recent uses, titles of
sources, orders and groups of the lists, counts, a source held by a preview,
the length of names. Not in `Media`: pronunciations (their files have the form
of a picture's), timecodes, local videos, deleted sources, hidden phrases, a
download that times out. A phrase has its revision (`rev`), that of its last
cut (`cut`) and that since which its speech is kept (`reset`): an edit by hand
keeps frame, clip and speech until they are made anew, as `kept` in `PhraseWork`,
a switch and AI's polish forget the speech, a re-cut forgets all. So
`FilesAreCurrent` asks speech to be no older than `reset`, frames and clips to be
no older than `cut`.

## 3. What TLC checks

| Run | Instance | Shows |
|---|---|---|
| `batch` | two meanings of two sources claimed as one run, 2 asks, 1 late thread, 1 fault; 291,523 states | `TypeOK`, `OneJobPerKey`, `OneLiveClaim`, `JobStaysUntilAnswered`, `ImplementsWorkLine` |
| `served` | a meaning, a download and speech under `FairSpec`, 1 late thread, 1 fault, an AI away any number of times; 288,955 states | `EveryJobIsServed`, `RunningIsAttended` |
| `operations` | an Update and a level change of two sources, an index build, other writes, cancels, 1 fault; 2,058,573 states | `NothingElseWrites`, `CancelRollsBack`, `FailedChangedNothing` |
| `previews` | an Update and two previews of overlapping sets under `FairSpec`, 1 fault; 175,936 states | `LockExcludesPreviews`, `LocksAreFreed` (the lock, `LockIsDropped`, and the sources, `SourcesAreFreed`) |
| `edits` | one phrase, polish, meaning and speech, 2 changes of text, 2 requests, a retry, 1 fault; 438,360 states | `TypeOK`, `ResultsFit`, `WaitingJobsFollow`, `JobsKeepTexts` |
| `stops` | two phrases of two sources, a run in two chunks, a stop, an edit, a retry; 1,173,728 states | `StopsHold` |
| `words` | two words of one lemma in two sources and one of another lemma, 4 cards, presses, moves, both lists, deletes, an export, 3 moments; 70,352 states | `CardsAreSound`, `EveryStateHasItsRow`, `UnknownIsNotLearned`, `KnownLeaves`, `RowsAreCurrent`, `BoundAsMade` |
| `review` | three cards of two sources, 3 requests, 2 of them in flight at once, one crash between the files; 600,297 states | `OrderIsSound`, `OrderIsTheSet`, `RowsAgree`, `CardsKnown`, `FocusIsLive` |
| `rebuilds` | two words, two texts, places on two lines, 5 phrases, 2 acts of the user, 2 rebuilds; 296,004 states | `RowsAreSound`, `WrittenAsPlanned`, `SettlesAtOnce`, `EveryPlaceIsHeld`, `WordIsShown`, `WorkIsKept` |
| `library` | four collections on three levels, two sources; 232,644 states | `TreeIsSound`, `SourcesAreListed`, `OffersAndUndoHold` |
| `media` | a phrase of a video and one of a text, a word with two pictures, two threads, a download, 1 change, 1 fault, under `FairSpec`; 177,926 states | `RowsHaveFiles`, `FilesAreCurrent`, `LossesHeal` |
| `typed` | ends in a counterexample | a text typed with *Edit text* is stored as a polish and does not protect its phrase: a re-cut drops it (`TypedTextsStay`) |

Some properties have named parts: `CardsAreSound` is the types and
`OneDecision`, `OrderIsSound` the types and `OrderInKeyOrder`, `RowsAreSound`
the types, `OneSelection` and `NoTwins`, `TreeIsSound` the types and four facts
of trees, `OffersAndUndoHold` is `MovesAreOffered`, `DeleteIsUndone` and
`MoveIsUndone`.

### Where the code does not do what it seems to promise

The properties above hold with these cases taken out, each by a history
variable or a condition the module names. The first was found by `typed`; the
others were met in the code while it was modelled, and the property excuses
exactly the case.

- **Text typed by hand** (`domain/services/rebuild_plan.py:344`): the run `typed`.
- **Recycled ids** (`sqla_job_repository.py:266`): a job queued after a running
  one was cancelled takes its id and is removed unanswered when that run
  completes by id (`recycled` in `JobStaysUntilAnswered`).
- **Cancelled cards** (`sqla_job_repository.py:141`): which cards are still
  wanted is read before the write; a card cancelled in between gets its result
  while another job of its run is claimed. A meaning asked for anew between the
  write of the result and the end of its job is dropped: its job runs, so
  nothing is queued, and it ends.
- **An operation ended twice** (`background_long_operation.py:62`): one that
  failed is ended by the runner and again by the launcher, which drops the lock
  of the one begun in between and tells the progress they share that it failed
  (line 66): that one may commit and be shown as failed, or as not running
  (`stepped` in `NothingElseWrites`, `CancelRollsBack` and `FailedChangedNothing`).
- **An AI that stays away** (`job_worker.py:148`): the run goes back to the head of
  the line at every poll, for ever ahead of a download or speech that needs no AI.
  `EveryJobIsServed` is about runs in which the AI is there from some time on;
  `docs/guide/queue-and-usage.md:30` promises no more than that.
- **The registry** (`infrastructure/api/routes/operations.py:143`) holds one
  operation per set, while the port speaks of all that run: one that asks may
  put out the preview it should be refused for.
- **Export of a lemma listed Known meanwhile** (`sync_to_anki.py:250`): the write
  that binds has no row for it and raises `NoDecisionRuleError`; nothing of
  that export is bound (`HasBindRule`). `decision_rules.py:3` says that every
  possible key has a row.
- **The focus of a press** (`review_updates.py:115`) is chosen by the order as it
  was before the other changes of the same answer: it may go to a card of a
  source that left.
- **An answer that passes another one** may lay an older card over a newer one, and
  no later answer repairs it (`reviewState.ts:62`, `overtaken` in `CardsKnown`; section 2).
- **A review read back from two files** has a new order under the old version
  (`readBacks` in `RowsAgree`): a client at that version keeps rows of the old one.
- **A re-cut drops the job that froze a selection** (`cut` in `SettlesAtOnce`): a
  second re-cut moves the selection.
- **A mark that is never taken back** (`phrase_selection.py:75`): a user who adds by
  hand the phrase the selection shows marks it `replaces_selection`
  (`manual_phrases.py:92`). Put an example in its place, and turn that into a phrase
  of another word (`EditPhrase`, `ChangeTarget`): the old phrase is selected again
  with its mark, so the next rebuild takes the card for replaced by itself and clears
  it, the one after selects it again. `test_rebuild_plan.py:248` says that a second
  rebuild has nothing to do; its rows have the mark only when the user shows them.
  The proofs met it (`Replaced` in `SettlesAtOnce` and `WordIsShown`): it takes four
  acts, two more than the run has.
- **The video of a source from YouTube stays** (`cleanup_youtube_video.py:58`): the
  cleanup runs inside a run whose own job counts as active
  (`job_worker.py:165` and `:209`), so the video goes only if that job was
  cancelled meanwhile. `docs/guide/sources.md:65` says it is deleted.
- **Lost speech, pronunciations and pictures** do not heal: the pattern of
  `lazy_media_reconciler.py:19` knows frames and clips only, while
  `database.py:256` leaves missing files to the reconciler.
- **A name made anew** between the write that forgot its file and the removal of
  the file is removed with it, and so is a picture replaced inside a write that
  is rolled back (`torn` in `RowsHaveFiles`).
- **A group added into a collection deleted meanwhile** (`source_group_writer.py:89`)
  is listed nowhere (`strays` in `SourcesAreListed`).
- **Undo of a delete** (`restore_collection.py`): a source moved away and back since
  counts as not moved, and comes back too.
- **Deleted sources** (`delete_source.py:45`): the folder of media goes after the
  commit, while the id of a deleted source may be given to the next one. Not
  modelled.

### Bounds

Two keys are enough for a batch whose cards part ways, for two types that
compete, and for the recycled id (which needs a third row). Two asks allow a
job to be asked for, cancelled, and asked for again; a retry counts as one.
One late thread is one more than the worker expects, which is what the claim's
stamp guards against. One fault at each possible place; two in a row add
nothing that a restart does not already reset. `Stamps` holds more clock
readings than can be remembered at once: a claim takes a free one. `served` has
three keys of three types, so that one waits behind two others, and one ask. Two
sources let an operation be in the middle of its sources; two requests let it
meet another; a level change differs from the others in route and failure rule.

Two texts are enough to differ and to come back to (symmetric, so TLC looks at
one naming of them); two edits let a text come back to what it was with another
revision, which a comparison of texts would miss. One phrase with two requests
has a polish land while speech waits; two phrases give a batch of which one
goes, and a run whose second chunk is still to come when the stop arrives.

- `words`: one word with two cards (a press and a move), a second word of its
  lemma in another source (effects across sources), and a word of another lemma
  whose card holds the first one (newness). A card exported at moment 0 reads
  Known at 2 (`Timer`), so it can be exported, fall due and be pressed
  afterwards within `MaxTime` 3. One lemma is put on the lists, two of three
  sources are deleted; the other one is there for the words that stay.
- `review`: three cards are the least with one between two others; one live at
  the start is in another source. Rows are fetched two by two and answered one by one
  (`RowsAtMost` 1, `Around` 0), so a window is never the whole list. Two changes
  go beyond `PlacedAtMost` 1, so both ways to place changed cards are taken.
- `rebuilds`: two words with three characters to stand at, so that phrases of
  one word swap places and a new one takes the place of one that goes. The
  second rebuild meets what the first left and what two acts made of it.
- `library`: `MaxDepth` is 3 where the code has 5 (`collection_tree.py:18`); four
  collections give a chain of three, at the limit, with a sibling; the theorems are for any limit. `MaxRows` bounds collections, sources and favorites
  together. Names are symmetric.
- `media`: two revisions tell the text a file was made of from the one that is
  there; two threads, of which one may be late; one change and one fault at
  every place, two requests.

### Fairness

- Nothing is assumed of users, of faults, or of who starts the worker again.
- Nothing is assumed of the AI, and its absence is not bounded (`FindNoAI`): that
  it comes back for good is the premise of `EveryJobIsServed`, not fairness.
- The worker's loop, a transaction begun and a run's end or timeout happen
  (weak fairness): the code has no wait there but the timeout itself.
- The TTS generator is assumed to return; the code gives it no deadline, and
  without the assumption `EveryJobIsServed` fails (listed as a hazard).
- Threads of a running app go on; a crash ends them and the restart frees the
  locks. Liveness of locks is claimed only without a fault, since a release
  that fails three times leaves the lock until a restart, as the code documents.
- `LossesHeal`: the threads of the worker and of the app go on, and a page that
  shows a card asks for its files whenever it is opened. No one is made to make
  a file anew.

## 4. What TLAPS proves

For all values of the constants that satisfy the modules' assumptions
(`KeysAssumption`, `TypesAssumption`, `SpeechAssumption`, `RequestsAssumption`,
`PhraseWorkAssumption`, `TimerAssumption`, `WordsAssumption`, `BoundsAssumption`,
`LibraryAssumption`, `MediaAssumption`, `CardsAssumption`, `CardKeysAssumption`,
`SizesAssumption`, `SectionedAssumption`, `SourceWordsAssumption`): any numbers of keys,
sources, operations, previews, late threads, phrases, texts, asks, faults, words,
lemmas, moments, collections, levels, names, cards and requests under way.

| Theorem | Says |
|---|---|
| `JobQueueProofs!TypeCorrect` | `Spec => []TypeOK` |
| `JobQueueProofs!OneJobPerKeyAlways` | `Spec => []OneJobPerKey` |
| `JobQueueProofs!OneLiveClaimAlways` | no two rows of one key are worked on at a time, late threads included |
| `JobQueueProofs!RunningIsAttendedAlways` | a row that runs has the worker, a thread or a subprocess to end it |
| `JobQueueProofs!JobStaysUntilAnsweredAlways` | a job in line leaves the table answered or by the user, but for `recycled` and `astray` |
| `JobQueueProofs!LineIsImplemented` | `Spec => ImplementsWorkLine`: each step of the queue is a step of the line of work, or none |
| `LongOperationProofs!TypeCorrect` | `Spec => []TypeOK` |
| `LongOperationProofs!NothingElseWritesAlways` | while an operation is under way it holds the lock and no other write lands |
| `LongOperationProofs!LockExcludesPreviewsAlways` | lock and source locks never meet |
| `LongOperationProofs!FailedChangedNothingAlways` | an operation shown as failed or cancelled has changed nothing, unless another one told its end |
| `LongOperationProofs!CancelRollsBackAlways` | an accepted cancel is honoured |
| `PhraseWorkProofs!TypeCorrect` | `Spec => []TypeOK` |
| `PhraseWorkProofs!ResultsFitTexts` | no late answer stands beside a text it was not made of |
| `PhraseWorkProofs!JobsKeepUsersTexts` | the worker polishes only where no polish is, and keeps the source text |
| `PhraseWorkProofs!WaitingJobsFollowText` | a job in line carries its phrase's revision, but for those put there with an older one |
| `PhraseWorkProofs!StopsAreKept` | nothing asked for before a stop is in line or running after it |
| `WordDecisionsProofs!CardsAreSoundAlways` | a word has one decision at most; a note sits on its decision or one turned Known |
| `WordDecisionsProofs!EveryStateHasItsRowAlways` | every press, move and Known removal finds one row in its table |
| `WordDecisionsProofs!UnknownIsNotLearnedAlways` | a lemma in Unknown is not Known, learned or waiting for export |
| `WordDecisionsProofs!KnownLeavesAlways` | Known can be taken from any lemma, for all its words |
| `WordDecisionsProofs!RowsAreCurrentAlways` | the stored rows are those of now, but for what the next tick finds |
| `WordDecisionsProofs!BoundAsMadeAlways` | a card gets a note only from an export that made it one, of the kind it read |
| `LibraryProofs!TreeIsSoundAlways` | the live collections form trees within the limit, siblings with names of their own |
| `LibraryProofs!SourcesAreListedAlways` | each source but a stray is listed once |
| `LibraryProofs!OffersAndUndoHoldAlways` | what the menu offers is what is taken; a delete and a move are undone exactly |
| `MediaProofs!RowsHaveFilesAlways` | a row without its file is in `torn`; the source's video is there |
| `SourceWordsProofs!RowsAlwaysSound` | types, one selection card a word, no two phrases of the analysis at one key |
| `SourceWordsProofs!PlansAlwaysWritten` | what a rebuild stores is what its plan took it to be |
| `SourceWordsProofs!PlacesAlwaysHeld` | after a rebuild each place of the analysis has a phrase, or its line is held |
| `SourceWordsProofs!WordsAlwaysShown` | after a rebuild an undecided word with a phrase to show has a card |
| `SourceWordsProofs!WorkAlwaysKept` | a rebuild keeps the user's work and the phrases of decided words |
| `ReviewProofs!RowsAlwaysAgree` | a client on the version of the list in memory has the rows of that list |
| `ReviewProofs!OrderAlwaysTheSet` | the order is the set of its sources, each card in its section, as far as the client was told |
| `ReviewProofs!OrderAlwaysSound` | the types, and the cards of a section stand by their keys, each once |
| `ReviewProofs!FocusAlwaysLive` | the focus of a poll or a change goes to a live card |
| `ReviewProofs!CardsAlwaysKnown` | every loaded card is live and as stored, up to the client's revision |
| `MediaProofs!FilesAreCurrentAlways` | a frame or clip is no older than the last cut, speech no older than the last cut, switch or AI polish |

**The queue.** `TypeOK` is inductive by itself once the table is known to be
finite, which the first part of `JobQueueProofs` shows for every operator. `OneJobPerKey` rests
on one lemma per operator: each either keeps the keys of the rows it keeps
(claim, fail, requeue, complete, cancel, dismiss), or adds rows for keys it has
checked not to be active and whose failed rows it removes (enqueue), or drops
the failed rows that would collide (retry).

`OneLiveClaim` and `RunningIsAttended` are not inductive. What carries them is
the stamp of a claim: a row that runs after a step either ran before it with the
same stamp, or was claimed by this step with a stamp nobody remembers
(`RunningRanBefore`). `SpeechAssumption` (speech is claimed one row at a time,
as `DEFAULT_RUN_LIMIT` has it) is needed, since a TTS run has one subprocess for
one row. Three strengthenings:

- `ClaimsApart`: there is one subprocess at most, and threads, the worker and the
  subprocess hold claims with stamps of their own; each step keeps them apart
  (`ContinuedStayApart`).
- `CancelledHasNone`: a run the user cancelled has no row of its claim running.
- `RunningIsTended`: each running row is in the claim of someone who will end it;
  claims that nobody tends any more have lost their rows first (`LostIsLost`).

`JobStaysUntilAnswered` is about `complete`, which removes rows by id and failed
rows by key, long after the run read its cards. A row is *due* when its job is
owed and neither `recycled` nor `astray`. Two strengthenings, both checked by
TLC on `batch` and `served` (`SpeechIsWhole` on `served`) before they were proved:

- `JobsAreKept`: nothing owed has its result; each run still to be settled holds
  the due rows at its ids, running under its claim, for the key it was claimed
  for, and what is due of it is among the keys it has not answered (`Open`);
  none of its keys is a due failed job; the part of a run that is completed in a
  second write has no due row. A subprocess without its worker only knows that
  the due rows at its ids have its keys. The steps of others leave this alone
  because a due row either stays as it was or is new, at an id no run in progress
  had claimed (`DueRowsStay`): a row at a claimed id is `recycled`.
- `SpeechIsWhole`: a TTS subprocess works on one job and leaves nothing of it
  unanswered, so completing its whole run removes nothing due.

The proof of the step uses `OneJobPerKey`, `ClaimsApart` and `RunningIsTended`:
the worker's claim is found again by its stamp, and a row the subprocess completes
without voicing it, of another type, is never due.

`ImplementsWorkLine` is proved write by write, with `TypeOK` and `OneJobPerKey`:
a write either leaves the active rows their keys and times, so the line is the
same (claim, requeue), or takes rows away, whose keys leave it (`TakenAway`,
`FailGivesUp`), or adds rows later than all others, whose keys come behind it
(`EnqueueJoins`, `RetryJoins`). What a claim takes is the front of what waits:
with one of its rows, `NextRun` has every row queued before it (`RunIsInFront`).
The prover cannot open `SortSeq` and `SelectSeq`, so the order is stated by
`Lines!LineUp`, of each row how many are ahead of it; the first lemmas show for every
strict order that this is the one sequence in which everyone stands behind the
ones ahead of him (`OneLine`).

**Long operations.** None of the properties is inductive. Three strengthenings
are, each checked by TLC before it was proved:

- `Exclusion`: an operation in its write has the transaction; a stopped app has
  no operation; operations that overlap are in `stepped`; the lock is held by
  every operation not in `stepped`; the build and an operation that was not
  stepped on do not both write. It gives `NothingElseWrites` and
  `LockExcludesPreviews`.
- `Truth`: for each operation, what has been committed against the place it
  stands at (`ChangesAreEnds`), and a progress that tells an end shows an operation
  that is past it, unless it is in `stepped` (`ShownIsOver`). It gives
  `FailedChangedNothing`.
- `Cancelling`: an operation whose cancel was accepted has either not reached
  the last step with the cancel still pending in the progress, or is in a place
  from which it cannot commit. It gives `CancelRollsBack`.

**Phrase work.** `WaitingJobsFollow` is inductive beside the types: each write
of texts is one `Followed`, and each job put in line carries its phrase's
revision or is in `behind`. `StopsHold` needs that a run counts stops from its
beginning (`MarkIsBeginning`). `ResultsFit` and `JobsKeepTexts` rest on two
invariants about the worker, which hold no matter how often the phrase is edited
between the read of its card and the write of the answer:

- `CardsFit`: a card's revision is at most its phrase's, and a phrase that is
  there at that revision shows the card's text; if a polish was asked for, it
  has none and the card's source text. `StepKeepsCards` shows it of every step
  but the worker's own write: a text changes only with the revision, or goes.
- `AnswersFit`: a meaning or speech answered is of its card's text.

**Words.** The inductive invariant `Inv` has two halves. `FactsInv` speaks of the
facts alone: types; one decision a word (`Sole`); notes that fit (`NotesFit`); of an
Unknown lemma no card waits or has a note, and no note is left without its card
(`UnknownIdles`); and a word with cards has a shown one and a source (`Housed`,
which needs that a replaced card is hidden only when its successor is there). A
write is shown to keep it, and to leave the other lemmas' cards, notes and marks as
they were (`Apart`); that is what makes the projection of a write local.

`Current` says of the rows what `RowsAreCurrent` says. Its difficult step is the end
of an export, which projects with the moment the export began at, which may be long
ago. Every lemma it writes has a shown card (`Housed`), and the row of that card now
holds when the oldest note makes the lemma Known, reckoned from that moment. Either
that has come meanwhile, and the tick finds the lemma by its row, or it has not,
and the lemma stands as it stood then (`NotChanging`, `CurrentWritten`).

The tables are finite sets of rows, each for several keys. `ThePress`, `TheMove` and
`TheRemoval` name the row of a state; one lemma says it is in the table and fits
(`PressIsThere`), one that any row that fits is it (`PressIsThe`). Only
the states a card can be in are covered (`Possible`, `MayMeet`): this is where A1,
a note on no other decision, is needed, and `CardMay` derives it from `FactsInv`.

**Collections.** A tree is given by parents, so "below" is the least set closed
under children (`Below`), and everything about trees is proved from that:
subtrees of two roots are apart, a depth is one more than its parent's, a move
changes what hangs on others only by the subtree that moved (`MovedBelow`). The
inductive invariant `LibInv` is the types with three facts:

- `ColsSound`: the trees are sound, and so is what was deleted. The names of
  siblings differ among the live ones and among those of one delete
  (`NamesDiffer`), and those of one delete hang together on the collection that was
  deleted (`HangTogether`). Without it a restore could bring back a collection below
  a dead parent or beside its namesake: the code checks the root of what comes
  back and its depth, nothing else.
- `EvictionsFit`: the place a delete kept of a source went with that delete. So
  a restore puts sources into collections that came back with it.
- `HomesAreLive`: a source that is no stray lies in a live collection or in none.

`OffersAndUndoHold` follows from `LibInv`, in three parts. That a move is undone
needs the order of siblings, which the code sorts and the model ranks: an order
is the sequence in which no later member comes before an earlier one, there is
one (`OrderedIsInOrder`), numbering anew yields it (`NumberedIsOrdered`), and what
is taken from a place and put back makes the sequence it was (`InsertDropped`).

**Media.** Three strengthenings:

- `JobsHavePhrases`: a job in the queue is of a phrase there is.
- `VideosApart`: a thread that deletes a video deletes one the source has
  forgotten, and never the one fetched since.
- `RowsFit`: a row is of a phrase there is, and its file, if it has one, of no text
  or cut from before the last one that took such rows away. That makes `FilesAreCurrent`; `LostIsTorn` shows step
  by step that a file goes from under a row only where `torn` says so.

**The review.** None of its five properties is inductive. They are proved in
layers, and each layer is inductive beside those before it:

- `Shapes`: every request is of a review there was, every answer is of the review
  its request named, no revision or version runs ahead, one opening is under way
  at most.
- `RowsInv`: the client's rows, and the rows of every answer under way, are of the
  list of the version they name, or that list is gone. A request that leaves the
  version alone leaves the list alone (`SameRows`); a replace names a version nobody
  has. That is `RowsAgree`, in whatever order answers land.
- `Kept`: memory and the two files are of one review; the projection only goes on
  (`Grown`): whoever changes a card gives it a revision nobody knows yet. From this,
  a card at or below a revision the client was told (`KnownAt`) is placed in the
  order as it was then. `Build` places every card changed since the client's
  revision (`LeftRight`, `AboutCards`), so what an answer tells is known when it
  lands. A death between the two files leaves an order that is ahead of its light
  file, which is right for every card whose source stays (`Sure`). `OrderIsTheSet`
  and `FocusIsLive` follow.
- `Bounded`: the counters, and the keys of the order. Placing by binary search is
  shown to keep an order that is in key order in key order, whatever the keys of
  the cards placed before.
- `CardsInv`: what the client knows of the cards. `FreshInv`: a card in an answer is
  as stored at the answer's revision. `ListInv`: the rows of the list in memory that
  are loaded or under way count as served, so a change of them is sent. `HasInv`: a
  loaded card is known up to the client's revision, and every poll or change under
  way brings what it lacks. `PairInv`: the same of rows still under way, which is
  what two answers that pass each other need. TLC checked it on the instance of
  `review` and on wider ones; it found there that `overtaken` was too narrow, which
  is how the second case of section 2 was met.

`CardKeysAssumption` (the keys that order cards are naturals) stands for the order
of words and sources in the code, which is total. The order of a section is
stated by `Lines!LineUp`, as the queue's is, and the lemmas on lines it needs are
proved in both modules.

**The words of a source.** The inductive invariant is short (`RowsInv`): the types,
and that the phrases of every word are such that the selection can choose among them
(`Selectable`): the analysis's own phrases have a key, no two of a word have the same,
and one phrase at most is marked. Users keep it because no act of theirs moves a
phrase of the analysis or sets a mark (`Grows`), but for the target that changes,
which makes the selection of one word again (`MarksHold`). A rebuild keeps it, and
leaves the other four properties, along the way the code goes:

- `WordSettles`: whatever is stored of a word and whatever the analysis has, the
  phrases planned stand at keys of their own. Stray phrases find a place again, the
  oldest one first; such moves exist for any number of phrases (`MovesExist`, by the
  least id where they would fail) and no two of them meet (`MovedAre`). Of the phrases at free
  places there is one each.
- `SelectionIs`: of those phrases one at most is marked, none beside a card that
  stands for the selection unless work on it freezes it, and one if there is any.
- `CastIs`, `ViewIs`, `MarkedRowIs`: the statements of the write, each over all rows
  of the source, make of every row the one its plan took it to be; a plan of one word
  touches no row of another (`ElsewhereIs`).
- `AppliedIs`, `RebuiltIs`: the rows that are deleted, changed and inserted together
  are the phrases of the plans, each once (`WordRebuiltIs`).

`PlaceHeld`, `OneIsShown`, `SelectionFrozen`, `WrittenIs` and `WorkStays` read the
properties off that. A state after an act of a user claims nothing about a rebuild,
so the other four hold there by `RowsInv` alone. TLC checked `RowsInv` on `rebuilds`
before it was proved. `SourceWordsAssumption` says what an analysis is; of the words
it asks that they are finitely many, and of lines and characters that they are one
to nine, which keeps the ids of phrases not yet stored apart (`Placeholder`).

**Only model-checked.** The liveness properties (`EveryJobIsServed`,
`LocksAreFreed`, `LossesHeal`), as the prover does not reach liveness under fairness; that a second
rebuild has nothing to do (`SettlesAtOnce`), which compares two plans field by field;
and the run that ends in a counterexample.

## 5. What is left to do

1. A proof that a rebuild settles at once (`SettlesAtOnce`).
2. The review's undo, added cards and done marks; two reviews in the store.
3. The status of a source and of a topic, so that asking twice can be seen.
4. Updates of the app: checked, then started; picture searches with their line.
5. The worker's writes composed with the gate of `LongOperation`.

## 6. Not modelled

- **Natural language** (fragment selection, scoring, text analysis), readers,
  prompts, rendering: pure functions of texts, without state that interleaves. The
  rebuild allows any outcome of them.
- **Picture searches**: a cache beside the cards. What a picked picture does to
  its word and its files is in `Media`.
- **Topics**: Refresh is an operation of `LongOperation`; which phrases it
  collects is search and scoring.
- **Calibration**: rounds and scoring are arithmetic over features; the build of
  its index is in `LongOperation`, the choice of a word's phrase in `RebuildPlan`.
- **Updates of the app**: one subprocess and a state file.
- **HTTP wiring, persistence mapping, migrations, frontends, command line, build**:
  no state the backend's behaviour depends on, but for the review's client, which
  is in `Review`, and the start-up, which is in `LongOperation` and `Media`.
- **Follow-ups of a meaning**, deleted sources in the jobs table, and the job a
  replaced phrase queues are left out of the modules that would hold them.

Time is abstracted to order, but for the timer of an exported word. The
database is taken to do what SQLite promises for `BEGIN IMMEDIATE`.
