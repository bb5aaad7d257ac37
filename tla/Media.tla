------------------------------- MODULE Media -------------------------------
(* The files of the phrases and the rows that point at them.                *)
(*                                                                          *)
(* A phrase of a video has a screenshot and a clip cut from it, a phrase of *)
(* a text is read aloud. A file is made under a draft's name and moved to   *)
(* the phrase's own name in the write that points the row at it; it is      *)
(* removed after the write that forgot it. Between two such steps come a    *)
(* rebuild, an edit, a cleanup, a thread that timed out, a crash and the    *)
(* user's own hand on the folder. The app heals a row whose file is gone    *)
(* when the file is asked for, and removes files of gone phrases at its     *)
(* start.                                                                   *)
(*                                                                          *)
(* A revision numbers the texts of a phrase; a file is known by the         *)
(* revision it was made of. The video source is one from YouTube, whose     *)
(* video is downloaded when asked for and deleted again.                    *)
EXTENDS Integers, FiniteSets

CONSTANTS
    Phrases,
    Filmed,         \* the phrases of the video source; the others are of a text
    Pictures,       \* the origins a word's picture may have
    Makers,         \* threads that make files: of the worker and of requests
    MaxRevision,    \* bound: revisions of a phrase
    MaxVideos,      \* bound: downloads
    MaxRequests,    \* bound: requests for files, jobs and on the spot
    MaxChanges,     \* bound: edits, rebuilds and cleanups
    MaxFaults       \* bound: restarts, refused writes, files lost outside the app

ASSUME MediaAssumption ==
    /\ Filmed \subseteq Phrases
    /\ {MaxRevision, MaxVideos} \subseteq Nat \ {0}
    /\ {MaxRequests, MaxChanges, MaxFaults} \subseteq Nat

VARIABLES
    phrases,     \* the phrases there are: their revision, that of their last cut
                 \* and that since which their speech is kept
    paths,       \* the files the rows point at
    files,       \* the files there are: the revision each was made of
    drafts,      \* the drafts there are, by phrase and maker
    jobs,        \* the active job of a phrase: none, queued or running
    worker,      \* what the worker waits for: a maker, the download or nothing
    makers,      \* every making thread
    video,       \* the video the source points at, 0 for none
    videos,      \* the video files there are
    download,    \* the job that downloads the video
    leaving,     \* files to be removed, by what forgot them
    tasks,       \* the reconciler's keys in progress
    torn,        \* history: rows whose file went by a known race or outside the app
    budget       \* what the bounds leave

rows == <<phrases, paths, torn>>
disk == <<files, drafts>>
work == <<jobs, worker, makers>>
film == <<video, videos, download>>
later == <<leaving, tasks>>
vars == <<rows, disk, work, film, later, budget>>

Kinds(p) == IF p \in Filmed THEN {"screenshot", "audio"} ELSE {"speech"}
NamesOf(p) == {p} \X Kinds(p)
PictureNames == Pictures \X {"picture"}
Names == (UNION {NamesOf(p) : p \in Phrases}) \cup PictureNames

Idle == [pc |-> "idle"]
Nobody == "nobody"
Download == "download"

Lost == paths \ DOMAIN files

Spend(what) ==
    /\ budget[what] > 0
    /\ budget' = [budget EXCEPT ![what] = @ - 1]

Phrase == [rev : 1 .. MaxRevision, cut : 1 .. MaxRevision, reset : 1 .. MaxRevision]

Maker ==
    {Idle} \cup [pc : {"cut"}] \cup [pc : {"delete"}, video : 1 .. MaxVideos]
        \cup [pc : {"making"}, phrase : Phrases, rev : 1 .. MaxRevision, job : BOOLEAN]
        \cup [pc : {"placing"}, name : PictureNames, old : SUBSET PictureNames]

TypeOK ==
    /\ DOMAIN phrases \subseteq Phrases /\ phrases \in [DOMAIN phrases -> Phrase]
    /\ paths \subseteq Names
    /\ DOMAIN files \subseteq Names /\ files \in [DOMAIN files -> 1 .. MaxRevision]
    /\ drafts \subseteq Phrases \X Makers
    /\ jobs \in [Phrases -> {"none", "queued", "running"}]
    /\ worker \in Makers \cup {Nobody, Download}
    /\ makers \in [Makers -> Maker]
    /\ video \in 0 .. MaxVideos
    /\ videos \subseteq 1 .. MaxVideos
    /\ download \in {"none", "queued", "running", "stored"}
    /\ leaving \subseteq {"cleanup", "rebuild"} \X Names
    /\ DOMAIN tasks \subseteq Names /\ tasks \in [DOMAIN tasks -> {"look", "clear"}]
    /\ torn \subseteq Names
    /\ budget \in [videos : 0 .. MaxVideos, requests : 0 .. MaxRequests,
                   changes : 0 .. MaxChanges, faults : 0 .. MaxFaults]

Init ==
    /\ phrases = [p \in Phrases |-> [rev |-> 1, cut |-> 1, reset |-> 1]]
    /\ paths = {} /\ torn = {}
    /\ files = <<>> /\ drafts = {}
    /\ jobs = [p \in Phrases |-> "none"]
    /\ worker = Nobody
    /\ makers = [m \in Makers |-> Idle]
    /\ video = 0 /\ videos = {} /\ download = "none"
    /\ leaving = {} /\ tasks = <<>>
    /\ budget = [videos |-> MaxVideos, requests |-> MaxRequests,
                 changes |-> MaxChanges, faults |-> MaxFaults]

-----------------------------------------------------------------------------
(* The video of the source.                                                 *)

RequestDownload ==
    /\ video = 0 /\ download = "none" /\ budget.videos > 0
    /\ download' = "queued"
    /\ UNCHANGED <<rows, disk, work, video, videos, later, budget>>

(* A video that is there already is left as it is.                          *)
ClaimDownload ==
    /\ worker = Nobody /\ download = "queued"
    /\ \/ video = 0 /\ worker' = Download /\ download' = "running"
       \/ video # 0 /\ download' = "none" /\ UNCHANGED worker
    /\ UNCHANGED <<rows, disk, jobs, makers, video, videos, later, budget>>

(* The file comes first, under a name of its own, then the write.           *)
FetchVideo ==
    /\ download = "running"
    /\ videos' = videos \cup {MaxVideos - budget.videos + 1}
    /\ download' = "stored"
    /\ Spend("videos")
    /\ UNCHANGED <<rows, disk, work, video, later>>

DownloadFails ==
    /\ download = "running"
    /\ download' = "none"
    /\ worker' = Nobody
    /\ UNCHANGED <<rows, disk, jobs, makers, video, videos, later, budget>>

StoreVideo ==
    /\ download = "stored"
    /\ video' = MaxVideos - budget.videos
    /\ download' = "none"
    /\ worker' = Nobody
    /\ UNCHANGED <<rows, disk, jobs, makers, videos, later, budget>>

(* The jobs the cleanup of the video waits for.                             *)
MediaJobsActive == \E p \in Filmed : jobs[p] # "none"

(* The rebuild that cuts a phrase gives it a row with its times; a source   *)
(* without rows keeps its video.                                            *)
AllCut ==
    /\ Filmed \cap DOMAIN phrases # {}
    /\ \A p \in Filmed \cap DOMAIN phrases : <<p, "screenshot">> \in paths

(* After a job of the source, whose row is still there if nobody removed it.*)
ForgetVideo(m) ==
    /\ makers[m].pc = "cut"
    /\ LET forget == video # 0 /\ ~MediaJobsActive /\ AllCut
       IN  \/ /\ forget
              /\ video' = 0
              /\ makers' = [makers EXCEPT ![m] = [pc |-> "delete", video |-> video]]
           \/ /\ ~forget
              /\ makers' = [makers EXCEPT ![m] = Idle]
              /\ UNCHANGED video
    /\ UNCHANGED <<rows, disk, jobs, worker, videos, download, later, budget>>

DeleteVideo(m) ==
    /\ makers[m].pc = "delete"
    /\ videos' = videos \ {makers[m].video}
    /\ makers' = [makers EXCEPT ![m] = Idle]
    /\ UNCHANGED <<rows, disk, jobs, worker, video, download, later, budget>>

-----------------------------------------------------------------------------
(* Making the files of a phrase.                                            *)

(* A run over the source's cards; a media run waits for the video.          *)
Request(p) ==
    /\ p \in DOMAIN phrases /\ jobs[p] = "none"
    /\ p \in Filmed => video # 0
    /\ Spend("requests")
    /\ jobs' = [jobs EXCEPT ![p] = "queued"]
    /\ UNCHANGED <<rows, disk, worker, makers, film, later>>

Cancel(p) ==
    /\ jobs[p] # "none"
    /\ jobs' = [jobs EXCEPT ![p] = "none"]
    /\ UNCHANGED <<rows, disk, worker, makers, film, later, budget>>

CanMake(p) == p \in Filmed => video \in videos

Making(p, job) == [pc |-> "making", phrase |-> p, rev |-> phrases[p].rev, job |-> job]

(* The thread of the head of the queue; without its video the job fails.    *)
Claim(m, p) ==
    /\ worker = Nobody /\ download # "queued"
    /\ jobs[p] = "queued" /\ makers[m] = Idle
    /\ \/ /\ CanMake(p)
          /\ jobs' = [jobs EXCEPT ![p] = "running"]
          /\ worker' = m
          /\ makers' = [makers EXCEPT ![m] = Making(p, TRUE)]
          /\ drafts' = drafts \cup {<<p, m>>}
       \/ /\ ~CanMake(p)
          /\ jobs' = [jobs EXCEPT ![p] = "none"]
          /\ UNCHANGED <<worker, makers, drafts>>
    /\ UNCHANGED <<rows, files, film, later, budget>>

(* The user asks for the frame and the clip again and waits.                *)
Regenerate(m, p) ==
    /\ p \in Filmed \cap DOMAIN phrases
    /\ CanMake(p) /\ makers[m] = Idle
    /\ Spend("requests")
    /\ makers' = [makers EXCEPT ![m] = Making(p, FALSE)]
    /\ drafts' = drafts \cup {<<p, m>>}
    /\ UNCHANGED <<rows, files, jobs, worker, film, later>>

Holds(p, rev) == p \in DOMAIN phrases /\ phrases[p].rev = rev

(* What the thread does when it has made its files or given up.             *)
AfterMaking(m) ==
    IF makers[m].job /\ makers[m].phrase \in Filmed THEN [pc |-> "cut"] ELSE Idle

Kept(p, rev) ==
    [n \in NamesOf(p) \cup DOMAIN files |-> IF n \in NamesOf(p) THEN rev ELSE files[n]]

Discard(m) == drafts' = drafts \ {<<makers[m].phrase, m>>}

(* Mutant: the revision is not asked for again.                             *)
FinishUnasked(m) ==
    /\ makers[m].pc = "making"
    /\ LET p == makers[m].phrase
       IN  /\ files' = Kept(p, makers[m].rev)
           /\ paths' = IF p \in DOMAIN phrases THEN paths \cup NamesOf(p) ELSE paths
           /\ torn' = torn \ NamesOf(p)
    /\ Discard(m)
    /\ makers' = [makers EXCEPT ![m] = AfterMaking(m)]
    /\ UNCHANGED <<phrases, jobs, worker, film, later, budget>>

(* One write: the phrase is asked for, the drafts take their names, the row *)
(* points at them.                                                          *)
Finish(m) ==
    /\ makers[m].pc = "making"
    /\ LET p == makers[m].phrase
       IN  \/ /\ Holds(p, makers[m].rev)
              /\ files' = Kept(p, makers[m].rev)
              /\ paths' = paths \cup NamesOf(p)
              /\ torn' = torn \ NamesOf(p)
              /\ makers' = [makers EXCEPT ![m] = AfterMaking(m)]
           \/ /\ ~Holds(p, makers[m].rev)
              /\ makers' = [makers EXCEPT ![m] = AfterMaking(m)]
              /\ UNCHANGED <<files, paths, torn>>
    /\ Discard(m)
    /\ UNCHANGED <<phrases, jobs, worker, film, later, budget>>

(* The drafts took their names and the write was not committed.             *)
FinishRolledBack(m) ==
    /\ makers[m].pc = "making"
    /\ Holds(makers[m].phrase, makers[m].rev)
    /\ Spend("faults")
    /\ files' = Kept(makers[m].phrase, makers[m].rev)
    /\ Discard(m)
    /\ makers' = [makers EXCEPT ![m] = Idle]
    /\ UNCHANGED <<rows, jobs, worker, film, later>>

GiveUp(m) ==
    /\ makers[m].pc = "making"
    /\ Discard(m)
    /\ makers' = [makers EXCEPT ![m] = Idle]
    /\ UNCHANGED <<rows, files, jobs, worker, film, later, budget>>

(* The worker takes the job off: completed, failed or gone already.         *)
SettledJobs == [p \in Phrases |-> IF jobs[p] = "running" THEN "none" ELSE jobs[p]]

Settle ==
    /\ worker \in Makers /\ makers[worker] = Idle
    /\ jobs' = SettledJobs
    /\ worker' = Nobody
    /\ UNCHANGED <<rows, disk, makers, film, later, budget>>

(* The thread goes on, with nobody waiting.                                 *)
TimeOut ==
    /\ worker \in Makers /\ makers[worker] # Idle
    /\ jobs' = SettledJobs
    /\ worker' = Nobody
    /\ UNCHANGED <<rows, disk, makers, film, later, budget>>

-----------------------------------------------------------------------------
(* The picture of a word, under a name of its own for every origin.         *)

Placed == paths \cap PictureNames

(* The card is read, and with it the picture to be replaced.                *)
Pick(m, n) ==
    /\ makers[m] = Idle
    /\ Spend("requests")
    /\ makers' = [makers EXCEPT ![m] = [pc |-> "placing", name |-> n, old |-> Placed]]
    /\ UNCHANGED <<rows, disk, jobs, worker, film, later>>

(* The file that is written and the one that is removed, inside the write.  *)
PictureWritten(m) ==
    files' = [n \in {makers[m].name} \cup (DOMAIN files \ makers[m].old) |->
                 IF n = makers[m].name THEN 1 ELSE files[n]]

Place(m) ==
    /\ makers[m].pc = "placing"
    /\ PictureWritten(m)
    /\ paths' = (paths \ PictureNames) \cup {makers[m].name}
    /\ torn' = torn \ PictureNames
    /\ makers' = [makers EXCEPT ![m] = Idle]
    /\ UNCHANGED <<phrases, drafts, jobs, worker, film, later, budget>>

(* The write is rolled back, the files are not: the row keeps the name of   *)
(* the picture that was replaced.                                           *)
PlaceRolledBack(m) ==
    /\ makers[m].pc = "placing"
    /\ Spend("faults")
    /\ PictureWritten(m)
    /\ torn' = torn \cup (Placed \ {makers[m].name})
    /\ makers' = [makers EXCEPT ![m] = Idle]
    /\ UNCHANGED <<phrases, paths, drafts, jobs, worker, film, later>>

-----------------------------------------------------------------------------
(* What takes files away.                                                   *)

NewText(p) ==
    /\ p \in DOMAIN phrases /\ phrases[p].rev < MaxRevision
    /\ Spend("changes")

(* A text or a piece of the source the user gives the phrase by hand, or a  *)
(* polish dropped as another is asked for: files and rows stay.             *)
Edit(p) ==
    /\ NewText(p)
    /\ phrases' = [phrases EXCEPT ![p].rev = @ + 1]
    /\ UNCHANGED <<paths, torn, disk, work, film, later>>

(* The phrase shows another text, AI's or the source's, as AI's answer      *)
(* lands or the user switches: the speech of the old one is forgotten, its  *)
(* file stays.                                                              *)
ShowAnother(p) ==
    /\ NewText(p)
    /\ phrases' = [phrases EXCEPT ![p].rev = @ + 1, ![p].reset = phrases[p].rev + 1]
    /\ paths' = paths \ {<<p, "speech">>}
    /\ torn' = torn \ {<<p, "speech">>}
    /\ UNCHANGED <<disk, work, film, later>>

(* The rows go and their files with them, once the write is committed.      *)
Forgotten(p, why) ==
    /\ paths' = paths \ NamesOf(p)
    /\ torn' = torn \ NamesOf(p)
    /\ leaving' = leaving \cup ({why} \X (paths \cap NamesOf(p)))

(* A rebuild cuts the phrase anew; its running job goes, a queued one       *)
(* follows.                                                                 *)
Recut(p) ==
    /\ NewText(p)
    /\ phrases' = [phrases EXCEPT ![p] =
                       [rev |-> @.rev + 1, cut |-> @.rev + 1, reset |-> @.rev + 1]]
    /\ Forgotten(p, "rebuild")
    /\ jobs' = [jobs EXCEPT ![p] = IF @ = "running" THEN "none" ELSE @]
    /\ UNCHANGED <<disk, worker, makers, film, tasks>>

Drop(p) ==
    /\ p \in DOMAIN phrases
    /\ Spend("changes")
    /\ phrases' = [q \in DOMAIN phrases \ {p} |-> phrases[q]]
    /\ Forgotten(p, "rebuild")
    /\ jobs' = [jobs EXCEPT ![p] = "none"]
    /\ UNCHANGED <<disk, worker, makers, film, tasks>>

CleanupKinds ==
    {{"screenshot", "picture"}, {"audio"}, {"screenshot", "audio", "picture"}}

(* Mutant: the files go with the write, which may be rolled back.           *)
CleanupAtOnce(kinds) ==
    LET gone == {n \in paths : n[2] \in kinds}
    IN  /\ gone # {}
        /\ Spend("changes")
        /\ files' = [n \in DOMAIN files \ gone |-> files[n]]
        /\ paths' \in {paths, paths \ gone}
        /\ torn' = torn \cap paths'
        /\ UNCHANGED <<phrases, drafts, work, film, later>>

(* The user frees room; the rows are cleared first.                         *)
Cleanup(kinds) ==
    LET gone == {n \in paths : n[2] \in kinds}
    IN  /\ gone # {}
        /\ Spend("changes")
        /\ paths' = paths \ gone
        /\ torn' = torn \ gone
        /\ leaving' = leaving \cup ({"cleanup"} \X gone)
        /\ UNCHANGED <<phrases, disk, work, film, tasks>>

(* The name may be in use again by now: the row that uses it is torn.       *)
Remove(why, n) ==
    /\ <<why, n>> \in leaving
    /\ leaving' = leaving \ {<<why, n>>}
    /\ files' = [f \in DOMAIN files \ {n} |-> files[f]]
    /\ torn' = torn \cup ({n} \cap paths)
    /\ UNCHANGED <<phrases, paths, drafts, work, film, tasks, budget>>

(* Outside the app, or a disk put back from a copy.                         *)
Lose(n) ==
    /\ n \in DOMAIN files
    /\ Spend("faults")
    /\ files' = [f \in DOMAIN files \ {n} |-> files[f]]
    /\ torn' = torn \cup ({n} \cap paths)
    /\ UNCHANGED <<phrases, paths, drafts, work, film, later>>

-----------------------------------------------------------------------------
(* The reconciler of missing files.                                         *)

(* Mutant: the pattern of file names knows only the frames.                 *)
HealsFrames(n) == n[2] = "screenshot"

(* The names the reconciler knows; a speech or a picture it leaves alone.   *)
Heals(n) == n[2] \in {"screenshot", "audio"}

Done(n) == tasks' = [t \in DOMAIN tasks \ {n} |-> tasks[t]]

(* A page asks for the file of a row and gets 404; one task per file.       *)
Ask(n) ==
    /\ n \in Lost /\ Heals(n) /\ n \notin DOMAIN tasks
    /\ tasks' = [t \in DOMAIN tasks \cup {n} |-> IF t = n THEN "look" ELSE tasks[t]]
    /\ UNCHANGED <<rows, disk, work, film, leaving, budget>>

Look(n) ==
    /\ n \in DOMAIN tasks /\ tasks[n] = "look"
    /\ \/ n \in DOMAIN files /\ Done(n)
       \/ n \notin DOMAIN files /\ tasks' = [tasks EXCEPT ![n] = "clear"]
    /\ UNCHANGED <<rows, disk, work, film, leaving, budget>>

Clear(n) ==
    /\ n \in DOMAIN tasks /\ tasks[n] = "clear"
    /\ paths' = paths \ {n}
    /\ torn' = torn \ {n}
    /\ Done(n)
    /\ UNCHANGED <<phrases, disk, work, film, leaving, budget>>

(* A long operation or an error keeps the write out; the task just ends.    *)
ClearRefused(n) ==
    /\ n \in DOMAIN tasks /\ tasks[n] = "clear"
    /\ Spend("faults")
    /\ Done(n)
    /\ UNCHANGED <<rows, disk, work, film, leaving>>

-----------------------------------------------------------------------------
(* Restarts.                                                                *)

Requeued == [p \in Phrases |-> IF jobs[p] = "running" THEN "queued" ELSE jobs[p]]

(* The worker alone: its threads are gone, their drafts stay.               *)
RestartWorker ==
    /\ worker # Nobody
    /\ Spend("faults")
    /\ jobs' = Requeued
    /\ worker' = Nobody
    /\ makers' = [m \in Makers |->
                     IF makers[m].pc \in {"cut", "delete"}
                         \/ (makers[m].pc = "making" /\ makers[m].job)
                     THEN Idle
                     ELSE makers[m]]
    /\ download' = IF download \in {"running", "stored"} THEN "queued" ELSE download
    /\ UNCHANGED <<rows, disk, video, videos, later>>

(* The start removes the drafts and the files no row points at of phrases   *)
(* that are gone.                                                           *)
IsOrphan(n) == n \notin paths \cup PictureNames /\ n[1] \notin DOMAIN phrases

(* Everything is started anew, the worker after the app.                    *)
Restart ==
    /\ Spend("faults")
    /\ files' = [n \in {f \in DOMAIN files : ~IsOrphan(f)} |-> files[n]]
    /\ drafts' = {}
    /\ jobs' = Requeued
    /\ worker' = Nobody
    /\ makers' = [m \in Makers |-> Idle]
    /\ download' = IF download \in {"running", "stored"} THEN "queued" ELSE download
    /\ leaving' = {} /\ tasks' = <<>>
    /\ UNCHANGED <<rows, video, videos>>

Next ==
    \/ RequestDownload \/ ClaimDownload \/ FetchVideo \/ StoreVideo \/ DownloadFails
    \/ \E m \in Makers : ForgetVideo(m) \/ DeleteVideo(m)
    \/ \E p \in Phrases : Request(p) \/ Cancel(p)
    \/ \E m \in Makers, p \in Phrases : Claim(m, p) \/ Regenerate(m, p)
    \/ \E m \in Makers : Finish(m) \/ FinishRolledBack(m) \/ GiveUp(m)
    \/ \E m \in Makers, n \in PictureNames : Pick(m, n)
    \/ \E m \in Makers : Place(m) \/ PlaceRolledBack(m)
    \/ Settle \/ TimeOut
    \/ \E p \in Phrases : Edit(p) \/ ShowAnother(p) \/ Recut(p) \/ Drop(p)
    \/ \E kinds \in CleanupKinds : Cleanup(kinds)
    \/ \E why \in {"cleanup", "rebuild"}, n \in Names : Remove(why, n)
    \/ \E n \in Names : Lose(n) \/ Ask(n) \/ Look(n) \/ Clear(n) \/ ClearRefused(n)
    \/ RestartWorker \/ Restart

Spec == Init /\ [][Next]_vars

(* The threads of the worker and of the app go on, and a page that shows a  *)
(* card asks for its files whenever it is opened.                           *)
Fairness ==
    /\ WF_vars(ClaimDownload \/ FetchVideo \/ StoreVideo \/ Settle)
    /\ \A m \in Makers :
           WF_vars(Finish(m) \/ ForgetVideo(m) \/ DeleteVideo(m) \/ \E p \in Phrases : Claim(m, p))
    /\ \A n \in Names :
           /\ WF_vars(Ask(n) \/ Look(n) \/ Clear(n))
           /\ \A why \in {"cleanup", "rebuild"} : WF_vars(Remove(why, n))

FairSpec == Spec /\ Fairness

-----------------------------------------------------------------------------
(* A row points at a file that is there, unless the file went outside the   *)
(* app or a name was taken again between the write that forgot it and the   *)
(* removal; the source points at a video that is there. Nothing is removed  *)
(* for a write that is rolled back, whatever crashes in between.            *)
RowsHaveFiles == TypeOK /\ Lost \subseteq torn /\ (video # 0 => video \in videos)

(* A frame and a clip a row points at are of the phrase's last cut; a       *)
(* speech is of the text it shows but for edits by hand: of none before the *)
(* last cut, switch or answer of AI. No row outlives its phrase.            *)
IsCurrent(n) ==
    LET phrase == phrases[n[1]]
    IN  files[n] >= (IF n[2] = "speech" THEN phrase.reset ELSE phrase.cut)

FilesAreCurrent ==
    \A n \in (paths \cap DOMAIN files) \ PictureNames :
        n[1] \in DOMAIN phrases /\ IsCurrent(n)

(* A row whose screenshot or clip is gone is cleared, or has its file       *)
(* again, as long as pages ask for it: refused writes and restarts only     *)
(* delay that.                                                              *)
LossesHeal ==
    \A n \in Filmed \X {"screenshot", "audio"} : n \in Lost ~> n \notin Lost

=============================================================================
