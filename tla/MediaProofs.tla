----------------------------- MODULE MediaProofs -----------------------------
(***************************************************************************)
(* Theorems about the files and the rows, for every set of phrases,        *)
(* pictures and threads and every bound.                                   *)
(***************************************************************************)
EXTENDS Media, TLAPS

-----------------------------------------------------------------------------
(* Type correctness.                                                       *)

(* A step of the budget stays within it.                                   *)
LEMMA SpendOK ==
  ASSUME TypeOK, NEW what \in {"videos", "requests", "changes", "faults"}, Spend(what)
  PROVE  /\ budget' \in [videos : 0 .. MaxVideos, requests : 0 .. MaxRequests,
                         changes : 0 .. MaxChanges, faults : 0 .. MaxFaults]
         /\ what # "videos" => budget'.videos = budget.videos
         /\ what = "videos" => budget.videos > 0 /\ budget'.videos = budget.videos - 1
BY MediaAssumption DEF TypeOK, Spend

(* The names of a phrase's files are names, and never those of a picture.  *)
LEMMA NamesOfAreNames ==
  /\ \A p \in Phrases : NamesOf(p) \subseteq Names /\ NamesOf(p) \cap PictureNames = {}
  /\ PictureNames \subseteq Names
<1>1. ASSUME NEW p \in Phrases PROVE NamesOf(p) \subseteq Names
  BY DEF Names
<1>2. ASSUME NEW p \in Phrases, NEW n \in NamesOf(p), n \in PictureNames PROVE FALSE
  <2>1. n[2] \in Kinds(p) /\ n[2] = "picture"
    BY <1>2 DEF NamesOf, PictureNames
  <2> QED BY <2>1 DEF Kinds
<1>3. PictureNames \subseteq Names
  BY DEF Names
<1> QED BY <1>1, <1>2, <1>3

(* The initial state has the types.                                        *)
LEMMA InitTypeOK == Init => TypeOK
<1> SUFFICES ASSUME Init PROVE TypeOK
  OBVIOUS
<1>1. phrases \in [Phrases -> Phrase]
  BY MediaAssumption DEF Init, Phrase
<1>2. DOMAIN phrases = Phrases
  BY DEF Init
<1>3. makers \in [Makers -> Maker]
  BY DEF Init, Maker
<1>4. files \in [{} -> 1 .. MaxRevision] /\ tasks \in [{} -> {"look", "clear"}]
  BY DEF Init
<1>5. budget \in [videos : 0 .. MaxVideos, requests : 0 .. MaxRequests,
                  changes : 0 .. MaxChanges, faults : 0 .. MaxFaults]
  BY MediaAssumption DEF Init
<1>6. jobs \in [Phrases -> {"none", "queued", "running"}]
  BY DEF Init
<1>7. video \in 0 .. MaxVideos /\ videos \subseteq 1 .. MaxVideos
  BY MediaAssumption DEF Init
<1> QED BY <1>1, <1>2, <1>3, <1>4, <1>5, <1>6, <1>7 DEF Init, TypeOK

(* The video's steps keep the types.                                       *)
LEMMA VideoTypeOK ==
  ASSUME TypeOK,
         \/ RequestDownload \/ ClaimDownload \/ FetchVideo \/ StoreVideo \/ DownloadFails
         \/ \E m \in Makers : ForgetVideo(m) \/ DeleteVideo(m)
  PROVE  TypeOK'
<1> USE MediaAssumption DEF rows, disk, work, film, later
<1>1. CASE RequestDownload
  BY <1>1 DEF RequestDownload, TypeOK
<1>2. CASE ClaimDownload
  BY <1>2 DEF ClaimDownload, TypeOK
<1>3. CASE FetchVideo
  <2>1. Spend("videos")
    BY <1>3 DEF FetchVideo
  <2>2. MaxVideos - budget.videos + 1 \in 1 .. MaxVideos
    BY <2>1, SpendOK DEF TypeOK
  <2> QED BY <1>3, <2>1, <2>2, SpendOK DEF FetchVideo, TypeOK
<1>4. CASE StoreVideo
  <2>1. MaxVideos - budget.videos \in 0 .. MaxVideos
    BY DEF TypeOK
  <2> QED BY <1>4, <2>1 DEF StoreVideo, TypeOK
<1>5. CASE DownloadFails
  BY <1>5 DEF DownloadFails, TypeOK
<1>6. ASSUME NEW m \in Makers, ForgetVideo(m) PROVE TypeOK'
  <2>1. Idle \in Maker
    BY DEF Maker
  <2>2. video # 0 => [pc |-> "delete", video |-> video] \in Maker
    BY DEF Maker, TypeOK
  <2>3. makers' \in [Makers -> Maker] /\ video' \in 0 .. MaxVideos
    BY <1>6, <2>1, <2>2 DEF ForgetVideo, TypeOK
  <2> QED BY <1>6, <2>3 DEF ForgetVideo, TypeOK
<1>7. ASSUME NEW m \in Makers, DeleteVideo(m) PROVE TypeOK'
  <2>1. Idle \in Maker
    BY DEF Maker
  <2> QED BY <1>7, <2>1 DEF DeleteVideo, TypeOK
<1> QED BY <1>1, <1>2, <1>3, <1>4, <1>5, <1>6, <1>7

(* A thread that makes files knows a phrase and its revision.              *)
LEMMA MakingOK ==
  ASSUME TypeOK, NEW p \in DOMAIN phrases, NEW job \in BOOLEAN
  PROVE  Making(p, job) \in Maker
<1>1. p \in Phrases /\ phrases[p].rev \in 1 .. MaxRevision
  BY DEF TypeOK, Phrase
<1> QED BY <1>1 DEF Making, Maker

(* What a thread that makes files is about.                                *)
LEMMA MakerIsMaking ==
  ASSUME TypeOK, NEW m \in Makers, makers[m].pc = "making"
  PROVE  /\ makers[m].phrase \in Phrases
         /\ makers[m].rev \in 1 .. MaxRevision
         /\ AfterMaking(m) \in Maker
<1>1. makers[m] \in Maker
  BY DEF TypeOK
<1>2. makers[m] \in [pc : {"making"}, phrase : Phrases, rev : 1 .. MaxRevision, job : BOOLEAN]
  BY <1>1 DEF Maker, Idle
<1>3. AfterMaking(m) \in Maker
  BY DEF AfterMaking, Maker
<1> QED BY <1>2, <1>3

(* The files kept for a phrase are typed.                                  *)
LEMMA KeptOK ==
  ASSUME TypeOK, NEW p \in Phrases, NEW rev \in 1 .. MaxRevision
  PROVE  /\ DOMAIN Kept(p, rev) = NamesOf(p) \cup DOMAIN files
         /\ \A n \in NamesOf(p) : Kept(p, rev)[n] = rev
         /\ \A n \in DOMAIN files \ NamesOf(p) : Kept(p, rev)[n] = files[n]
         /\ DOMAIN Kept(p, rev) \subseteq Names
         /\ Kept(p, rev) \in [DOMAIN Kept(p, rev) -> 1 .. MaxRevision]
<1> DEFINE ns == NamesOf(p)
<1>1. ns \subseteq Names
  BY NamesOfAreNames
<1>2. Kept(p, rev) = [n \in ns \cup DOMAIN files |-> IF n \in ns THEN rev ELSE files[n]]
  BY DEF Kept
<1> HIDE DEF ns
<1>3. \A n \in ns \cup DOMAIN files :
         (IF n \in ns THEN rev ELSE files[n]) \in 1 .. MaxRevision
  BY DEF TypeOK
<1> QED BY <1>1, <1>2, <1>3 DEF TypeOK, ns

(* A job in the queue is of a phrase there is: what is dropped takes its   *)
(* job along.                                                              *)
JobsHavePhrases == \A p \in Phrases : jobs[p] # "none" => p \in DOMAIN phrases

Sound == TypeOK /\ JobsHavePhrases

(* Making the files of a phrase keeps the types.                           *)
LEMMA MakingTypeOK ==
  ASSUME Sound, NEW m \in Makers,
         \/ \E p \in Phrases : Claim(m, p) \/ Regenerate(m, p)
         \/ Finish(m) \/ FinishRolledBack(m) \/ GiveUp(m)
  PROVE  TypeOK'
<1> USE DEF Sound, rows, disk, work, film, later
<1>0. Idle \in Maker
  BY DEF Maker
<1>1. ASSUME NEW p \in Phrases, Claim(m, p) PROVE TypeOK'
  <2>1. jobs[p] = "queued" /\ p \in DOMAIN phrases
    BY <1>1 DEF Claim, JobsHavePhrases
  <2>2. Making(p, TRUE) \in Maker
    BY <2>1, MakingOK
  <2>3. /\ makers' \in [Makers -> Maker]
        /\ jobs' \in [Phrases -> {"none", "queued", "running"}]
        /\ worker' \in Makers \cup {Nobody, Download}
    BY <1>1, <2>2 DEF Claim, TypeOK
  <2>4. drafts' = drafts \/ drafts' = drafts \cup {<<p, m>>}
    BY <1>1 DEF Claim
  <2>5. drafts' \subseteq Phrases \X Makers
    BY <2>4 DEF TypeOK
  <2> QED BY <1>1, <2>3, <2>5 DEF Claim, TypeOK
<1>2. ASSUME NEW p \in Phrases, Regenerate(m, p) PROVE TypeOK'
  <2>1. Making(p, FALSE) \in Maker
    BY <1>2, MakingOK DEF Regenerate
  <2>2. makers' \in [Makers -> Maker]
    BY <1>2, <2>1 DEF Regenerate, TypeOK
  <2>3. drafts' = drafts \cup {<<p, m>>}
    BY <1>2 DEF Regenerate
  <2>4. drafts' \subseteq Phrases \X Makers
    BY <2>3 DEF TypeOK
  <2> QED BY <1>2, <2>2, <2>4, SpendOK DEF Regenerate, TypeOK
<1>3. ASSUME makers[m].pc = "making"
      PROVE  /\ makers[m].phrase \in Phrases /\ AfterMaking(m) \in Maker
             /\ DOMAIN Kept(makers[m].phrase, makers[m].rev) \subseteq Names
             /\ Kept(makers[m].phrase, makers[m].rev) \in
                  [DOMAIN Kept(makers[m].phrase, makers[m].rev) -> 1 .. MaxRevision]
             /\ NamesOf(makers[m].phrase) \subseteq Names
  BY <1>3, MakerIsMaking, KeptOK, NamesOfAreNames
<1>4. CASE Finish(m)
  <2>1. /\ DOMAIN files' \subseteq Names
        /\ files' \in [DOMAIN files' -> 1 .. MaxRevision]
        /\ paths' \subseteq Names
        /\ torn' \subseteq Names
        /\ makers' \in [Makers -> Maker]
    BY <1>3, <1>4 DEF Finish, TypeOK
  <2> QED BY <1>4, <2>1 DEF Finish, Discard, TypeOK
<1>5. CASE FinishRolledBack(m)
  <2>1. /\ DOMAIN files' \subseteq Names
        /\ files' \in [DOMAIN files' -> 1 .. MaxRevision]
    BY <1>3, <1>5 DEF FinishRolledBack, TypeOK
  <2> QED BY <1>0, <1>5, <2>1, SpendOK DEF FinishRolledBack, Discard, TypeOK
<1>6. CASE GiveUp(m)
  BY <1>0, <1>6 DEF GiveUp, Discard, TypeOK
<1> QED BY <1>1, <1>2, <1>4, <1>5, <1>6

(* So do the requests, the end of a job and the word's picture.            *)
LEMMA WorkTypeOK ==
  ASSUME TypeOK,
         \/ \E p \in Phrases : Request(p) \/ Cancel(p)
         \/ \E m \in Makers, n \in PictureNames : Pick(m, n)
         \/ \E m \in Makers : Place(m) \/ PlaceRolledBack(m)
         \/ Settle \/ TimeOut
  PROVE  TypeOK'
<1> USE DEF rows, disk, work, film, later
<1>0. Idle \in Maker
  BY DEF Maker
<1>1. ASSUME NEW p \in Phrases, Request(p) PROVE TypeOK'
  BY <1>1, SpendOK DEF Request, TypeOK
<1>2. ASSUME NEW p \in Phrases, Cancel(p) PROVE TypeOK'
  BY <1>2 DEF Cancel, TypeOK
<1>3. ASSUME NEW m \in Makers, NEW n \in PictureNames, Pick(m, n) PROVE TypeOK'
  <2>1. [pc |-> "placing", name |-> n, old |-> Placed] \in Maker
    BY DEF Maker, Placed
  <2> QED BY <1>3, <2>1, SpendOK DEF Pick, TypeOK
<1>4. ASSUME NEW m \in Makers, makers[m].pc = "placing", PictureWritten(m)
      PROVE  /\ makers[m].name \in PictureNames
             /\ DOMAIN files' \subseteq Names
             /\ files' \in [DOMAIN files' -> 1 .. MaxRevision]
  <2>1. makers[m] \in Maker
    BY DEF TypeOK
  <2>2. makers[m].name \in PictureNames
    BY <1>4, <2>1 DEF Maker, Idle
  <2> QED BY <1>4, <2>2, NamesOfAreNames, MediaAssumption DEF PictureWritten, TypeOK
<1>5. ASSUME NEW m \in Makers, Place(m) PROVE TypeOK'
  BY <1>0, <1>4, <1>5, NamesOfAreNames DEF Place, TypeOK
<1>6. ASSUME NEW m \in Makers, PlaceRolledBack(m) PROVE TypeOK'
  BY <1>0, <1>4, <1>6, SpendOK, NamesOfAreNames DEF PlaceRolledBack, Placed, TypeOK
<1>7. CASE Settle \/ TimeOut
  BY <1>7 DEF Settle, TimeOut, SettledJobs, TypeOK
<1> QED BY <1>1, <1>2, <1>3, <1>5, <1>6, <1>7

(* So does what takes files away.                                          *)
LEMMA TakingTypeOK ==
  ASSUME TypeOK,
         \/ \E p \in Phrases : Edit(p) \/ ShowAnother(p) \/ Recut(p) \/ Drop(p)
         \/ \E kinds \in CleanupKinds : Cleanup(kinds)
         \/ \E why \in {"cleanup", "rebuild"}, n \in Names : Remove(why, n)
         \/ \E n \in Names : Lose(n)
  PROVE  TypeOK'
<1> USE DEF rows, disk, work, film, later
<1>1. ASSUME NEW p \in Phrases, Edit(p) PROVE TypeOK'
  <2>1. phrases' \in [DOMAIN phrases -> Phrase]
    BY <1>1, MediaAssumption DEF Edit, NewText, Phrase, TypeOK
  <2> QED BY <1>1, <2>1, SpendOK DEF Edit, NewText, TypeOK
<1>7. ASSUME NEW p \in Phrases, ShowAnother(p) PROVE TypeOK'
  <2>1. phrases' \in [DOMAIN phrases -> Phrase]
    BY <1>7, MediaAssumption DEF ShowAnother, NewText, Phrase, TypeOK
  <2> QED BY <1>7, <2>1, SpendOK DEF ShowAnother, NewText, TypeOK
<1>2. ASSUME NEW p \in Phrases, Recut(p) PROVE TypeOK'
  <2>1. phrases' \in [DOMAIN phrases -> Phrase]
    BY <1>2, MediaAssumption DEF Recut, NewText, Phrase, TypeOK
  <2> QED BY <1>2, <2>1, SpendOK DEF Recut, NewText, Forgotten, TypeOK
<1>3. ASSUME NEW p \in Phrases, Drop(p) PROVE TypeOK'
  BY <1>3, SpendOK DEF Drop, Forgotten, TypeOK
<1>4. ASSUME NEW kinds \in CleanupKinds, Cleanup(kinds) PROVE TypeOK'
  BY <1>4, SpendOK DEF Cleanup, TypeOK
<1>5. ASSUME NEW why \in {"cleanup", "rebuild"}, NEW n \in Names, Remove(why, n) PROVE TypeOK'
  BY <1>5 DEF Remove, TypeOK
<1>6. ASSUME NEW n \in Names, Lose(n) PROVE TypeOK'
  BY <1>6, SpendOK DEF Lose, TypeOK
<1> QED BY <1>1, <1>2, <1>3, <1>4, <1>5, <1>6, <1>7

(* So do the reconciler and a restart.                                     *)
LEMMA HealingTypeOK ==
  ASSUME TypeOK,
         \/ \E n \in Names : Ask(n) \/ Look(n) \/ Clear(n) \/ ClearRefused(n)
         \/ RestartWorker \/ Restart
  PROVE  TypeOK'
<1> USE DEF rows, disk, work, film, later
<1>0. Idle \in Maker
  BY DEF Maker
<1>1. ASSUME NEW n \in Names, Ask(n) PROVE TypeOK'
  BY <1>1 DEF Ask, TypeOK
<1>2. ASSUME NEW n \in Names, Look(n) PROVE TypeOK'
  BY <1>2 DEF Look, Done, TypeOK
<1>3. ASSUME NEW n \in Names, Clear(n) PROVE TypeOK'
  BY <1>3 DEF Clear, Done, TypeOK
<1>4. ASSUME NEW n \in Names, ClearRefused(n) PROVE TypeOK'
  BY <1>4, SpendOK DEF ClearRefused, Done, TypeOK
<1>5. CASE RestartWorker
  BY <1>0, <1>5, SpendOK DEF RestartWorker, Requeued, TypeOK
<1>6. CASE Restart
  <2>1. tasks' \in [{} -> {"look", "clear"}] /\ DOMAIN tasks' = {}
    BY <1>6 DEF Restart
  <2> QED BY <1>0, <1>6, <2>1, SpendOK DEF Restart, Requeued, TypeOK
<1> QED BY <1>1, <1>2, <1>3, <1>4, <1>5, <1>6

(* A job leaves the queue before its phrase goes.                          *)
LEMMA JobsKeepPhrases ==
  ASSUME Sound, [Next]_vars
  PROVE  JobsHavePhrases'
<1> USE DEF Sound, TypeOK, JobsHavePhrases, rows, disk, work, film, later
<1>1. CASE \/ RequestDownload \/ ClaimDownload \/ FetchVideo \/ StoreVideo \/ DownloadFails
           \/ \E m \in Makers : ForgetVideo(m) \/ DeleteVideo(m)
  BY <1>1 DEF RequestDownload, ClaimDownload, FetchVideo, StoreVideo, DownloadFails,
              ForgetVideo, DeleteVideo
<1>2. CASE \E p \in Phrases : Request(p) \/ Cancel(p)
  BY <1>2 DEF Request, Cancel
<1>3. CASE \E m \in Makers, p \in Phrases : Claim(m, p) \/ Regenerate(m, p)
  BY <1>3 DEF Claim, Regenerate
<1>4. CASE \E m \in Makers : Finish(m) \/ FinishRolledBack(m) \/ GiveUp(m)
  BY <1>4 DEF Finish, FinishRolledBack, GiveUp
<1>5. CASE \/ \E m \in Makers, n \in PictureNames : Pick(m, n)
           \/ \E m \in Makers : Place(m) \/ PlaceRolledBack(m)
  BY <1>5 DEF Pick, Place, PlaceRolledBack
<1>6. CASE Settle \/ TimeOut
  BY <1>6 DEF Settle, TimeOut, SettledJobs
<1>7. CASE \E p \in Phrases : Edit(p) \/ ShowAnother(p) \/ Recut(p) \/ Drop(p)
  BY <1>7 DEF Edit, ShowAnother, NewText, Recut, Drop, Forgotten
<1>8. CASE \/ \E kinds \in CleanupKinds : Cleanup(kinds)
           \/ \E why \in {"cleanup", "rebuild"}, n \in Names : Remove(why, n)
           \/ \E n \in Names : Lose(n) \/ Ask(n) \/ Look(n) \/ Clear(n) \/ ClearRefused(n)
  BY <1>8 DEF Cleanup, Remove, Lose, Ask, Look, Clear, ClearRefused
<1>9. CASE RestartWorker \/ Restart
  BY <1>9 DEF RestartWorker, Restart, Requeued
<1>10. CASE UNCHANGED vars
  BY <1>10 DEF vars
<1> QED BY <1>1, <1>2, <1>3, <1>4, <1>5, <1>6, <1>7, <1>8, <1>9, <1>10 DEF Next

(* Both together are inductive.                                            *)
LEMMA SoundAlways == Spec => []Sound
<1>1. Init => Sound
  BY InitTypeOK DEF Sound, JobsHavePhrases, Init
<1>2. Sound /\ [Next]_vars => Sound'
  <2> SUFFICES ASSUME Sound, [Next]_vars PROVE TypeOK'
    BY JobsKeepPhrases DEF Sound
  <2>1. CASE Next
    BY <2>1, VideoTypeOK, MakingTypeOK, WorkTypeOK, TakingTypeOK, HealingTypeOK
       DEF Sound, Next
  <2>2. CASE UNCHANGED vars
    BY <2>2 DEF Sound, TypeOK, vars, rows, disk, work, film, later
  <2> QED BY <2>1, <2>2
<1> QED BY <1>1, <1>2, PTL DEF Spec

-----------------------------------------------------------------------------
(* The downloaded video.                                                   *)

(* The videos are numbered as they come.                                   *)
Fetched == MaxVideos - budget.videos

(* A thread that removes a video removes one the source has forgotten, and *)
(* no later one: a video fetched while the thread stands has a file of its *)
(* own.                                                                    *)
VideosApart ==
    /\ video <= Fetched
    /\ video # 0 => video \in videos
    /\ download \in {"running", "stored"} => video = 0
    /\ download = "stored" => Fetched \in videos
    /\ \A m \in Makers : makers[m].pc = "delete" =>
          /\ makers[m].video <= Fetched
          /\ makers[m].video # video
          /\ download = "stored" => makers[m].video # Fetched

(* A step that leaves the video alone and starts no removal.               *)
FilmStays ==
    /\ film' = film /\ budget'.videos = budget.videos
    /\ \A m \in Makers : makers'[m].pc = "delete" => makers'[m] = makers[m]

(* It keeps them apart.                                                    *)
LEMMA FilmStaysApart ==
  ASSUME TypeOK, VideosApart, FilmStays
  PROVE  VideosApart'
BY DEF VideosApart, FilmStays, Fetched, film

(* A thread that has other work removes no video.                          *)
LEMMA OtherWork ==
  /\ Idle.pc # "delete"
  /\ \A p, job : Making(p, job).pc # "delete"
  /\ \A m : AfterMaking(m).pc # "delete"
BY DEF Idle, Making, AfterMaking

(* The steps that do not touch the video.                                  *)
LEMMA OthersLeaveFilm ==
  ASSUME TypeOK, Next,
         ~ \/ RequestDownload \/ ClaimDownload \/ FetchVideo \/ StoreVideo \/ DownloadFails
           \/ \E m \in Makers : ForgetVideo(m) \/ DeleteVideo(m)
           \/ RestartWorker \/ Restart
  PROVE  FilmStays
<1> USE OtherWork, SpendOK DEF FilmStays, film, work, disk, rows, later
<1>1. CASE \E p \in Phrases : Request(p) \/ Cancel(p)
  BY <1>1 DEF Request, Cancel
<1>2. ASSUME NEW m \in Makers, NEW p \in Phrases, Claim(m, p) \/ Regenerate(m, p)
      PROVE  FilmStays
  <2>1. \/ makers' = makers
        \/ \E job \in BOOLEAN : makers' = [makers EXCEPT ![m] = Making(p, job)]
    BY <1>2 DEF Claim, Regenerate
  <2>2. video' = video /\ videos' = videos /\ download' = download
        /\ budget'.videos = budget.videos
    BY <1>2 DEF Claim, Regenerate
  <2> QED BY <2>1, <2>2 DEF TypeOK
<1>3. CASE \E m \in Makers : Finish(m) \/ FinishRolledBack(m) \/ GiveUp(m)
  BY <1>3 DEF Finish, FinishRolledBack, GiveUp, TypeOK
<1>4. CASE \E m \in Makers, n \in PictureNames : Pick(m, n)
  BY <1>4 DEF Pick, TypeOK
<1>5. CASE \E m \in Makers : Place(m) \/ PlaceRolledBack(m)
  BY <1>5 DEF Place, PlaceRolledBack, TypeOK
<1>6. CASE Settle \/ TimeOut
  BY <1>6 DEF Settle, TimeOut
<1>7. CASE \E p \in Phrases : Edit(p) \/ ShowAnother(p) \/ Recut(p) \/ Drop(p)
  BY <1>7 DEF Edit, ShowAnother, NewText, Recut, Drop
<1>8. CASE \/ \E kinds \in CleanupKinds : Cleanup(kinds)
           \/ \E why \in {"cleanup", "rebuild"}, n \in Names : Remove(why, n)
           \/ \E n \in Names : Lose(n) \/ Ask(n) \/ Look(n) \/ Clear(n) \/ ClearRefused(n)
  BY <1>8 DEF Cleanup, Remove, Lose, Ask, Look, Clear, ClearRefused
<1> QED BY <1>1, <1>2, <1>3, <1>4, <1>5, <1>6, <1>7, <1>8 DEF Next

(* So the source never points at a video that is gone.                     *)
LEMMA VideosStayApart ==
  ASSUME TypeOK, VideosApart, [Next]_vars
  PROVE  VideosApart'
<1> USE MediaAssumption DEF TypeOK, VideosApart, Fetched, rows, disk, work, film, later
<1>1. CASE RequestDownload \/ ClaimDownload \/ StoreVideo \/ DownloadFails
  BY <1>1 DEF RequestDownload, ClaimDownload, StoreVideo, DownloadFails
<1>2. CASE FetchVideo
  <2>1. Fetched' = Fetched + 1 /\ Fetched \in Nat
    BY <1>2, SpendOK DEF FetchVideo
  <2>2. videos' = videos \cup {Fetched + 1} /\ download' = "stored"
        /\ video' = video /\ makers' = makers /\ video = 0
    BY <1>2 DEF FetchVideo
  <2>3. ASSUME NEW m \in Makers, makers[m].pc = "delete"
        PROVE  makers[m].video <= Fetched /\ makers[m].video \in Nat
    <3>1. makers[m] \in Maker
      OBVIOUS
    <3> QED BY <2>3, <3>1 DEF Maker, Idle
  <2> QED BY <2>1, <2>2, <2>3
<1>3. ASSUME NEW m \in Makers, ForgetVideo(m) PROVE VideosApart'
  <2>1. CASE video' = video
    BY <1>3, <2>1, OtherWork DEF ForgetVideo
  <2>2. CASE video' # video
    <3>1. /\ video # 0 /\ video' = 0 /\ videos' = videos /\ download' = download
          /\ budget' = budget
          /\ makers' = [makers EXCEPT ![m] = [pc |-> "delete", video |-> video]]
      BY <1>3, <2>2 DEF ForgetVideo
    <3>2. download \notin {"running", "stored"}
      BY <3>1
    <3>3. ASSUME NEW k \in Makers, makers'[k].pc = "delete"
          PROVE  makers'[k].video <= Fetched /\ makers'[k].video # 0
      <4>1. CASE k = m
        BY <3>1, <4>1
      <4>2. CASE k # m
        <5>1. makers'[k] = makers[k] /\ makers[k] \in Maker
          BY <3>1, <4>2
        <5> QED BY <3>3, <5>1 DEF Maker, Idle
      <4> QED BY <4>1, <4>2
    <3> QED BY <3>1, <3>2, <3>3
  <2> QED BY <2>1, <2>2
<1>4. ASSUME NEW m \in Makers, DeleteVideo(m) PROVE VideosApart'
  BY <1>4, OtherWork DEF DeleteVideo
<1>5. CASE RestartWorker
  BY <1>5, SpendOK, OtherWork DEF RestartWorker
<1>6. CASE Restart
  BY <1>6, SpendOK, OtherWork DEF Restart
<1>7. CASE UNCHANGED vars
  BY <1>7 DEF vars
<1> QED BY <1>1, <1>2, <1>3, <1>4, <1>5, <1>6, <1>7, OthersLeaveFilm, FilmStaysApart DEF Next

-----------------------------------------------------------------------------
(* The rows and their files.                                               *)

(* The phrase of a row is there, and its file is not of a text or a cut    *)
(* before the last that took the rows away.                                *)
RowFits(n) ==
    /\ n[1] \in DOMAIN phrases
    /\ n \in DOMAIN files => IsCurrent(n)

RowsFit ==
    /\ \A p \in DOMAIN phrases :
           phrases[p].cut <= phrases[p].rev /\ phrases[p].reset <= phrases[p].rev
    /\ \A n \in paths \ PictureNames : RowFits(n)

(* A name that is not of a picture is of its phrase.                       *)
LEMMA NameIsOfItsPhrase ==
  /\ \A n \in Names \ PictureNames : n[1] \in Phrases /\ n \in NamesOf(n[1])
  /\ \A p, n : n \in NamesOf(p) => n[1] = p
BY DEF Names, NamesOf

(* Rows and files go, and what stays is as it was.                         *)
LessLeft ==
    /\ phrases' = phrases
    /\ paths' \ PictureNames \subseteq paths
    /\ \A n \in paths' \ PictureNames :
           n \in DOMAIN files' => n \in DOMAIN files /\ files'[n] = files[n]

(* What stays still fits.                                                  *)
LEMMA LessStillFits ==
  ASSUME RowsFit, LessLeft
  PROVE  RowsFit'
BY DEF RowsFit, RowFits, LessLeft, IsCurrent

(* The files that are kept for a phrase at its revision fit its rows.      *)
LEMMA KeptFits ==
  ASSUME TypeOK, RowsFit, NEW p \in Phrases, NEW rev \in 1 .. MaxRevision,
         Holds(p, rev), phrases' = phrases, files' = Kept(p, rev),
         paths' \subseteq paths \cup NamesOf(p)
  PROVE  RowsFit'
<1> SUFFICES ASSUME NEW n \in paths' \ PictureNames PROVE RowFits(n)'
  BY DEF RowsFit
<1>1. p \in DOMAIN phrases /\ phrases[p].rev = rev
      /\ phrases[p].cut <= rev /\ phrases[p].reset <= rev
  BY DEF Holds, RowsFit
<1>2. CASE n \in NamesOf(p)
  <2>1. n[1] = p /\ files'[n] = rev
    <3>1. n[1] = p
      BY <1>2, NameIsOfItsPhrase
    <3>2. Kept(p, rev)[n] = rev
      BY <1>2, KeptOK
    <3> QED BY <3>1, <3>2
  <2>2. IsCurrent(n)'
    BY <1>1, <2>1 DEF IsCurrent
  <2> QED BY <1>1, <2>1, <2>2 DEF RowFits
<1>3. CASE n \notin NamesOf(p)
  <2>1. n \in paths
    BY <1>3
  <2>2. n \in DOMAIN files' => n \in DOMAIN files /\ files'[n] = files[n]
    BY <1>3, KeptOK
  <2> QED BY <2>1, <2>2 DEF RowFits, IsCurrent, RowsFit
<1> QED BY <1>2, <1>3

(* An edit by hand takes no row out of date; a phrase that shows another   *)
(* text, is cut anew or goes keeps none of the rows that are.              *)
LEMMA ChangedPhraseFits ==
  ASSUME TypeOK, RowsFit, NEW p \in Phrases, Edit(p) \/ ShowAnother(p) \/ Recut(p) \/ Drop(p)
  PROVE  RowsFit'
<1> USE DEF disk
<1>0. \A n \in paths \ PictureNames : n \in NamesOf(n[1])
  BY NameIsOfItsPhrase DEF TypeOK
<1>1. CASE Edit(p)
  <2>1. /\ files' = files /\ paths' = paths
        /\ phrases' = [phrases EXCEPT ![p].rev = @ + 1] /\ p \in DOMAIN phrases
    BY <1>1 DEF Edit, NewText
  <2>2. /\ DOMAIN phrases' = DOMAIN phrases
        /\ \A q \in DOMAIN phrases : /\ phrases'[q].cut = phrases[q].cut
                                     /\ phrases'[q].reset = phrases[q].reset
                                     /\ phrases'[q].rev >= phrases[q].rev
                                     /\ phrases[q] \in Phrase /\ phrases'[q].rev \in Int
    BY <2>1 DEF TypeOK, Phrase
  <2>3. ASSUME NEW n \in paths' \ PictureNames PROVE RowFits(n)'
    <3>1. RowFits(n)
      BY <2>1 DEF RowsFit
    <3> QED BY <2>1, <2>2, <3>1 DEF RowFits, IsCurrent
  <2>4. \A q \in DOMAIN phrases' :
           phrases'[q].cut <= phrases'[q].rev /\ phrases'[q].reset <= phrases'[q].rev
    BY <2>2 DEF RowsFit, Phrase
  <2> QED BY <2>3, <2>4 DEF RowsFit
<1>4. CASE ShowAnother(p)
  <2>1. /\ files' = files /\ paths' = paths \ {<<p, "speech">>}
        /\ phrases' = [phrases EXCEPT ![p].rev = @ + 1, ![p].reset = phrases[p].rev + 1]
        /\ p \in DOMAIN phrases
    BY <1>4 DEF ShowAnother, NewText
  <2>2. /\ DOMAIN phrases' = DOMAIN phrases
        /\ \A q \in DOMAIN phrases : phrases'[q].cut = phrases[q].cut
                                     /\ (q # p => phrases'[q] = phrases[q])
        /\ phrases'[p].rev = phrases[p].rev + 1
        /\ phrases'[p].reset = phrases[p].rev + 1
    BY <2>1 DEF TypeOK, Phrase
  <2>3. ASSUME NEW n \in paths' \ PictureNames PROVE RowFits(n)'
    <3>1. n \in paths \ PictureNames /\ n # <<p, "speech">> /\ n \in NamesOf(n[1])
      BY <1>0, <2>1
    <3>2. RowFits(n)
      BY <3>1 DEF RowsFit
    <3>3. n[1] = p => n[2] # "speech"
      BY <3>1 DEF NamesOf
    <3> QED BY <2>1, <2>2, <3>2, <3>3 DEF RowFits, IsCurrent
  <2>4. \A q \in DOMAIN phrases' :
           phrases'[q].cut <= phrases'[q].rev /\ phrases'[q].reset <= phrases'[q].rev
    BY <2>1, <2>2 DEF RowsFit, TypeOK, Phrase
  <2> QED BY <2>3, <2>4 DEF RowsFit
<1>2. CASE Recut(p)
  <2>1. /\ files' = files /\ paths' = paths \ NamesOf(p)
        /\ phrases' = [phrases EXCEPT ![p] =
                         [rev |-> @.rev + 1, cut |-> @.rev + 1, reset |-> @.rev + 1]]
        /\ p \in DOMAIN phrases
    BY <1>2 DEF Recut, NewText, Forgotten
  <2>2. /\ DOMAIN phrases' = DOMAIN phrases
        /\ \A q \in DOMAIN phrases \ {p} : phrases'[q] = phrases[q]
        /\ phrases'[p].cut = phrases'[p].rev
        /\ phrases'[p].reset = phrases'[p].rev
        /\ phrases'[p].rev \in Int
    BY <2>1 DEF TypeOK, Phrase
  <2>3. ASSUME NEW n \in paths' \ PictureNames PROVE RowFits(n)'
    <3>1. n \in paths \ PictureNames /\ n[1] # p
      BY <1>0, <2>1
    <3>2. RowFits(n)
      BY <3>1 DEF RowsFit
    <3> QED BY <2>1, <2>2, <3>1, <3>2 DEF RowFits, IsCurrent
  <2> QED BY <2>2, <2>3 DEF RowsFit
<1>3. CASE Drop(p)
  <2>1. /\ files' = files /\ paths' = paths \ NamesOf(p)
        /\ phrases' = [q \in DOMAIN phrases \ {p} |-> phrases[q]]
    BY <1>3 DEF Drop, Forgotten
  <2>3. ASSUME NEW n \in paths' \ PictureNames PROVE RowFits(n)'
    <3>1. n \in paths \ PictureNames /\ n[1] # p
      BY <1>0, <2>1
    <3>2. RowFits(n)
      BY <3>1 DEF RowsFit
    <3> QED BY <2>1, <3>1, <3>2 DEF RowFits, IsCurrent
  <2> QED BY <2>1, <2>3 DEF RowsFit
<1> QED BY <1>1, <1>2, <1>3, <1>4

(* What a thread finishes fits, and so does a picture.                     *)
LEMMA MadeFits ==
  ASSUME TypeOK, RowsFit, NEW m \in Makers,
         \/ Finish(m) \/ FinishRolledBack(m)
         \/ Place(m) \/ PlaceRolledBack(m)
  PROVE  RowsFit'
<1> USE DEF rows
<1>1. CASE Finish(m) /\ Holds(makers[m].phrase, makers[m].rev)
  <2>1. makers[m].phrase \in Phrases /\ makers[m].rev \in 1 .. MaxRevision
    BY <1>1, MakerIsMaking DEF Finish
  <2> QED BY <1>1, <2>1, KeptFits DEF Finish
<1>2. CASE Finish(m) /\ ~ Holds(makers[m].phrase, makers[m].rev)
  <2>1. UNCHANGED <<phrases, paths, files>>
    BY <1>2 DEF Finish
  <2> QED BY <2>1, LessStillFits DEF LessLeft
<1>3. CASE FinishRolledBack(m)
  <2>1. makers[m].phrase \in Phrases /\ makers[m].rev \in 1 .. MaxRevision
    BY <1>3, MakerIsMaking DEF FinishRolledBack
  <2> QED BY <1>3, <2>1, KeptFits DEF FinishRolledBack
<1>4. CASE Place(m) \/ PlaceRolledBack(m)
  <2>1. makers[m].pc = "placing" /\ makers[m] \in Maker
    BY <1>4 DEF Place, PlaceRolledBack, TypeOK
  <2>2. makers[m].name \in PictureNames
    BY <2>1 DEF Maker, Idle
  <2>3. PictureWritten(m) /\ phrases' = phrases
    BY <1>4 DEF Place, PlaceRolledBack
  <2>4. paths' \ PictureNames \subseteq paths
    BY <1>4, <2>2 DEF Place, PlaceRolledBack
  <2> QED BY <2>2, <2>3, <2>4, LessStillFits DEF LessLeft, PictureWritten
<1> QED BY <1>1, <1>2, <1>3, <1>4

(* The other steps only take away.                                         *)
LEMMA OthersLeaveLess ==
  ASSUME TypeOK, [Next]_vars,
         ~ \/ \E m \in Makers : Finish(m) \/ FinishRolledBack(m) \/ Place(m) \/ PlaceRolledBack(m)
           \/ \E p \in Phrases : Edit(p) \/ ShowAnother(p) \/ Recut(p) \/ Drop(p)
  PROVE  LessLeft
<1> USE DEF LessLeft, film, work, disk, rows, later
<1>1. CASE \/ RequestDownload \/ ClaimDownload \/ FetchVideo \/ StoreVideo \/ DownloadFails
           \/ \E m \in Makers : ForgetVideo(m) \/ DeleteVideo(m)
  BY <1>1 DEF RequestDownload, ClaimDownload, FetchVideo, StoreVideo, DownloadFails,
              ForgetVideo, DeleteVideo
<1>2. CASE \E p \in Phrases : Request(p) \/ Cancel(p)
  BY <1>2 DEF Request, Cancel
<1>3. CASE \E m \in Makers, p \in Phrases : Claim(m, p) \/ Regenerate(m, p)
  BY <1>3 DEF Claim, Regenerate
<1>4. CASE \/ \E m \in Makers : GiveUp(m)
           \/ \E m \in Makers, n \in PictureNames : Pick(m, n)
           \/ Settle \/ TimeOut
  BY <1>4 DEF GiveUp, Pick, Settle, TimeOut
<1>5. CASE \/ \E kinds \in CleanupKinds : Cleanup(kinds)
           \/ \E why \in {"cleanup", "rebuild"}, n \in Names : Remove(why, n)
  BY <1>5 DEF Cleanup, Remove
<1>6. CASE \E n \in Names : Lose(n) \/ Ask(n) \/ Look(n) \/ Clear(n) \/ ClearRefused(n)
  BY <1>6 DEF Lose, Ask, Look, Clear, ClearRefused
<1>7. CASE RestartWorker \/ Restart
  BY <1>7 DEF RestartWorker, Restart
<1>8. CASE UNCHANGED vars
  BY <1>8 DEF vars
<1> QED BY <1>1, <1>2, <1>3, <1>4, <1>5, <1>6, <1>7, <1>8 DEF Next

(* A row without its file is torn, whatever step was taken.                *)
LEMMA LostIsTorn ==
  ASSUME TypeOK, Lost \subseteq torn, [Next]_vars
  PROVE  (Lost \subseteq torn)'
<1> USE DEF Lost, film, work, disk, rows, later
<1>1. CASE \/ RequestDownload \/ ClaimDownload \/ FetchVideo \/ StoreVideo \/ DownloadFails
           \/ \E m \in Makers : ForgetVideo(m) \/ DeleteVideo(m)
  BY <1>1 DEF RequestDownload, ClaimDownload, FetchVideo, StoreVideo, DownloadFails,
              ForgetVideo, DeleteVideo
<1>2. CASE \E p \in Phrases : Request(p) \/ Cancel(p)
  BY <1>2 DEF Request, Cancel
<1>3. CASE \E m \in Makers, p \in Phrases : Claim(m, p) \/ Regenerate(m, p)
  BY <1>3 DEF Claim, Regenerate
<1>4. ASSUME NEW m \in Makers, Finish(m) \/ FinishRolledBack(m)
      PROVE  (Lost \subseteq torn)'
  <2>1. makers[m].phrase \in Phrases /\ makers[m].rev \in 1 .. MaxRevision
    BY <1>4, MakerIsMaking DEF Finish, FinishRolledBack
  <2>2. CASE UNCHANGED <<files, paths, torn>>
    BY <2>2
  <2>3. CASE /\ files' = Kept(makers[m].phrase, makers[m].rev)
             /\ paths' \ NamesOf(makers[m].phrase) \subseteq paths
             /\ torn \ NamesOf(makers[m].phrase) \subseteq torn'
    <3>1. DOMAIN files' = NamesOf(makers[m].phrase) \cup DOMAIN files
      BY <2>1, <2>3, KeptOK
    <3> QED BY <2>3, <3>1
  <2>4. CASE Finish(m)
    <3>1. CASE Holds(makers[m].phrase, makers[m].rev)
      BY <2>3, <2>4, <3>1 DEF Finish
    <3>2. CASE ~ Holds(makers[m].phrase, makers[m].rev)
      BY <2>2, <2>4, <3>2 DEF Finish
    <3> QED BY <3>1, <3>2
  <2>5. CASE FinishRolledBack(m)
    BY <2>3, <2>5 DEF FinishRolledBack
  <2> QED BY <1>4, <2>4, <2>5
<1>5. ASSUME NEW m \in Makers, Place(m) \/ PlaceRolledBack(m)
      PROVE  (Lost \subseteq torn)'
  <2>1. makers[m].pc = "placing" /\ makers[m] \in Maker
    BY <1>5 DEF Place, PlaceRolledBack, TypeOK
  <2>2. makers[m].name \in PictureNames /\ makers[m].old \subseteq PictureNames
    BY <2>1 DEF Maker, Idle
  <2> QED BY <1>5, <2>2 DEF Place, PlaceRolledBack, PictureWritten, Placed
<1>6. CASE \/ \E m \in Makers : GiveUp(m)
           \/ \E m \in Makers, n \in PictureNames : Pick(m, n)
           \/ Settle \/ TimeOut
  BY <1>6 DEF GiveUp, Pick, Settle, TimeOut
<1>7. CASE \E p \in Phrases : Edit(p) \/ ShowAnother(p) \/ Recut(p) \/ Drop(p)
  BY <1>7 DEF Edit, ShowAnother, NewText, Recut, Drop, Forgotten
<1>8. CASE \/ \E kinds \in CleanupKinds : Cleanup(kinds)
           \/ \E why \in {"cleanup", "rebuild"}, n \in Names : Remove(why, n)
  BY <1>8 DEF Cleanup, Remove
<1>9. CASE \E n \in Names : Lose(n) \/ Ask(n) \/ Look(n) \/ Clear(n) \/ ClearRefused(n)
  BY <1>9 DEF Lose, Ask, Look, Clear, ClearRefused
<1>10. CASE RestartWorker \/ Restart
  BY <1>10 DEF RestartWorker, Restart, IsOrphan
<1>11. CASE UNCHANGED vars
  BY <1>11 DEF vars
<1> QED BY <1>1, <1>2, <1>3, <1>4, <1>5, <1>6, <1>7, <1>8, <1>9, <1>10, <1>11 DEF Next

(* In every state a row has its file, but for the rows torn by a known     *)
(* race or from outside, and the source's video is there.                  *)
THEOREM RowsHaveFilesAlways == Spec => []RowsHaveFiles
<1> DEFINE Inv == VideosApart /\ Lost \subseteq torn
<1>1. Init => Inv
  BY MediaAssumption DEF Init, VideosApart, Fetched, Idle, Lost
<1>2. Inv /\ Sound /\ [Next]_vars => Inv'
  BY VideosStayApart, LostIsTorn DEF Sound
<1>3. Sound /\ Inv => RowsHaveFiles
  BY DEF Sound, VideosApart, RowsHaveFiles
<1> HIDE DEF Inv
<1> QED BY <1>1, <1>2, <1>3, SoundAlways, PTL DEF Spec

(* In every state the file of a row is of what its phrase is now, but for  *)
(* edits by hand that keep it.                                             *)
THEOREM FilesAreCurrentAlways == Spec => []FilesAreCurrent
<1>1. Init => RowsFit
  BY MediaAssumption DEF Init, RowsFit
<1>2. RowsFit /\ Sound /\ [Next]_vars => RowsFit'
  BY ChangedPhraseFits, MadeFits, OthersLeaveLess, LessStillFits DEF Sound
<1>3. RowsFit => FilesAreCurrent
  BY DEF RowsFit, RowFits, FilesAreCurrent
<1> QED BY <1>1, <1>2, <1>3, SoundAlways, PTL DEF Spec

=============================================================================
