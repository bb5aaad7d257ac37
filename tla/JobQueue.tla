------------------------------ MODULE JobQueue ------------------------------
(***************************************************************************)
(* The generation queue at work: the user's requests (app process), the    *)
(* one worker (JobWorker, its own process), the thread each claimed run    *)
(* works on, and the TTS subprocess, all meeting in the jobs table.        *)
(*                                                                         *)
(* One action is one transaction or one step between two of them.  A run   *)
(* keeps a copy of the rows it claimed; the table may change under it at   *)
(* every step.  A thread that outlived its run's timeout (Python cannot    *)
(* stop a thread) and a TTS subprocess that outlived a killed worker go on *)
(* with their program.                                                     *)
(***************************************************************************)
EXTENDS JobTable

CONSTANTS
    BatchTypes,   \* MEANING and POLISH: one AI call for the run's cards
    AITypes,      \* the types whose work may find the AI unavailable
    TTS,          \* the type that runs in a subprocess
    Stamps,       \* bound: the times a claim can be stamped with
    MaxLate,      \* bound: threads that outlived their run, at once
    MaxAsks,      \* bound: requests that put work in line
    MaxFaults     \* bound: worker stops and TTS deaths

ASSUME TypesAssumption ==
    /\ BatchTypes \subseteq Types
    /\ AITypes \subseteq Types
    /\ BatchTypes \subseteq AITypes
    /\ TTS \notin AITypes
    /\ Stamps \subseteq Nat \ {NotStarted}
    /\ MaxLate \in Nat
    /\ MaxAsks \in Nat
    /\ MaxFaults \in Nat

(* A TTS job is claimed alone: DEFAULT_RUN_LIMIT.                          *)
ASSUME SpeechAssumption == TTS \in Types => RunLimit[TTS] = 1

VARIABLES
    jobs,      \* the jobs table
    results,   \* the keys that have their result in the enrichment tables
    worker,    \* the worker's loop: where it stands and the run it claimed
    threads,   \* the work in progress: threads of the worker, TTS subprocesses
    asks,      \* requests made so far
    faults     \* faults so far

(* History, which no step reads.                                           *)
VARIABLES
    owed,      \* keys with a job put in line and neither answered nor given up
    recycled,  \* keys whose job got an id that a run in progress had claimed
    astray     \* keys a TTS subprocess claimed or settled after its worker was gone

vars == <<jobs, results, worker, threads, asks, faults,
          owed, recycled, astray>>
history == <<owed, recycled, astray>>

-----------------------------------------------------------------------------
NoRun == [i \in {} |-> i]

(* A thread of the worker, a TTS subprocess, or one whose worker is gone.  *)
Owners == {"worker", "tts", "orphan"}

ThreadPCs == {"start", "read", "asking", "answered", "filtered", "check",
              "ended", "claim"}
Outcomes == {"none", "done", "cancelled", "unavailable", "error"}

NewThread(owner, pc, run) ==
    [owner |-> owner, pc |-> pc, run |-> run, cards |-> {}, answers |-> {},
     outcome |-> "none"]

RunKeys(run) == {run[i].key : i \in DOMAIN run}
RunType(run) == TypeOf[run[CHOOSE i \in DOMAIN run : TRUE].key]

Idle == [pc |-> "idle", run |-> NoRun]

(* A thread the worker still waits for, and its successor.                 *)
Awaited(th) == /\ th.owner = "worker"
               /\ worker.pc = "waiting"
               /\ worker.run = th.run

Becomes(th, next) == threads' = (threads \ {th}) \cup {next}

(* The block of the claim is over, with an outcome: the worker picks it    *)
(* up, the TTS subprocess settles its own job, nobody hears a late thread. *)
EndsWith(th, outcome, unanswered) ==
    IF th.owner = "worker" /\ ~Awaited(th)
    THEN threads' = threads \ {th}
    ELSE Becomes(th, [th EXCEPT !.pc = "ended", !.outcome = outcome,
                                !.cards = {}, !.answers = unanswered])

(* A TTS subprocess exits with code 0: the worker waiting for it goes on.  *)
Exits(th) ==
    /\ threads' = threads \ {th}
    /\ worker' = IF th.owner = "tts" THEN Idle ELSE worker

-----------------------------------------------------------------------------
Init ==
    /\ jobs = NoRun
    /\ results = {}
    /\ worker = [pc |-> "down", run |-> NoRun]
    /\ threads = {}
    /\ asks = 0
    /\ faults = 0
    /\ owed = {}
    /\ recycled = {}
    /\ astray = {}

-----------------------------------------------------------------------------
(* The user's requests, each one write of the app.                         *)

(* The ids some run in progress took with its claim.                       *)
ClaimedIds == DOMAIN worker.run \cup UNION {DOMAIN th.run : th \in threads}

(* Work asked for: what was made before goes (a new meaning replaces the   *)
(* old one at once) and the keys no active job works on are queued.        *)
Ask(ks) ==
    /\ asks < MaxAsks
    /\ ks # {}
    /\ \E at \in Placings(jobs, Fresh(jobs, ks)) :
        /\ jobs' = Enqueue(jobs, at)
        /\ recycled' = (recycled \ Fresh(jobs, ks))
                          \cup {at[i] : i \in DOMAIN at \cap ClaimedIds}
    /\ results' = results \ ks
    /\ asks' = asks + 1
    /\ owed' = owed \cup Fresh(jobs, ks)
    /\ UNCHANGED <<worker, threads, faults, astray>>

(* What the queue screen and the cards select: everything, a type, a       *)
(* source, both, or one job.                                               *)
UserSelections ==
    [type : Types \cup {Any}, source : Sources \cup {Any}, id : {0}]
    \cup [type : {Any}, source : {Any}, id : DOMAIN jobs]

UserCancel(sel) ==
    LET gone == Selected(jobs, sel) \cap Active(jobs)
    IN  /\ gone # {}
        /\ jobs' = Cancel(jobs, gone)
        /\ owed' = owed \ KeysOf(jobs, gone)
        /\ UNCHANGED <<results, worker, threads, asks, faults, recycled, astray>>

UserDismiss(sel) ==
    LET gone == Selected(jobs, sel) \cap Failed(jobs)
    IN  /\ gone # {}
        /\ jobs' = Dismiss(jobs, gone)
        /\ owed' = owed \ KeysOf(jobs, gone)
        /\ UNCHANGED <<results, worker, threads, asks, faults, recycled, astray>>

UserRetry(sel) ==
    /\ asks < MaxAsks
    /\ Selected(jobs, sel) \cap Failed(jobs) # {}
    /\ jobs' = Retry(jobs, Selected(jobs, sel))
    /\ asks' = asks + 1
    /\ UNCHANGED <<results, worker, threads, faults, history>>

-----------------------------------------------------------------------------
(* The worker's loop.                                                      *)

StartAsLeft ==
    /\ worker.pc = "down"
    /\ worker' = Idle
    /\ UNCHANGED <<jobs, results, threads, asks, faults, history>>

(* Start: what was running is put back in line.                            *)
WorkerStart ==
    /\ worker.pc = "down"
    /\ worker' = Idle
    /\ jobs' = Requeue(jobs, DOMAIN jobs)
    /\ UNCHANGED <<results, threads, asks, faults, history>>

(* A claim is stamped with the time: no claim anybody remembers has it.    *)
Remembered == {jobs[i].started : i \in DOMAIN jobs}
    \cup UNION {{th.run[i].started : i \in DOMAIN th.run} : th \in threads}
    \cup {worker.run[i].started : i \in DOMAIN worker.run}

FreeStamps == Stamps \ Remembered
NewStamp == CHOOSE stamp \in FreeStamps : TRUE

(* The head run is claimed; a TTS job is handed to a new subprocess.       *)
ClaimRun ==
    /\ worker.pc = "idle"
    /\ Queued(jobs) # {}
    /\ FreeStamps # {}
    /\ LET ids == NextRun(jobs)
           table == Claimed(jobs, ids, NewStamp)
           run == ClaimOf(table, ids)
       IN  /\ jobs' = table
           /\ IF RunType(run) = TTS
              THEN /\ worker' = [pc |-> "tts", run |-> NoRun]
                   /\ threads' = threads \cup {NewThread("tts", "start", run)}
              ELSE /\ worker' = [pc |-> "waiting", run |-> run]
                   /\ threads' = threads \cup {NewThread("worker", "read", run)}
    /\ UNCHANGED <<results, asks, faults, history>>

(* Threads nobody waits for any more.                                      *)
Late == {th \in threads : th.owner = "worker" /\ ~Awaited(th)}

(* The deadline passed: the run's jobs fail, whatever the thread does then. *)
Timeout ==
    /\ worker.pc = "waiting"
    /\ Cardinality(Late) < MaxLate
    /\ worker' = [worker EXCEPT !.pc = "timedOut"]
    /\ threads' = {th \in threads : ~(Awaited(th) /\ th.pc = "ended")}
    /\ UNCHANGED <<jobs, results, asks, faults, history>>

ForgetTimedOut ==
    /\ worker.pc = "timedOut"
    /\ worker' = Idle
    /\ UNCHANGED <<jobs, results, threads, asks, faults, history>>

FailTimedOut ==
    /\ worker.pc = "timedOut"
    /\ jobs' = Fail(jobs, DOMAIN worker.run)
    /\ worker' = Idle
    /\ UNCHANGED <<results, threads, asks, faults, history>>

(* The thread returned or raised: the worker writes what it means.         *)
Settle(th) ==
    /\ Awaited(th)
    /\ th.pc = "ended"
    /\ threads' = threads \ {th}
    /\ \/ /\ th.outcome = "cancelled"
          /\ worker' = Idle
          /\ UNCHANGED jobs
       \/ /\ th.outcome = "unavailable"
          /\ jobs' = Requeue(jobs, DOMAIN th.run)
          /\ worker' = Idle
       \/ /\ th.outcome = "error"
          /\ jobs' = Fail(jobs, DOMAIN th.run)
          /\ worker' = Idle
       \/ /\ th.outcome = "done"
          /\ LET failed == {i \in DOMAIN th.run : th.run[i].key \in th.answers}
                 answered == [i \in DOMAIN th.run \ failed |-> th.run[i]]
             IN  IF failed = {}
                 THEN /\ jobs' = Complete(jobs, answered)
                      /\ worker' = Idle
                 ELSE /\ jobs' = Fail(jobs, failed)
                      /\ worker' = [pc |-> "completing", run |-> answered]
    /\ UNCHANGED <<results, asks, faults, history>>

(* The second write of a run that left some cards unanswered.              *)
CompleteRest ==
    /\ worker.pc = "completing"
    /\ jobs' = Complete(jobs, worker.run)
    /\ worker' = Idle
    /\ UNCHANGED <<results, threads, asks, faults, history>>

-----------------------------------------------------------------------------
(* The work of a claimed run, in a thread or in the TTS subprocess.        *)

IsBatch(th) == RunType(th.run) \in BatchTypes

(* The TTS subprocess reads the job it was spawned for; one that is not    *)
(* RUNNING any more was cancelled before the subprocess started.           *)
ReadFirstJob(th) ==
    /\ th.pc = "start"
    /\ LET i == CHOOSE id \in DOMAIN th.run : TRUE
       IN  IF i \in Running(jobs)
           THEN /\ Becomes(th, [th EXCEPT !.pc = "read",
                                          !.run = ClaimOf(jobs, {i})])
                /\ UNCHANGED worker
           ELSE Exits(th)
    /\ UNCHANGED <<jobs, results, asks, faults, history>>

(* The cards the run works on: a batch leaves out the ones that have their *)
(* result; a TTS subprocess voices nothing for a job of another type.      *)
ReadCards(th) ==
    /\ th.pc = "read"
    /\ LET cards == IF th.owner = "worker"
                    THEN IF IsBatch(th) THEN RunKeys(th.run) \ results
                                        ELSE RunKeys(th.run)
                    ELSE {k \in RunKeys(th.run) : TypeOf[k] = TTS}
       IN  Becomes(th, [th EXCEPT !.cards = cards,
                                  !.pc = IF cards = {} THEN "check" ELSE "asking"])
    /\ UNCHANGED <<jobs, results, worker, asks, faults, history>>

(* The slow part, outside any transaction: the AI or the generator answers *)
(* (a batch answer may miss cards), fails, or is not there at all, as often *)
(* as it is asked.                                                         *)
Answer(th) ==
    /\ th.pc = "asking"
    /\ \E answers \in IF IsBatch(th) THEN SUBSET th.cards ELSE {th.cards} :
        Becomes(th, [th EXCEPT !.answers = answers,
                               !.pc = IF IsBatch(th) THEN "answered" ELSE "filtered"])
    /\ UNCHANGED <<jobs, results, worker, asks, faults, history>>

Break(th) ==
    /\ th.pc = "asking"
    /\ EndsWith(th, "error", {})
    /\ UNCHANGED <<jobs, results, worker, asks, faults, history>>

FindNoAI(th) ==
    /\ th.pc = "asking"
    /\ RunType(th.run) \in AITypes
    /\ EndsWith(th, "unavailable", {})
    /\ UNCHANGED <<jobs, results, worker, asks, faults, history>>

(* still_wanted: the cards whose jobs are still claimed, read on a session *)
(* of its own once the answer is there.                                    *)
KeepWanted(th) ==
    /\ th.pc = "answered"
    /\ LET claimed == KeysOf(jobs, StillClaimed(jobs, th.run))
       IN  Becomes(th, [th EXCEPT !.cards = @ \cap claimed, !.pc = "filtered"])
    /\ UNCHANGED <<jobs, results, worker, asks, faults, history>>

(* The write of the results: it commits only while some job of the run is  *)
(* still claimed, and rolls back otherwise.                                *)
Commit(th) ==
    /\ th.pc = "filtered"
    /\ IF StillClaimed(jobs, th.run) = {}
       THEN /\ EndsWith(th, "cancelled", {})
            /\ UNCHANGED <<results, owed>>
       ELSE LET written == th.cards \cap th.answers
            IN  /\ results' = results \cup written
                /\ owed' = owed \ written
                /\ Becomes(th, [th EXCEPT !.pc = "check", !.cards = {},
                                          !.answers = th.cards \ th.answers])
    /\ UNCHANGED <<jobs, worker, asks, faults, recycled, astray>>

(* The last look of the claim's block: all jobs gone means cancelled.      *)
FinalCheck(th) ==
    /\ th.pc = "check"
    /\ IF StillClaimed(jobs, th.run) = {}
       THEN EndsWith(th, "cancelled", {})
       ELSE EndsWith(th, "done", th.answers)
    /\ UNCHANGED <<jobs, results, worker, asks, faults, history>>

-----------------------------------------------------------------------------
(* The TTS subprocess settles its own jobs and takes the next one while    *)
(* the head of the queue is TTS and its worker is alive.                   *)

SettleTts(th) ==
    /\ th.owner # "worker"
    /\ th.pc = "ended"
    /\ jobs' = CASE th.outcome = "done"      -> Complete(jobs, th.run)
                 [] th.outcome = "cancelled" -> jobs
                 [] OTHER                    -> Fail(jobs, DOMAIN th.run)
    /\ IF th.owner = "tts"
       THEN /\ Becomes(th, NewThread("tts", "claim", NoRun))
            /\ UNCHANGED <<worker, astray>>
       ELSE /\ Exits(th)
            /\ astray' = astray \cup RunKeys(th.run)
    /\ UNCHANGED <<results, asks, faults, owed, recycled>>

ClaimTts(th) ==
    /\ th.pc = "claim"
    /\ FreeStamps # {}
    /\ IF Queued(jobs) # {} /\ TypeOf[jobs[HeadOf(jobs)].key] = TTS
       THEN LET table == Claimed(jobs, {HeadOf(jobs)}, NewStamp)
            IN  /\ jobs' = table
                /\ Becomes(th, NewThread(th.owner, "read",
                                         ClaimOf(table, {HeadOf(jobs)})))
                /\ astray' = IF th.owner = "orphan"
                             THEN astray \cup {jobs[HeadOf(jobs)].key} ELSE astray
                /\ UNCHANGED worker
       ELSE /\ Exits(th)
            /\ UNCHANGED <<jobs, astray>>
    /\ UNCHANGED <<results, asks, faults, owed, recycled>>

(* The worker fails what the dead subprocess left running.                 *)
FailTts ==
    /\ worker.pc = "ttsDead"
    /\ jobs' = FailRunning(jobs, TTS)
    /\ worker' = Idle
    /\ UNCHANGED <<results, threads, asks, faults, history>>

-----------------------------------------------------------------------------
(* Faults.                                                                 *)

TtsDies(th) ==
    /\ th.owner # "worker"
    /\ faults < MaxFaults
    /\ faults' = faults + 1
    /\ threads' = threads \ {th}
    /\ worker' = IF th.owner = "tts" THEN [worker EXCEPT !.pc = "ttsDead"] ELSE worker
    /\ UNCHANGED <<jobs, results, asks, history>>

(* Killed: its threads end with it, its TTS subprocess does not.           *)
WorkerDies ==
    /\ worker.pc # "down"
    /\ faults < MaxFaults
    /\ faults' = faults + 1
    /\ worker' = [pc |-> "down", run |-> NoRun]
    /\ threads' = {[th EXCEPT !.owner = "orphan"] :
                      th \in {t \in threads : t.owner # "worker"}}
    /\ UNCHANGED <<jobs, results, asks, history>>

(* Asked to stop: between two runs, or in the middle of the TTS run, whose *)
(* subprocess it terminates and whose job it leaves to the next start.     *)
WorkerStops ==
    /\ worker.pc \in {"idle", "tts"}
    /\ faults < MaxFaults
    /\ faults' = faults + 1
    /\ worker' = [pc |-> "down", run |-> NoRun]
    /\ threads' = {th \in threads : th.owner # "tts"}
    /\ UNCHANGED <<jobs, results, asks, history>>

-----------------------------------------------------------------------------
User ==
    \/ \E ks \in SUBSET Keys : Ask(ks)
    \/ \E sel \in UserSelections :
        UserCancel(sel) \/ UserDismiss(sel) \/ UserRetry(sel)

WorkerStep ==
    \/ WorkerStart \/ ClaimRun \/ FailTimedOut \/ CompleteRest \/ FailTts
    \/ \E th \in threads : Settle(th)

Work(th) == Answer(th) \/ Break(th) \/ FindNoAI(th)

ThreadStep(th) ==
    \/ ReadFirstJob(th) \/ ReadCards(th) \/ KeepWanted(th) \/ Commit(th)
    \/ FinalCheck(th) \/ SettleTts(th) \/ ClaimTts(th)

Fault ==
    \/ WorkerDies \/ WorkerStops
    \/ \E th \in threads : TtsDies(th)

Next ==
    \/ User
    \/ WorkerStep
    \/ Timeout
    \/ \E th \in threads : Work(th) \/ ThreadStep(th)
    \/ Fault

Spec == Init /\ [][Next]_vars

(* The worker's loop never stops between two of its steps, a transaction   *)
(* ends, and a run ends or is timed out.  A TTS subprocess has no deadline *)
(* in the code: that its generator returns is assumed.  Nothing is assumed *)
(* of the users, of the faults, of the AI, or of who starts a worker again. *)
Fairness ==
    /\ WF_vars(ClaimRun)
    /\ WF_vars(FailTimedOut \/ CompleteRest \/ FailTts)
    /\ WF_vars(\E th \in threads : Settle(th))
    /\ WF_vars(\E th \in threads : ThreadStep(th))
    /\ WF_vars(Timeout \/ \E th \in threads : Awaited(th) /\ Work(th))
    /\ WF_vars(\E th \in threads : th.owner # "worker" /\ Work(th))

FairSpec == Spec /\ Fairness

-----------------------------------------------------------------------------
(* Properties.                                                             *)

IsRun(run) == /\ DOMAIN run \subseteq JobIds
              /\ run \in [DOMAIN run -> Claim]

IsWorker ==
    /\ worker \in [pc : {"down", "idle", "waiting", "timedOut", "completing",
                        "tts", "ttsDead"},
                  run : {worker.run}]
    /\ IsRun(worker.run)

IsThread(th) ==
    /\ th \in [owner : Owners, pc : ThreadPCs, run : {th.run},
               cards : SUBSET Keys, answers : SUBSET Keys, outcome : Outcomes]
    /\ IsRun(th.run)

(* Every variable keeps its type; the table stays finite, its ids positive. *)
TypeOK ==
    /\ TableOK(jobs)
    /\ results \subseteq Keys
    /\ IsWorker
    /\ \A th \in threads : IsThread(th)
    /\ asks \in Nat
    /\ faults \in Nat
    /\ owed \subseteq Keys /\ recycled \subseteq Keys /\ astray \subseteq Keys

(* The queue holds at most one job per key, active or failed: a key is     *)
(* never worked on twice, and a failure never outlives newer work of the   *)
(* same key (the contract of the JobRepository port).                      *)
OneJobPerKey == OneRowPerKey(jobs)

(* The claims somebody still acts on: the worker's loop or a subprocess.   *)
Holds(run, i) == i \in DOMAIN run /\ run[i].started = jobs[i].started

Attended(i) ==
    \/ Holds(worker.run, i)
    \/ \E th \in threads : th.owner # "worker" /\ Holds(th.run, i)
    \/ worker.pc \in {"tts", "ttsDead"} /\ TypeOf[jobs[i].key] = TTS

(* No RUNNING job is forgotten: while a worker is up, each one is held by  *)
(* the worker's loop or by a TTS subprocess that will complete, fail or    *)
(* requeue it.  Only the next worker start frees a job nobody holds.       *)
RunningIsAttended ==
    worker.pc # "down" =>
        \A i \in Running(jobs) : jobs[i].key \in astray \/ Attended(i)

(* A job in line stays in the table until its result is there or the user  *)
(* cancels or dismisses it; the one exception is a job given the id of a   *)
(* row that a run in progress had claimed and the user had cancelled.      *)
JobStaysUntilAnswered ==
    \A k \in owed \ (recycled \cup astray) : HasRow(jobs, k)

(* One live claim per job: a thread that outlived its run's timeout has    *)
(* lost its jobs for good, also once they are retried and claimed again,   *)
(* so two threads of the worker never write the same key.                  *)
OneLiveClaim ==
    \A th1, th2 \in threads :
        \/ th1 = th2
        \/ "orphan" \in {th1.owner, th2.owner}
        \/ StillClaimed(jobs, th1.run) \cap StillClaimed(jobs, th2.run) = {}

IsActive(k) == k \in KeysOf(jobs, Active(jobs))

(* A run came back from an AI that is not there, and goes back in line.    *)
FoundNoAI == \E th \in threads : th.outcome = "unavailable"

(* Once the AI stays, every job in line is served: answered, failed or     *)
(* cancelled, as long as the worker is up.  However often the AI was away  *)
(* before, its jobs resume on their own, and nothing that stays RUNNING    *)
(* stops the queue.  The premise is needed: "the queue waits for the AI"   *)
(* (_process_one_job), with the run it put back at its head and all jobs   *)
(* behind it, those included that need no AI.                              *)
EveryJobIsServed ==
    <>[]~FoundNoAI =>
        \A k \in Keys : IsActive(k) ~> (~IsActive(k) \/ worker.pc = "down")

=============================================================================
