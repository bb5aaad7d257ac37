---------------------------- MODULE LongOperation ----------------------------
(***************************************************************************)
(* Long operations of the app process: processing, Update, Re-cut, Refresh *)
(* and a level change.  One is started by a request, which takes the lock  *)
(* that keeps every other write out (a database row), and then runs on a   *)
(* thread of its own: it prepares each source outside any transaction and  *)
(* applies them in one write that drops the lock too.                      *)
(*                                                                         *)
(* Beside it live the previews, which hold one source at a time by a row   *)
(* of their own, the build of the calibration index, every other write of  *)
(* the app and of the worker, and the user, who may cancel.  The progress  *)
(* and the registry of operations are in memory and end with the app.      *)
(***************************************************************************)
EXTENDS Integers, FiniteSets

CONSTANTS
    Sources,
    Requests,     \* requests of a long operation
    Registered,   \* of these, Update, Re-cut and Refresh of a set of sources
    LevelChanges, \* of these, level changes: one failed source fails them
    Previews,     \* requests of a preview of a set of sources
    Scopes,       \* the sets of sources, as the registry's tokens
    ScopeOf,      \* the set a registered operation or a preview is about
    Members,      \* the sources of a set
    Nobody,       \* no operation
    Build,        \* the build of the calibration index
    MaxBuilds,    \* bound: 1 with a build of the index, 0 without
    MaxFaults     \* bound: crashes of the app and failures of the database

ASSUME RequestsAssumption ==
    /\ Registered \subseteq Requests
    /\ LevelChanges \subseteq Requests
    /\ Registered \cap LevelChanges = {}
    /\ Previews \cap Requests = {}
    /\ ScopeOf \in [Registered \cup Previews -> Scopes]
    /\ Members \in [Scopes -> SUBSET Sources]
    /\ Nobody \notin Requests \cup Previews \cup {Build}
    /\ Build \notin Requests \cup Previews
    /\ MaxBuilds \in {0, 1}
    /\ MaxFaults \in Nat

VARIABLES
    lock,      \* the long operation lock is held (a row of the database)
    busy,      \* the sources held by a preview (rows of the database)
    changed,   \* the operations that changed something by their commit
    tx,        \* who has a long write transaction open
    up,        \* the app runs
    progress,  \* the progress of the long operation of this process
    last,      \* the registry: the last operation started on each set
    op,        \* the long operations
    preview,   \* the previews
    build,     \* where the build of the index stands
    faults     \* faults so far

(* History, which no step reads.                                           *)
VARIABLES
    asked,     \* operations in progress when a cancel was accepted
    intruded,  \* operations during which somebody else's write landed
    stepped    \* operations that met another one: begun beside it, or in
               \* progress when it began, dropped the lock or told its end,
               \* or shown when another one told its end

db == <<lock, busy, changed, tx>>
memory == <<progress, last>>
history == <<asked, intruded, stepped>>
vars == <<lock, busy, changed, tx, up, progress, last, op, preview, build,
          faults, asked, intruded, stepped>>

-----------------------------------------------------------------------------
Stages == {"analyse", "apply", "finish"}
Outcomes == {"none", "succeeded", "cancelled", "failed"}

(* An operation's places: in the request, on its thread, in the launcher   *)
(* once the thread raised, and over.                                       *)
StartPCs == {"starting", "looking", "locking"}
HoldPCs == {"reading", "preparing", "applying", "finishing"}
EndPCs == {"cancelling", "cancelled", "failing", "failed", "committed"}
LauncherPCs == {"raised", "released"}
OverPCs == {"new", "refused", "ended", "dead"}
OpPCs == StartPCs \cup HoldPCs \cup EndPCs \cup LauncherPCs \cup OverPCs

Op == [pc : OpPCs, todo : SUBSET Sources, prepared : SUBSET Sources,
       failed : SUBSET Sources]

NewOp == [pc |-> "new", todo |-> {}, prepared |-> {}, failed |-> {}]

(* The one progress of the process: what it shows is of the operation that *)
(* began last (operation_id), with the outcome that was told last.         *)
NoProgress == [id |-> Nobody, running |-> FALSE, cancel |-> FALSE,
               stage |-> "analyse", outcome |-> "none"]

Progress == [id : Requests \cup {Nobody}, running : BOOLEAN, cancel : BOOLEAN,
             stage : Stages, outcome : Outcomes]

(* Between two sources, analysing one, or about to free it.                *)
PreviewPCs == {"next", "analysing", "counted", "broken"} \cup OverPCs

Preview == [pc : PreviewPCs, left : SUBSET Sources, source : Sources \cup {Nobody}]

NewPreview == [pc |-> "new", left |-> {}, source |-> Nobody]

Goes(r, pc) == op' = [op EXCEPT ![r].pc = pc]

(* The lock is meant to be the operation's.                                *)
Holds(r) == op[r].pc \in HoldPCs

(* The progress is meant to be the operation's.                            *)
InProgress(r) ==
    op[r].pc \in {"looking", "locking"} \cup HoldPCs \cup EndPCs

Others(r) == {q \in Requests \ {r} : InProgress(q)}

Active(p) == preview[p].pc \notin OverPCs

-----------------------------------------------------------------------------
Init ==
    /\ lock = FALSE
    /\ busy = {}
    /\ changed = {}
    /\ tx = Nobody
    /\ up = TRUE
    /\ progress = NoProgress
    /\ last = [scope \in Scopes |-> Nobody]
    /\ op = [r \in Requests |-> NewOp]
    /\ preview = [p \in Previews |-> NewPreview]
    /\ build = "new"
    /\ faults = 0
    /\ asked = {}
    /\ intruded = {}
    /\ stepped = {}

-----------------------------------------------------------------------------
(* The request that starts an operation.                                   *)

(* The routes of the sources' operations and of the build run on the event *)
(* loop from their checks to their answer, one at a time; a level change   *)
(* comes by a route of the thread pool.                                    *)
LoopIsFree ==
    /\ \A r \in Requests \ LevelChanges : op[r].pc \notin StartPCs
    /\ build # "checked"

(* Some source of the set is free; the operation becomes the set's last.   *)
Ask(r) ==
    /\ up
    /\ op[r].pc = "new"
    /\ r \in LevelChanges \/ LoopIsFree
    /\ IF r \in Registered
       THEN /\ ~(Members[ScopeOf[r]] \subseteq busy)
            /\ last' = [last EXCEPT ![ScopeOf[r]] = r]
       ELSE UNCHANGED last
    /\ Goes(r, "starting")
    /\ UNCHANGED <<db, up, progress, preview, build, faults, history>>

(* Refused: the registry forgets it, if it is still the set's last.        *)
Forgotten(r) ==
    [scope \in Scopes |-> IF last[scope] = r THEN Nobody ELSE last[scope]]

TryStart(r) ==
    /\ op[r].pc = "starting"
    /\ IF progress.running
       THEN /\ Goes(r, "refused")
            /\ last' = Forgotten(r)
            /\ UNCHANGED <<progress, stepped>>
       ELSE /\ Goes(r, "looking")
            /\ progress' = [NoProgress EXCEPT !.id = r, !.running = TRUE]
            /\ stepped' = IF Others(r) = {} THEN stepped
                          ELSE stepped \cup Others(r) \cup {r}
            /\ UNCHANGED last
    /\ UNCHANGED <<db, up, preview, build, faults, asked, intruded>>

PreviewRunning ==
    \E scope \in Scopes : last[scope] \in Previews /\ Active(last[scope])

AnyRunning == PreviewRunning \/ build \in {"tracked", "writing"}

(* abandon: nothing ran, nothing to tell.                                  *)
Abandons(r) ==
    /\ Goes(r, "refused")
    /\ progress' = [progress EXCEPT !.running = FALSE]
    /\ last' = Forgotten(r)

LookAround(r) ==
    /\ op[r].pc = "looking"
    /\ IF AnyRunning
       THEN Abandons(r)
       ELSE Goes(r, "locking") /\ UNCHANGED memory
    /\ UNCHANGED <<db, up, preview, build, faults, history>>

TakesLock(r) ==
    /\ lock' = TRUE
    /\ Goes(r, "reading")
    /\ UNCHANGED memory

TakeFreeLock(r) ==
    /\ op[r].pc = "locking"
    /\ tx = Nobody
    /\ IF lock
       THEN Abandons(r) /\ UNCHANGED lock
       ELSE TakesLock(r)
    /\ UNCHANGED <<busy, changed, tx, up, preview, build, faults, history>>

(* One write: refused while the lock is held or a source is busy.          *)
TakeLock(r) ==
    /\ op[r].pc = "locking"
    /\ tx = Nobody
    /\ IF lock \/ busy # {}
       THEN Abandons(r) /\ UNCHANGED lock
       ELSE TakesLock(r)
    /\ UNCHANGED <<busy, changed, tx, up, preview, build, faults, history>>

-----------------------------------------------------------------------------
(* The operation on its thread.                                            *)

(* The sources it works on, read anew: some may be gone by now.            *)
ReadTargets(r) ==
    /\ op[r].pc = "reading"
    /\ \E todo \in SUBSET (IF r \in Registered THEN Members[ScopeOf[r]] ELSE Sources) :
        op' = [op EXCEPT ![r].pc = "preparing", ![r].todo = todo]
    /\ UNCHANGED <<db, up, memory, preview, build, faults, history>>

(* A source is analysed, outside any transaction, or fails to be.          *)
PrepareSource(r, s) ==
    /\ op[r].pc = "preparing"
    /\ s \in op[r].todo
    /\ ~progress.cancel
    /\ \/ op' = [op EXCEPT ![r].todo = @ \ {s}, ![r].prepared = @ \cup {s}]
       \/ op' = [op EXCEPT ![r].todo = @ \ {s}, ![r].failed = @ \cup {s}]
    /\ progress' = [progress EXCEPT !.stage = "analyse"]
    /\ UNCHANGED <<db, up, last, preview, build, faults, history>>

(* The one write begins; its own gate lets it pass whatever the lock.      *)
BeginWrite(r) ==
    /\ op[r].pc = "preparing"
    /\ op[r].todo = {}
    /\ tx = Nobody
    /\ tx' = r
    /\ op' = [op EXCEPT ![r].pc = "applying", ![r].todo = op[r].prepared]
    /\ UNCHANGED <<lock, busy, changed, up, memory, preview, build, faults, history>>

ApplySource(r, s) ==
    /\ op[r].pc = "applying"
    /\ s \in op[r].todo
    /\ ~progress.cancel
    /\ op' = [op EXCEPT ![r].todo = @ \ {s}]
    /\ progress' = [progress EXCEPT !.stage = "apply"]
    /\ UNCHANGED <<db, up, last, preview, build, faults, history>>

(* The write of an operation that stops rolls back.                        *)
RollsBack(r) == tx' = IF tx = r THEN Nobody ELSE tx

(* The reading of the targets breaks, or the write before its last step.   *)
Fail(r) ==
    /\ op[r].pc \in {"reading", "applying"}
    /\ RollsBack(r)
    /\ Goes(r, "failing")
    /\ UNCHANGED <<lock, busy, changed, up, memory, preview, build, faults, history>>

(* The thread broke before the operation's run began.                      *)
Break(r) ==
    /\ op[r].pc = "reading"
    /\ Goes(r, "raised")
    /\ UNCHANGED <<db, up, memory, preview, build, faults, history>>

(* A cancel is seen before each source, prepared or applied.               *)
SeeCancel(r) ==
    /\ op[r].pc \in {"preparing", "applying"}
    /\ op[r].todo # {}
    /\ progress.cancel
    /\ RollsBack(r)
    /\ Goes(r, "cancelling")
    /\ UNCHANGED <<lock, busy, changed, up, memory, preview, build, faults, history>>

EntersFinish(r) ==
    /\ Goes(r, "finishing")
    /\ progress' = [progress EXCEPT !.stage = "finish"]
    /\ UNCHANGED tx

FinishAnyway(r) ==
    /\ op[r].pc = "applying"
    /\ op[r].todo = {}
    /\ EntersFinish(r)
    /\ UNCHANGED <<lock, busy, changed, up, last, preview, build, faults, history>>

(* The failed sources are told of, which ends a level change; a cancel     *)
(* asked for before is honoured, one asked for after is refused.           *)
EnterFinish(r) ==
    /\ op[r].pc = "applying"
    /\ op[r].todo = {}
    /\ CASE r \in LevelChanges /\ op[r].failed # {} ->
                Goes(r, "failing") /\ RollsBack(r) /\ UNCHANGED progress
         [] progress.cancel /\ ~(r \in LevelChanges /\ op[r].failed # {}) ->
                Goes(r, "cancelling") /\ RollsBack(r) /\ UNCHANGED progress
         [] OTHER -> EntersFinish(r)
    /\ UNCHANGED <<lock, busy, changed, up, last, preview, build, faults, history>>

(* The write of a level change saves the settings, that of a processing    *)
(* the errors of the sources that failed.                                  *)
ChangesSomething(r) ==
    \/ op[r].prepared # {}
    \/ r \in LevelChanges
    \/ r \notin Registered /\ op[r].failed # {}

Commit(r) ==
    /\ op[r].pc = "finishing"
    /\ lock' = FALSE
    /\ tx' = Nobody
    /\ changed' = IF ChangesSomething(r) THEN changed \cup {r} ELSE changed
    /\ stepped' = stepped \cup Others(r)
    /\ Goes(r, "committed")
    /\ UNCHANGED <<busy, up, memory, preview, build, faults, asked, intruded>>

CommitFails(r) ==
    /\ op[r].pc = "finishing"
    /\ faults < MaxFaults
    /\ faults' = faults + 1
    /\ tx' = Nobody
    /\ Goes(r, "failing")
    /\ UNCHANGED <<lock, busy, changed, up, memory, preview, build, history>>

-----------------------------------------------------------------------------
(* The end of an operation.                                                *)

(* The end is told of the operation the progress is about, whoever's it is *)
(* by then.                                                                *)
Shown == {progress.id} \cap Requests

EndsProgress(r, outcome, pc) ==
    /\ progress' = [progress EXCEPT !.running = FALSE, !.outcome = outcome]
    /\ Goes(r, pc)
    /\ stepped' = stepped \cup Others(r) \cup (Shown \ {r})

SucceedOrRaise(r) ==
    /\ op[r].pc = "committed"
    /\ EndsProgress(r, "succeeded",
                    IF r \in Registered /\ op[r].failed # {} THEN "raised" ELSE "ended")
    /\ UNCHANGED <<db, up, last, preview, build, faults, asked, intruded>>

(* An Update, a Re-cut or a Refresh none of whose sources came through     *)
(* raises after it succeeded.                                              *)
Succeed(r) ==
    /\ op[r].pc = "committed"
    /\ EndsProgress(r, "succeeded",
                    IF r \in Registered /\ op[r].failed # {} /\ op[r].prepared = {}
                    THEN "raised" ELSE "ended")
    /\ UNCHANGED <<db, up, last, preview, build, faults, asked, intruded>>

Released(pc) == CASE pc = "cancelling" -> "cancelled"
                  [] pc = "failing"    -> "failed"
                  [] pc = "raised"     -> "released"

(* The lock is dropped in a write of its own, by the runner and once more  *)
(* by the launcher of an operation that raised: whoever's it is by then.   *)
Release(r) ==
    /\ op[r].pc \in {"cancelling", "failing", "raised"}
    /\ tx = Nobody
    /\ lock' = FALSE
    /\ stepped' = stepped \cup Others(r)
    /\ Goes(r, Released(op[r].pc))
    /\ UNCHANGED <<busy, changed, tx, up, memory, preview, build, faults, asked, intruded>>

(* Every attempt at it failed: the lock stays.                             *)
ReleaseFails(r) ==
    /\ op[r].pc \in {"cancelling", "failing", "raised"}
    /\ faults < MaxFaults
    /\ faults' = faults + 1
    /\ Goes(r, Released(op[r].pc))
    /\ UNCHANGED <<db, up, memory, preview, build, history>>

TellCancelled(r) ==
    /\ op[r].pc = "cancelled"
    /\ EndsProgress(r, "cancelled", "ended")
    /\ UNCHANGED <<db, up, last, preview, build, faults, asked, intruded>>

(* The failure is told, then raised on to the launcher.                    *)
TellFailed(r) ==
    /\ op[r].pc = "failed"
    /\ EndsProgress(r, "failed", "raised")
    /\ UNCHANGED <<db, up, last, preview, build, faults, asked, intruded>>

LauncherTells(r) ==
    /\ op[r].pc = "released"
    /\ EndsProgress(r, "failed", "ended")
    /\ UNCHANGED <<db, up, last, preview, build, faults, asked, intruded>>

-----------------------------------------------------------------------------
(* The user cancels what runs, unless it is past that.                     *)
Cancel ==
    /\ up
    /\ progress.running /\ ~progress.cancel /\ progress.stage # "finish"
    /\ progress' = [progress EXCEPT !.cancel = TRUE]
    /\ asked' = asked \cup {r \in Requests : InProgress(r)}
    /\ UNCHANGED <<db, up, last, op, preview, build, faults, intruded, stepped>>

-----------------------------------------------------------------------------
(* Everybody else's writes.                                                *)

Landed == intruded' = intruded \cup {r \in Requests : Holds(r)}

UngatedWrite ==
    /\ tx = Nobody
    /\ Landed
    /\ UNCHANGED <<db, up, memory, op, preview, build, faults, asked, stepped>>

(* A write of a request or of the worker: the look at the lock inside the  *)
(* transaction refuses the one and makes the other wait.                   *)
OtherWrite ==
    /\ tx = Nobody
    /\ ~lock
    /\ Landed
    /\ UNCHANGED <<db, up, memory, op, preview, build, faults, asked, stepped>>

(* A preview: each source is held while it is analysed.                    *)
StartPreview(p) ==
    /\ up
    /\ preview[p].pc = "new"
    /\ LoopIsFree
    /\ ~(Members[ScopeOf[p]] \subseteq busy)
    /\ last' = [last EXCEPT ![ScopeOf[p]] = p]
    /\ preview' = [preview EXCEPT ![p].pc = "next",
                                  ![p].left = Members[ScopeOf[p]]]
    /\ UNCHANGED <<db, up, progress, op, build, faults, history>>

(* Refused during a long operation, and a busy source is skipped.          *)
HoldSource(p, s) ==
    /\ preview[p].pc = "next"
    /\ s \in preview[p].left
    /\ tx = Nobody
    /\ IF lock \/ s \in busy
       THEN /\ preview' = [preview EXCEPT ![p].left = @ \ {s}]
            /\ UNCHANGED <<busy, intruded>>
       ELSE /\ preview' = [preview EXCEPT ![p].pc = "analysing",
                                          ![p].left = @ \ {s}, ![p].source = s]
            /\ busy' = busy \cup {s}
            /\ Landed
    /\ UNCHANGED <<lock, changed, tx, up, memory, op, build, faults, asked, stepped>>

(* The plan is counted, or the analysis breaks.                            *)
Analyse(p) ==
    /\ preview[p].pc = "analysing"
    /\ \E pc \in {"counted", "broken"} : preview' = [preview EXCEPT ![p].pc = pc]
    /\ UNCHANGED <<db, up, memory, op, build, faults, history>>

NextSource(p) == preview' = [preview EXCEPT ![p].pc = "next", ![p].source = Nobody]

FreeCounted(p) ==
    /\ preview[p].pc \in {"counted", "broken"}
    /\ tx = Nobody
    /\ NextSource(p)
    /\ IF lock \/ preview[p].pc = "broken"
       THEN UNCHANGED <<busy, intruded>>
       ELSE busy' = busy \ {preview[p].source} /\ Landed
    /\ UNCHANGED <<lock, changed, tx, up, memory, op, build, faults, asked, stepped>>

(* Whatever happened the source is freed, by a write of the app like any   *)
(* other.                                                                  *)
FreeSource(p) ==
    /\ preview[p].pc \in {"counted", "broken"}
    /\ tx = Nobody
    /\ NextSource(p)
    /\ IF lock
       THEN UNCHANGED <<busy, intruded>>
       ELSE busy' = busy \ {preview[p].source} /\ Landed
    /\ UNCHANGED <<lock, changed, tx, up, memory, op, build, faults, asked, stepped>>

FreeSourceFails(p) ==
    /\ preview[p].pc \in {"counted", "broken"}
    /\ faults < MaxFaults
    /\ faults' = faults + 1
    /\ NextSource(p)
    /\ UNCHANGED <<db, up, memory, op, build, history>>

EndPreview(p) ==
    /\ preview[p].pc = "next"
    /\ preview[p].left = {}
    /\ preview' = [preview EXCEPT ![p].pc = "ended"]
    /\ UNCHANGED <<db, up, memory, op, build, faults, history>>

(* The build of the index: one write that takes long.                      *)
CheckBuild ==
    /\ up
    /\ build = "new"
    /\ MaxBuilds = 1
    /\ LoopIsFree
    /\ ~progress.running
    /\ build' = "checked"
    /\ UNCHANGED <<db, up, memory, op, preview, faults, history>>

TrackBuild ==
    /\ build = "checked"
    /\ build' = "tracked"
    /\ UNCHANGED <<db, up, memory, op, preview, faults, history>>

BeginBuildUngated ==
    /\ build = "tracked"
    /\ tx = Nobody
    /\ build' = "writing"
    /\ tx' = Build
    /\ UNCHANGED <<lock, busy, changed, up, memory, op, preview, faults, history>>

BeginBuild ==
    /\ build = "tracked"
    /\ tx = Nobody
    /\ IF lock
       THEN build' = "ended" /\ UNCHANGED tx
       ELSE build' = "writing" /\ tx' = Build
    /\ UNCHANGED <<lock, busy, changed, up, memory, op, preview, faults, history>>

EndBuild ==
    /\ build = "writing"
    /\ build' = "ended"
    /\ tx' = Nobody
    /\ Landed
    /\ UNCHANGED <<lock, busy, changed, up, memory, op, preview, faults, asked, stepped>>

-----------------------------------------------------------------------------
(* The app is killed, in the middle of whatever it does; its start frees   *)
(* what it left behind.                                                    *)
Crash ==
    /\ up
    /\ faults < MaxFaults
    /\ faults' = faults + 1
    /\ up' = FALSE
    /\ tx' = Nobody
    /\ progress' = NoProgress
    /\ last' = [scope \in Scopes |-> Nobody]
    /\ op' = [r \in Requests |->
                IF op[r].pc \in OverPCs THEN op[r] ELSE [op[r] EXCEPT !.pc = "dead"]]
    /\ preview' = [p \in Previews |->
                    IF Active(p) THEN [NewPreview EXCEPT !.pc = "dead"] ELSE preview[p]]
    /\ build' = IF build = "new" THEN "new" ELSE "ended"
    /\ UNCHANGED <<lock, busy, changed, history>>

Restart ==
    /\ ~up
    /\ up' = TRUE
    /\ lock' = FALSE
    /\ busy' = {}
    /\ UNCHANGED <<changed, tx, memory, op, preview, build, faults, history>>

-----------------------------------------------------------------------------
Start(r) == TryStart(r) \/ LookAround(r) \/ TakeLock(r)

Run(r) ==
    \/ ReadTargets(r) \/ BeginWrite(r) \/ EnterFinish(r) \/ Commit(r)
    \/ Fail(r) \/ Break(r) \/ SeeCancel(r)
    \/ \E s \in Sources : PrepareSource(r, s) \/ ApplySource(r, s)

End(r) ==
    \/ Succeed(r) \/ Release(r) \/ TellCancelled(r) \/ TellFailed(r)
    \/ LauncherTells(r)

PreviewStep(p) ==
    \/ Analyse(p) \/ FreeSource(p) \/ EndPreview(p)
    \/ \E s \in Sources : HoldSource(p, s)

BuildStep == TrackBuild \/ BeginBuild \/ EndBuild

Fault ==
    \/ \E r \in Requests : CommitFails(r) \/ ReleaseFails(r)
    \/ \E p \in Previews : FreeSourceFails(p)
    \/ Crash

Next ==
    \/ \E r \in Requests : Ask(r) \/ Start(r) \/ Run(r) \/ End(r)
    \/ \E p \in Previews : StartPreview(p) \/ PreviewStep(p)
    \/ CheckBuild \/ BuildStep
    \/ Cancel
    \/ OtherWrite
    \/ Fault
    \/ Restart

Spec == Init /\ [][Next]_vars

(* Threads of a running app go on: a request, an operation, a preview and  *)
(* the build take their next step.                                         *)
Fairness ==
    /\ \A r \in Requests : WF_vars(Start(r) \/ Run(r) \/ End(r))
    /\ \A p \in Previews : WF_vars(PreviewStep(p))
    /\ WF_vars(BuildStep)

FairSpec == Spec /\ Fairness

-----------------------------------------------------------------------------
(* Properties.                                                             *)

(* Every variable keeps its type.                                          *)
TypeOK ==
    /\ lock \in BOOLEAN
    /\ busy \subseteq Sources
    /\ changed \subseteq Requests
    /\ tx \in Requests \cup {Nobody, Build}
    /\ up \in BOOLEAN
    /\ progress \in Progress
    /\ last \in [Scopes -> Registered \cup Previews \cup {Nobody}]
    /\ op \in [Requests -> Op]
    /\ preview \in [Previews -> Preview]
    /\ build \in {"new", "checked", "tracked", "writing", "ended"}
    /\ faults \in Nat
    /\ asked \subseteq Requests /\ intruded \subseteq Requests
    /\ stepped \subseteq Requests

(* The two kinds of lock never meet: while the lock of a long operation is *)
(* held no preview holds a source, so the write that frees a source is     *)
(* never refused and no source stays busy after its preview.               *)
LockExcludesPreviews == lock => busy = {}

(* While an operation is under way the lock is held and nobody else's      *)
(* write lands, unless another operation stepped on it.                    *)
NothingElseWrites ==
    /\ \A r \in Requests : Holds(r) => lock \/ r \in stepped
    /\ intruded \subseteq stepped

(* A cancel that was accepted is honoured: the operation changes nothing.  *)
CancelRollsBack == asked \cap changed \subseteq stepped

(* What the progress tells of the operation it shows is true: one shown to *)
(* have failed or to have been cancelled changed nothing, and will not,    *)
(* unless another operation told its own end in its place.                 *)
FailedChangedNothing ==
    progress.outcome \in {"cancelled", "failed"} => progress.id \notin changed \ stepped

(* No write is kept out for ever: the lock of every operation is dropped,  *)
(* however the operation ends, as long as the database takes the write and *)
(* the app lives (no fault).                                               *)
LockIsDropped == lock ~> ~lock \/ faults > 0

(* A source held by a preview is freed, unless a fault kept it.            *)
SourcesAreFreed == \A s \in Sources : s \in busy ~> s \notin busy \/ faults > 0

LocksAreFreed == LockIsDropped /\ SourcesAreFreed

=============================================================================
