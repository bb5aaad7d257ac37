------------------------- MODULE LongOperationProofs -------------------------
(***************************************************************************)
(* Theorems about the long operations, for every set of sources, requests  *)
(* and previews and every bound on the faults.                             *)
(***************************************************************************)
EXTENDS LongOperation, TLAPS

-----------------------------------------------------------------------------
(* Type correctness.                                                       *)

(* A step on an operation keeps the operations typed.                      *)
LEMMA GoesOK ==
  ASSUME TypeOK, NEW r \in Requests, NEW pc \in OpPCs, Goes(r, pc)
  PROVE  op' \in [Requests -> Op]
BY DEF TypeOK, Goes, Op

(* The request that starts an operation keeps the types.                   *)
LEMMA StartTypeOK ==
  ASSUME TypeOK, NEW r \in Requests, Ask(r) \/ Start(r)
  PROVE  TypeOK'
<1> USE RequestsAssumption DEF db, memory, history
<1>1. {"refused", "starting", "looking", "locking", "reading"} \subseteq OpPCs
  BY DEF OpPCs, StartPCs, HoldPCs, OverPCs
<1>2. NoProgress \in Progress
  BY DEF NoProgress, Progress, Stages, Outcomes
<1>3. [NoProgress EXCEPT !.id = r, !.running = TRUE] \in Progress
  BY DEF NoProgress, Progress, Stages, Outcomes
<1>4. [progress EXCEPT !.running = FALSE] \in Progress
  BY DEF Progress, TypeOK
<1>5. Forgotten(r) \in [Scopes -> Registered \cup Previews \cup {Nobody}]
  BY DEF Forgotten, TypeOK
<1>6. CASE Ask(r)
  BY <1>1, <1>6, GoesOK DEF Ask, TypeOK
<1>7. CASE TryStart(r)
  BY <1>1, <1>3, <1>5, <1>7, GoesOK DEF TryStart, TypeOK, Others
<1>8. CASE LookAround(r)
  BY <1>1, <1>4, <1>5, <1>8, GoesOK DEF LookAround, TypeOK, Abandons
<1>9. CASE TakeLock(r)
  BY <1>1, <1>4, <1>5, <1>9, GoesOK DEF TakeLock, TypeOK, Abandons, TakesLock
<1> QED BY <1>6, <1>7, <1>8, <1>9 DEF Start

(* So does a new stage the progress.                                       *)
LEMMA StageOK ==
  ASSUME TypeOK, NEW stage \in Stages
  PROVE  [progress EXCEPT !.stage = stage] \in Progress
BY DEF TypeOK, Progress

(* Preparing and applying a source keep the types.                         *)
LEMMA SourceStepTypeOK ==
  ASSUME TypeOK, NEW r \in Requests, NEW s \in Sources,
         PrepareSource(r, s) \/ ApplySource(r, s)
  PROVE  TypeOK'
<1>1. "analyse" \in Stages /\ "apply" \in Stages
  BY DEF Stages
<1>2. op' \in [Requests -> Op]
  BY DEF PrepareSource, ApplySource, TypeOK, Op
<1>3. progress' \in Progress
  BY <1>1, StageOK DEF PrepareSource, ApplySource
<1> QED BY <1>2, <1>3 DEF PrepareSource, ApplySource, TypeOK, db, history

(* An operation on its thread keeps the types.                             *)
LEMMA RunTypeOK ==
  ASSUME TypeOK, NEW r \in Requests, Run(r) \/ CommitFails(r)
  PROVE  TypeOK'
<1> USE RequestsAssumption DEF db, memory, history
<1>1. {"preparing", "applying", "finishing", "cancelling", "failing", "raised",
       "committed"} \subseteq OpPCs
  BY DEF OpPCs, HoldPCs, EndPCs, LauncherPCs
<1>2. CASE ReadTargets(r)
  <2>1. PICK todo \in SUBSET (IF r \in Registered THEN Members[ScopeOf[r]] ELSE Sources) :
          op' = [op EXCEPT ![r].pc = "preparing", ![r].todo = todo]
    BY <1>2 DEF ReadTargets
  <2>2. todo \subseteq Sources
    <3>1. r \in Registered => Members[ScopeOf[r]] \subseteq Sources
      <4>1. r \in Registered => ScopeOf[r] \in Scopes
        OBVIOUS
      <4> QED BY <4>1
    <3> QED BY <3>1
  <2>3. [op[r] EXCEPT !.pc = "preparing", !.todo = todo] \in Op
    BY <1>1, <2>2 DEF TypeOK, Op
  <2>4. op' = [op EXCEPT ![r] = [op[r] EXCEPT !.pc = "preparing", !.todo = todo]]
    BY <2>1 DEF TypeOK, Op
  <2>5. op' \in [Requests -> Op]
    BY <2>3, <2>4 DEF TypeOK
  <2> QED BY <1>2, <2>5 DEF ReadTargets, TypeOK
<1>3. CASE BeginWrite(r)
  <2> DEFINE writing == [op[r] EXCEPT !.pc = "applying", !.todo = op[r].prepared]
  <2>1. writing \in Op
    BY <1>1 DEF TypeOK, Op
  <2>2. op' = [op EXCEPT ![r] = writing]
    BY <1>3 DEF BeginWrite, TypeOK, Op
  <2>3. op' \in [Requests -> Op]
    BY <2>1, <2>2 DEF TypeOK
  <2> QED BY <1>3, <2>3 DEF BeginWrite, TypeOK
<1>4. CASE Fail(r) \/ Break(r) \/ SeeCancel(r)
  BY <1>1, <1>4, GoesOK DEF Fail, Break, SeeCancel, RollsBack, TypeOK
<1>5. CASE EnterFinish(r)
  <2>1. "finish" \in Stages
    BY DEF Stages
  <2>2. op' \in [Requests -> Op]
    BY <1>1, <1>5, GoesOK DEF EnterFinish, EntersFinish
  <2>3. progress' \in Progress
    BY <1>5, <2>1, StageOK DEF EnterFinish, EntersFinish, TypeOK
  <2>4. tx' \in {tx, Nobody}
    BY <1>5 DEF EnterFinish, EntersFinish, RollsBack
  <2> QED BY <1>5, <2>2, <2>3, <2>4 DEF EnterFinish, TypeOK
<1>6. CASE Commit(r)
  BY <1>1, <1>6, GoesOK DEF Commit, TypeOK, Others
<1>7. CASE CommitFails(r)
  BY <1>1, <1>7, GoesOK DEF CommitFails, TypeOK
<1>8. CASE \E s \in Sources : PrepareSource(r, s) \/ ApplySource(r, s)
  BY <1>8, SourceStepTypeOK
<1> QED BY <1>2, <1>3, <1>4, <1>5, <1>6, <1>7, <1>8 DEF Run

(* The end of an operation keeps the types.                                *)
LEMMA EndTypeOK ==
  ASSUME TypeOK, NEW r \in Requests, End(r) \/ ReleaseFails(r)
  PROVE  TypeOK'
<1> USE DEF db, memory, history
<1>1. ASSUME NEW outcome \in Outcomes, NEW pc \in OpPCs, EndsProgress(r, outcome, pc)
      PROVE  op' \in [Requests -> Op] /\ progress' \in Progress /\ stepped' \subseteq Requests
  BY <1>1, GoesOK DEF EndsProgress, TypeOK, Progress, Others, Shown
<1>2. {"succeeded", "cancelled", "failed"} \subseteq Outcomes
  BY DEF Outcomes
<1>3. {"raised", "released", "ended", "cancelled", "failed"} \subseteq OpPCs
  BY DEF OpPCs, EndPCs, LauncherPCs, OverPCs
<1>4. CASE Succeed(r) \/ TellCancelled(r) \/ TellFailed(r) \/ LauncherTells(r)
  BY <1>1, <1>2, <1>3, <1>4 DEF Succeed, TellCancelled, TellFailed, LauncherTells, TypeOK
<1>5. CASE Release(r) \/ ReleaseFails(r)
  <2>1. Released(op[r].pc) \in OpPCs
    BY <1>3, <1>5 DEF Release, ReleaseFails, Released
  <2>2. op' \in [Requests -> Op]
    BY <1>5, <2>1, GoesOK DEF Release, ReleaseFails
  <2>3. CASE Release(r)
    BY <2>2, <2>3 DEF Release, TypeOK, Others
  <2>4. CASE ReleaseFails(r)
    BY <2>2, <2>4, RequestsAssumption DEF ReleaseFails, TypeOK
  <2> QED BY <1>5, <2>3, <2>4
<1> QED BY <1>4, <1>5 DEF End

(* A preview keeps the types.                                              *)
LEMMA PreviewTypeOK ==
  ASSUME TypeOK, NEW p \in Previews,
         StartPreview(p) \/ PreviewStep(p) \/ FreeSourceFails(p)
  PROVE  TypeOK'
<1> USE RequestsAssumption DEF db, memory, history
<1>1. {"next", "analysing", "counted", "broken", "ended"} \subseteq PreviewPCs
  BY DEF PreviewPCs, OverPCs
<1>2. ASSUME NextSource(p) PROVE preview' \in [Previews -> Preview]
  <2>1. [preview[p] EXCEPT !.pc = "next", !.source = Nobody] \in Preview
    BY <1>1 DEF TypeOK, Preview
  <2>2. preview' = [preview EXCEPT ![p] = [preview[p] EXCEPT !.pc = "next", !.source = Nobody]]
    BY <1>2 DEF NextSource, TypeOK, Preview
  <2> QED BY <2>1, <2>2 DEF TypeOK
<1>3. CASE StartPreview(p)
  <2> DEFINE started == [preview[p] EXCEPT !.pc = "next", !.left = Members[ScopeOf[p]]]
  <2>1. Members[ScopeOf[p]] \subseteq Sources
    <3>1. ScopeOf[p] \in Scopes
      OBVIOUS
    <3> QED BY <3>1
  <2>2. started \in Preview
    BY <1>1, <2>1 DEF TypeOK, Preview
  <2>3. preview' = [preview EXCEPT ![p] = started]
    BY <1>3 DEF StartPreview, TypeOK, Preview
  <2>4. preview' \in [Previews -> Preview]
    BY <2>2, <2>3 DEF TypeOK
  <2>5. last' \in [Scopes -> Registered \cup Previews \cup {Nobody}]
    BY <1>3 DEF StartPreview, TypeOK
  <2> QED BY <1>3, <2>4, <2>5 DEF StartPreview, TypeOK
<1>4. CASE Analyse(p) \/ EndPreview(p)
  <2>1. preview' \in [Previews -> Preview]
    BY <1>1, <1>4 DEF Analyse, EndPreview, TypeOK, Preview
  <2> QED BY <1>4, <2>1 DEF Analyse, EndPreview, TypeOK
<1>5. CASE FreeSource(p) \/ FreeSourceFails(p)
  <2>1. preview' \in [Previews -> Preview]
    BY <1>2, <1>5 DEF FreeSource, FreeSourceFails
  <2>2. CASE FreeSource(p)
    BY <2>1, <2>2 DEF FreeSource, Landed, TypeOK
  <2>3. CASE FreeSourceFails(p)
    BY <2>1, <2>3 DEF FreeSourceFails, TypeOK
  <2> QED BY <1>5, <2>2, <2>3
<1>6. ASSUME NEW s \in Sources, HoldSource(p, s) PROVE TypeOK'
  <2>1. preview' \in [Previews -> Preview]
    BY <1>1, <1>6 DEF HoldSource, TypeOK, Preview
  <2> QED BY <1>6, <2>1 DEF HoldSource, Landed, TypeOK
<1> QED BY <1>3, <1>4, <1>5, <1>6 DEF PreviewStep

(* Every variable keeps its type.                                          *)
THEOREM TypeCorrect == Spec => []TypeOK
<1>1. Init => TypeOK
  <2>1. NoProgress \in Progress
    BY DEF NoProgress, Progress, Stages, Outcomes
  <2>2. NewOp \in Op
    BY DEF NewOp, Op, OpPCs, OverPCs
  <2>3. NewPreview \in Preview
    BY DEF NewPreview, Preview, PreviewPCs, OverPCs
  <2>4. [r \in Requests |-> NewOp] \in [Requests -> Op]
    BY <2>2
  <2>5. [p \in Previews |-> NewPreview] \in [Previews -> Preview]
    BY <2>3
  <2>6. [scope \in Scopes |-> Nobody] \in [Scopes -> Registered \cup Previews \cup {Nobody}]
    OBVIOUS
  <2> SUFFICES ASSUME Init PROVE TypeOK
    OBVIOUS
  <2>7. progress \in Progress /\ op \in [Requests -> Op] /\ preview \in [Previews -> Preview]
    BY <2>1, <2>4, <2>5 DEF Init
  <2>8. lock \in BOOLEAN /\ up \in BOOLEAN
    BY DEF Init
  <2>9. last \in [Scopes -> Registered \cup Previews \cup {Nobody}]
    BY <2>6 DEF Init
  <2> QED BY <2>7, <2>8, <2>9 DEF Init, TypeOK
<1>2. TypeOK /\ [Next]_vars => TypeOK'
  <2> SUFFICES ASSUME TypeOK, [Next]_vars PROVE TypeOK'
    OBVIOUS
  <2> USE RequestsAssumption DEF db, memory, history
  <2>1. CASE CheckBuild \/ BuildStep
    BY <2>1 DEF CheckBuild, BuildStep, TrackBuild, BeginBuild, EndBuild, Landed, TypeOK
  <2>2. CASE Cancel
    <3>1. progress' \in Progress
      BY <2>2 DEF Cancel, TypeOK, Progress
    <3> QED BY <2>2, <3>1 DEF Cancel, TypeOK
  <2>3. CASE OtherWrite
    BY <2>3 DEF OtherWrite, Landed, TypeOK
  <2>4. CASE Crash
    <3>1. NoProgress \in Progress
      BY DEF NoProgress, Progress, Stages, Outcomes
    <3>2. "dead" \in OpPCs /\ "dead" \in PreviewPCs
      BY DEF OpPCs, PreviewPCs, OverPCs
    <3>3. \A r \in Requests : [op[r] EXCEPT !.pc = "dead"] \in Op
      BY <3>2 DEF TypeOK, Op
    <3>4. [NewPreview EXCEPT !.pc = "dead"] \in Preview
      BY <3>2 DEF Preview, NewPreview
    <3>5. op' \in [Requests -> Op]
      BY <2>4, <3>3 DEF Crash, TypeOK
    <3>6. preview' \in [Previews -> Preview]
      BY <2>4, <3>4 DEF Crash, TypeOK
    <3>7. /\ up' \in BOOLEAN
          /\ build' \in {"new", "ended"}
          /\ faults' \in Nat
      <4>1. faults' \in Nat
        BY <2>4 DEF Crash, TypeOK
      <4> QED BY <2>4, <4>1 DEF Crash
    <3>8. last' \in [Scopes -> Registered \cup Previews \cup {Nobody}]
      BY <2>4 DEF Crash
    <3>9. progress' \in Progress /\ tx' = Nobody
      BY <2>4, <3>1 DEF Crash
    <3> QED BY <2>4, <3>5, <3>6, <3>7, <3>8, <3>9 DEF Crash, TypeOK
  <2>5. CASE Restart
    BY <2>5 DEF Restart, TypeOK
  <2>6. CASE UNCHANGED vars
    BY <2>6 DEF vars, TypeOK
  <2> QED
    BY <2>1, <2>2, <2>3, <2>4, <2>5, <2>6, StartTypeOK, RunTypeOK, EndTypeOK, PreviewTypeOK
    DEF Next, Fault
<1> QED BY <1>1, <1>2, PTL DEF Spec

-----------------------------------------------------------------------------
(* Inductive invariants.                                                   *)

(* Whoever is in the middle of a long write has the transaction, so nobody *)
(* begins one, takes the lock or drops it meanwhile.                       *)
WritersHaveTx ==
    /\ \A r \in Requests : op[r].pc \in {"applying", "finishing"} => tx = r
    /\ build = "writing" => tx = Build

(* No operation is under way while the app is down.                        *)
DownIsIdle == ~up => \A r \in Requests : op[r].pc \in OverPCs

(* Two operations in progress at once have met.                            *)
Met ==
    \A q, r \in Requests :
        q # r /\ InProgress(q) /\ InProgress(r) => {q, r} \subseteq stepped

(* The index is written beside an operation only if that has lost its lock *)
(* to another.                                                             *)
IndexIsAlone ==
    build = "writing" => \A r \in Requests : Holds(r) => r \in stepped

Exclusion ==
    WritersHaveTx /\ DownIsIdle /\ Met /\ NothingElseWrites /\ IndexIsAlone

(* An operation that met no other one refuses a cancel once it is past its *)
(* last look at it ...                                                     *)
PastCancel ==
    \A r \in Requests \ stepped :
        op[r].pc \in {"finishing", "committed"} => progress.stage = "finish"

(* ... and one that was cancelled before has yet to see it, or has stopped *)
(* without a change.                                                       *)
CancelIsPending ==
    \A r \in Requests \ stepped : r \in asked =>
        /\ r \notin changed
        /\ op[r].pc \notin {"new", "starting", "finishing", "committed"}
        /\ InProgress(r) => progress.cancel

(* An operation that changed something ends with that, unless the app      *)
(* dies.                                                                   *)
ChangeIsEnd(r) ==
    r \in changed =>
        \/ op[r].pc = "committed" /\ ChangesSomething(r)
        \/ op[r].pc \in {"ended", "dead"}

ChangesAreEnds == \A r \in Requests : ChangeIsEnd(r)

(* An outcome is shown only of an operation whose run is over, or of one   *)
(* in whose place another told its end.                                    *)
ToldPCs == {"raised", "released", "ended"}

ShownIsOver ==
    \A r \in Requests \ stepped :
        progress.id = r /\ progress.outcome # "none" =>
            /\ op[r].pc \in ToldPCs
            /\ progress.outcome \in {"cancelled", "failed"} => r \notin changed

Truth == ChangesAreEnds /\ ShownIsOver

Cancelling == PastCancel /\ CancelIsPending

-----------------------------------------------------------------------------
(* Exclusion.                                                              *)

(* Operation r goes to a place, the others stay where they are.            *)
MovesTo(r, pc) ==
    \A q \in Requests : op'[q].pc = IF q = r THEN pc ELSE op[q].pc

(* A step of one operation moves it and leaves the others where they are.  *)
LEMMA GoesMoves ==
  ASSUME TypeOK, NEW r \in Requests, NEW pc, Goes(r, pc)
  PROVE  MovesTo(r, pc)
BY DEF TypeOK, Op, Goes, MovesTo

(* The steps that change more of an operation than its place.              *)
LEMMA SourceStepMoves ==
  ASSUME TypeOK, NEW r \in Requests, NEW s \in Sources,
         PrepareSource(r, s) \/ ApplySource(r, s)
  PROVE  MovesTo(r, op[r].pc)
BY DEF TypeOK, Op, PrepareSource, ApplySource, MovesTo

(* Reading the sources and beginning the write move that operation alone.  *)
LEMMA WriteMoves ==
  ASSUME TypeOK, NEW r \in Requests
  PROVE  /\ ReadTargets(r) => MovesTo(r, "preparing")
         /\ BeginWrite(r) => MovesTo(r, "applying")
BY DEF TypeOK, Op, ReadTargets, BeginWrite, MovesTo

(* Telling the end of an operation moves that operation alone.             *)
LEMMA EndMoves ==
  ASSUME TypeOK, NEW r \in Requests, NEW outcome, NEW pc, EndsProgress(r, outcome, pc)
  PROVE  MovesTo(r, pc)
BY GoesMoves DEF EndsProgress

(* The request that starts an operation keeps the exclusion.               *)
LEMMA StartExclusion ==
  ASSUME TypeOK, Exclusion, NEW r \in Requests, Ask(r) \/ Start(r)
  PROVE  Exclusion'
<1> USE RequestsAssumption, GoesMoves DEF db, memory, history, MovesTo, Exclusion, WritersHaveTx, DownIsIdle, Met, NothingElseWrites, IndexIsAlone, InProgress, Holds, Others, OverPCs, HoldPCs, EndPCs
<1>1. CASE Ask(r)
  BY <1>1 DEF Ask
<1>2. CASE TryStart(r)
  BY <1>2 DEF TryStart
<1>3. CASE LookAround(r)
  BY <1>3 DEF LookAround, Abandons
<1>4. CASE TakeLock(r)
  BY <1>4 DEF TakeLock, Abandons, TakesLock
<1> QED BY <1>1, <1>2, <1>3, <1>4 DEF Start

(* An operation on its thread keeps the exclusion.                         *)
LEMMA RunExclusion ==
  ASSUME TypeOK, Exclusion, NEW r \in Requests, Run(r) \/ CommitFails(r)
  PROVE  Exclusion'
<1> USE RequestsAssumption DEF db, memory, history, MovesTo, Exclusion, WritersHaveTx, DownIsIdle, Met, NothingElseWrites, IndexIsAlone, InProgress, Holds, Others, OverPCs, HoldPCs, EndPCs
<1>1. CASE ReadTargets(r)
  <2>1. MovesTo(r, "preparing")
    BY <1>1, WriteMoves
  <2>2. op[r].pc = "reading" /\ UNCHANGED <<lock, tx, up, build, intruded, stepped>>
    BY <1>1 DEF ReadTargets
  <2> QED BY <2>1, <2>2
<1>2. CASE BeginWrite(r)
  <2>1. MovesTo(r, "applying")
    BY <1>2, WriteMoves
  <2>2. /\ op[r].pc = "preparing" /\ tx = Nobody /\ tx' = r
        /\ UNCHANGED <<lock, up, build, intruded, stepped>>
    BY <1>2 DEF BeginWrite
  <2> QED BY <2>1, <2>2
<1>3. ASSUME NEW s \in Sources, PrepareSource(r, s) \/ ApplySource(r, s) PROVE Exclusion'
  BY <1>3, SourceStepMoves DEF PrepareSource, ApplySource
<1>4. CASE EnterFinish(r)
  <2>1. op[r].pc = "applying" /\ tx = r
    BY <1>4 DEF EnterFinish
  <2>2. \/ MovesTo(r, "failing") /\ tx' = Nobody
        \/ MovesTo(r, "cancelling") /\ tx' = Nobody
        \/ MovesTo(r, "finishing") /\ tx' = tx
    BY <1>4, <2>1, GoesMoves DEF EnterFinish, EntersFinish, RollsBack
  <2>3. UNCHANGED <<lock, up, build, intruded, stepped>>
    BY <1>4 DEF EnterFinish
  <2> QED BY <2>1, <2>2, <2>3
<1>5. CASE Fail(r) \/ Break(r) \/ SeeCancel(r)
  <2>1. /\ op[r].pc \in {"reading", "preparing", "applying"}
        /\ tx' = tx \/ tx = r
    BY <1>5 DEF Fail, Break, SeeCancel, RollsBack
  <2>2. \E pc \in {"failing", "raised", "cancelling"} : MovesTo(r, pc)
    BY <1>5, GoesMoves DEF Fail, Break, SeeCancel
  <2>3. UNCHANGED <<lock, up, build, intruded, stepped>>
    BY <1>5 DEF Fail, Break, SeeCancel
  <2> QED BY <2>1, <2>2, <2>3
<1>6. CASE Commit(r)
  BY <1>6, GoesMoves DEF Commit
<1>7. CASE CommitFails(r)
  BY <1>7, GoesMoves DEF CommitFails
<1> QED BY <1>1, <1>2, <1>3, <1>4, <1>5, <1>6, <1>7 DEF Run

(* The end of an operation keeps the exclusion.                            *)
LEMMA EndExclusion ==
  ASSUME TypeOK, Exclusion, NEW r \in Requests, End(r) \/ ReleaseFails(r)
  PROVE  Exclusion'
<1> USE RequestsAssumption DEF db, memory, history, MovesTo, Exclusion, WritersHaveTx, DownIsIdle, Met, NothingElseWrites, IndexIsAlone, InProgress, Holds, Others, OverPCs, HoldPCs, EndPCs
<1>1. CASE Succeed(r) \/ TellCancelled(r) \/ TellFailed(r) \/ LauncherTells(r)
  <2>1. PICK outcome \in Outcomes, pc \in {"raised", "ended"} : EndsProgress(r, outcome, pc)
    BY <1>1 DEF Succeed, TellCancelled, TellFailed, LauncherTells, Outcomes
  <2>2. MovesTo(r, pc)
    BY <2>1, EndMoves
  <2>3. stepped \cup Others(r) \subseteq stepped'
    BY <2>1 DEF EndsProgress
  <2>4. UNCHANGED <<lock, tx, up, build, intruded>> /\ op[r].pc \notin HoldPCs \cup OverPCs
    BY <1>1 DEF Succeed, TellCancelled, TellFailed, LauncherTells
  <2> QED BY <2>1, <2>2, <2>3, <2>4
<1>2. CASE Release(r)
  BY <1>2, GoesMoves DEF Release, Released
<1>3. CASE ReleaseFails(r)
  BY <1>3, GoesMoves DEF ReleaseFails, Released
<1> QED BY <1>1, <1>2, <1>3 DEF End

(* Previews, the index build, cancels, other writes and the fall of the    *)
(* app keep the exclusion.                                                 *)
LEMMA OtherExclusion ==
  ASSUME TypeOK, Exclusion,
         \/ \E p \in Previews : StartPreview(p) \/ PreviewStep(p) \/ FreeSourceFails(p)
         \/ CheckBuild \/ BuildStep \/ Cancel \/ OtherWrite \/ Crash \/ Restart
         \/ UNCHANGED vars
  PROVE  Exclusion'
<1> USE RequestsAssumption DEF db, memory, history, Exclusion, WritersHaveTx, DownIsIdle, Met, NothingElseWrites, IndexIsAlone, InProgress, Holds, OverPCs, HoldPCs, EndPCs, StartPCs, LauncherPCs
<1>1. ASSUME NEW p \in Previews, StartPreview(p) \/ PreviewStep(p) \/ FreeSourceFails(p)
      PROVE  Exclusion'
  <2>1. UNCHANGED <<lock, tx, up, op, build, stepped>>
    BY <1>1 DEF StartPreview, PreviewStep, FreeSourceFails, Analyse, FreeSource, EndPreview, HoldSource
  <2>2. \/ intruded' = intruded
        \/ ~lock /\ intruded' = intruded \cup {r \in Requests : Holds(r)}
    BY <1>1 DEF StartPreview, PreviewStep, FreeSourceFails, Analyse, FreeSource, EndPreview, HoldSource, Landed
  <2> QED BY <2>1, <2>2
<1>2. CASE CheckBuild \/ BuildStep
  BY <1>2 DEF CheckBuild, BuildStep, TrackBuild, BeginBuild, EndBuild, Landed
<1>3. CASE Cancel \/ OtherWrite
  BY <1>3 DEF Cancel, OtherWrite, Landed
<1>4. CASE Crash
  BY <1>4 DEF Crash, TypeOK, Op
<1>5. CASE Restart
  BY <1>5 DEF Restart
<1>6. CASE UNCHANGED vars
  BY <1>6 DEF vars
<1> QED BY <1>1, <1>2, <1>3, <1>4, <1>5, <1>6

(* Exclusion is an invariant, on top of the types.                         *)
LEMMA ExclusionAlways == Spec => []Exclusion
<1>1. Init => Exclusion
  BY RequestsAssumption
  DEF Init, Exclusion, WritersHaveTx, DownIsIdle, Met, NothingElseWrites, IndexIsAlone,
      NewOp, InProgress, Holds, HoldPCs, EndPCs
<1>2. TypeOK /\ Exclusion /\ [Next]_vars => Exclusion'
  BY StartExclusion, RunExclusion, EndExclusion, OtherExclusion DEF Next, Fault
<1> QED BY <1>1, <1>2, TypeCorrect, PTL DEF Spec

(* While an operation is under way the lock is held and no other write     *)
(* lands, but for operations that met: RefuseDuringLongOperation, WaitOut  *)
(* and the one write of long_operation_runner.run keep everybody apart     *)
(* except the release of an operation that no longer owns the lock.        *)
THEOREM NothingElseWritesAlways == Spec => []NothingElseWrites
<1>1. Exclusion => NothingElseWrites
  BY DEF Exclusion
<1> QED BY <1>1, ExclusionAlways, PTL

-----------------------------------------------------------------------------
(* The two kinds of lock.                                                  *)

(* No preview holds a source while the lock of a long operation is held.   *)
THEOREM LockExcludesPreviewsAlways == Spec => []LockExcludesPreviews
<1>1. Init => LockExcludesPreviews
  BY DEF Init, LockExcludesPreviews
<1>2. LockExcludesPreviews /\ [Next]_vars => LockExcludesPreviews'
  <2> SUFFICES ASSUME LockExcludesPreviews, [Next]_vars PROVE LockExcludesPreviews'
    OBVIOUS
  <2> USE DEF LockExcludesPreviews, db, memory, history
  <2>1. ASSUME NEW r \in Requests, Ask(r) \/ Start(r) PROVE LockExcludesPreviews'
    BY <2>1 DEF Ask, Start, TryStart, LookAround, TakeLock, Abandons, TakesLock
  <2>2. ASSUME NEW r \in Requests, Run(r) \/ CommitFails(r) PROVE LockExcludesPreviews'
    BY <2>2
    DEF Run, ReadTargets, BeginWrite, EnterFinish, Commit, Fail, Break, SeeCancel,
        PrepareSource, ApplySource, CommitFails
  <2>3. ASSUME NEW r \in Requests, End(r) \/ ReleaseFails(r) PROVE LockExcludesPreviews'
    BY <2>3 DEF End, Succeed, Release, TellCancelled, TellFailed, LauncherTells, ReleaseFails
  <2>4. ASSUME NEW p \in Previews, StartPreview(p) \/ PreviewStep(p) \/ FreeSourceFails(p)
        PROVE LockExcludesPreviews'
    BY <2>4 DEF StartPreview, PreviewStep, FreeSourceFails, Analyse, FreeSource, EndPreview, HoldSource
  <2>5. CASE CheckBuild \/ BuildStep
    BY <2>5 DEF CheckBuild, BuildStep, TrackBuild, BeginBuild, EndBuild
  <2>6. CASE Cancel \/ OtherWrite \/ Crash \/ Restart \/ UNCHANGED vars
    BY <2>6 DEF Cancel, OtherWrite, Crash, Restart, vars
  <2> QED BY <2>1, <2>2, <2>3, <2>4, <2>5, <2>6 DEF Next, Fault
<1> QED BY <1>1, <1>2, PTL DEF Spec

-----------------------------------------------------------------------------
(* What is told and shown of an operation.                                 *)

(* A step that leaves an operation alone leaves its change what it was.    *)
LEMMA LeftAlone ==
  ASSUME ChangesAreEnds, NEW q \in Requests, op'[q] = op[q], q \in changed' <=> q \in changed
  PROVE  ChangeIsEnd(q)'
BY DEF ChangesAreEnds, ChangeIsEnd, ChangesSomething

(* A step of one operation need only end that one's change.                *)
LEMMA OthersLeftAlone ==
  ASSUME TypeOK, ChangesAreEnds, NEW r \in Requests, NEW rec,
         op' = [op EXCEPT ![r] = rec],
         changed' \in {changed, changed \cup {r}}, ChangeIsEnd(r)'
  PROVE  ChangesAreEnds'
<1>1. ASSUME NEW q \in Requests, q # r PROVE ChangeIsEnd(q)'
  <2>1. op'[q] = op[q] /\ (q \in changed' <=> q \in changed)
    BY <1>1 DEF TypeOK
  <2> QED BY <2>1, LeftAlone
<1> QED BY <1>1 DEF ChangesAreEnds

(* An operation that changed nothing may go wherever it goes.              *)
LEMMA UnchangedGoesOn ==
  ASSUME TypeOK, ChangesAreEnds, NEW r \in Requests, NEW pc, Goes(r, pc),
         changed' = changed, r \notin changed \/ pc = "ended"
  PROVE  ChangesAreEnds'
<1>1. op' = [op EXCEPT ![r] = [op[r] EXCEPT !.pc = pc]]
  BY DEF Goes, TypeOK, Op
<1>2. op'[r].pc = pc
  BY <1>1 DEF TypeOK, Op
<1>3. ChangeIsEnd(r)'
  BY <1>2 DEF ChangeIsEnd
<1> QED BY <1>1, <1>3, OthersLeftAlone

(* Only a committed operation and one that is over have changed anything.  *)
LEMMA ChangedPlaces ==
  ASSUME ChangesAreEnds, NEW r \in Requests, op[r].pc \notin {"committed", "ended", "dead"}
  PROVE  r \notin changed
BY DEF ChangesAreEnds, ChangeIsEnd

(* Every step of an operation ends what it changes.                        *)
LEMMA RequestChanges ==
  ASSUME TypeOK, ChangesAreEnds, NEW r \in Requests,
         \/ Ask(r) \/ Start(r) \/ Run(r) \/ End(r)
         \/ CommitFails(r) \/ ReleaseFails(r)
  PROVE  ChangesAreEnds'
<1> USE DEF db, history
<1>1. CASE Ask(r) \/ Start(r)
  <2>1. \E pc \in OpPCs : Goes(r, pc)
    BY <1>1 DEF Ask, Start, TryStart, LookAround, TakeLock, Abandons, TakesLock, OpPCs,
                StartPCs, HoldPCs, OverPCs
  <2>2. changed' = changed /\ op[r].pc \in {"new"} \cup StartPCs
    BY <1>1 DEF Ask, Start, TryStart, LookAround, TakeLock, StartPCs
  <2> QED BY <2>1, <2>2, ChangedPlaces, UnchangedGoesOn DEF StartPCs
<1>2. CASE ReadTargets(r) \/ BeginWrite(r)
           \/ \E s \in Sources : PrepareSource(r, s) \/ ApplySource(r, s)
  <2>1. op' = [op EXCEPT ![r] = op'[r]]
    <3>1. CASE ReadTargets(r) \/ BeginWrite(r)
      BY <3>1 DEF ReadTargets, BeginWrite, TypeOK, Op
    <3>2. ASSUME NEW s \in Sources, PrepareSource(r, s) \/ ApplySource(r, s)
          PROVE  op' = [op EXCEPT ![r] = op'[r]]
      BY <3>2 DEF PrepareSource, ApplySource, TypeOK, Op
    <3> QED BY <1>2, <3>1, <3>2
  <2>2. op[r].pc \in HoldPCs /\ changed' = changed
    BY <1>2 DEF ReadTargets, BeginWrite, PrepareSource, ApplySource, HoldPCs
  <2>3. ChangeIsEnd(r)'
    BY <2>2, ChangedPlaces DEF ChangeIsEnd, HoldPCs
  <2> QED BY <2>1, <2>2, <2>3, OthersLeftAlone
<1>3. CASE EnterFinish(r) \/ Fail(r) \/ Break(r) \/ SeeCancel(r) \/ CommitFails(r)
  <2>1. \E pc \in OpPCs : Goes(r, pc)
    BY <1>3 DEF EnterFinish, EntersFinish, Fail, Break, SeeCancel, CommitFails, OpPCs,
                HoldPCs, EndPCs, LauncherPCs
  <2>2. changed' = changed /\ op[r].pc \in HoldPCs
    BY <1>3 DEF EnterFinish, EntersFinish, Fail, Break, SeeCancel, CommitFails, HoldPCs
  <2> QED BY <2>1, <2>2, ChangedPlaces, UnchangedGoesOn DEF HoldPCs
<1>4. CASE Commit(r)
  <2>1. op' = [op EXCEPT ![r] = [op[r] EXCEPT !.pc = "committed"]]
    BY <1>4 DEF Commit, Goes, TypeOK, Op
  <2>2. op'[r].pc = "committed" /\ ChangesSomething(r)' = ChangesSomething(r)
    BY <2>1 DEF TypeOK, Op, ChangesSomething
  <2>3. /\ op[r].pc = "finishing"
        /\ changed' = IF ChangesSomething(r) THEN changed \cup {r} ELSE changed
    BY <1>4 DEF Commit
  <2>4. ChangeIsEnd(r)'
    BY <2>2, <2>3, ChangedPlaces DEF ChangeIsEnd
  <2> QED BY <2>1, <2>3, <2>4, OthersLeftAlone
<1>5. CASE Succeed(r)
  <2>1. r \in changed => ChangesSomething(r)
    BY <1>5 DEF Succeed, ChangesAreEnds, ChangeIsEnd
  <2>2. \/ Goes(r, "ended")
        \/ Goes(r, "raised") /\ ~ChangesSomething(r)
    BY <1>5, RequestsAssumption DEF Succeed, EndsProgress, ChangesSomething
  <2> QED BY <1>5, <2>1, <2>2, UnchangedGoesOn DEF Succeed
<1>6. CASE TellCancelled(r) \/ TellFailed(r) \/ LauncherTells(r)
  <2>1. changed' = changed /\ op[r].pc \in {"cancelled", "failed", "released"}
    BY <1>6 DEF TellCancelled, TellFailed, LauncherTells
  <2>2. \E pc \in {"raised", "ended"} : Goes(r, pc)
    BY <1>6 DEF TellCancelled, TellFailed, LauncherTells, EndsProgress
  <2> QED BY <2>1, <2>2, ChangedPlaces, UnchangedGoesOn
<1>7. CASE Release(r) \/ ReleaseFails(r)
  <2>1. changed' = changed /\ op[r].pc \in {"cancelling", "failing", "raised"}
    BY <1>7 DEF Release, ReleaseFails
  <2>2. Goes(r, Released(op[r].pc))
    BY <1>7 DEF Release, ReleaseFails
  <2> QED BY <2>1, <2>2, ChangedPlaces, UnchangedGoesOn
<1> QED BY <1>1, <1>2, <1>3, <1>4, <1>5, <1>6, <1>7 DEF Run, End

(* A step that tells nothing of an operation that has not told its end yet *)
(* leaves what is shown true.                                              *)
LEMMA QuietStep ==
  ASSUME ShownIsOver, NEW r \in Requests, NEW pc, MovesTo(r, pc),
         progress'.id = progress.id, progress'.outcome = progress.outcome,
         changed' \in {changed, changed \cup {r}}, stepped \subseteq stepped',
         op[r].pc \notin ToldPCs
  PROVE  ShownIsOver'
BY DEF ShownIsOver, MovesTo

(* Every step of an operation leaves what is shown true.                   *)
LEMMA RequestShown ==
  ASSUME TypeOK, Truth, NEW r \in Requests,
         \/ Ask(r) \/ Start(r) \/ Run(r) \/ End(r)
         \/ CommitFails(r) \/ ReleaseFails(r)
  PROVE  ShownIsOver'
<1> USE DEF db, memory, history
<1>0. ChangesAreEnds /\ ShownIsOver
  BY DEF Truth
<1>1. ASSUME NEW prog, progress' = prog,
             prog \in {progress, [progress EXCEPT !.running = FALSE]}
                        \cup {[progress EXCEPT !.stage = stage] : stage \in Stages}
      PROVE  progress'.id = progress.id /\ progress'.outcome = progress.outcome
  BY <1>1 DEF TypeOK, Progress
<1>2. CASE Ask(r)
  <2>1. MovesTo(r, "starting") /\ UNCHANGED <<progress, changed, stepped>> /\ op[r].pc = "new"
    BY <1>2, GoesMoves DEF Ask
  <2> QED BY <1>0, <2>1, QuietStep DEF ToldPCs
<1>3. CASE TryStart(r)
  <2>1. CASE progress.running
    <3>1. MovesTo(r, "refused") /\ UNCHANGED <<progress, changed, stepped>>
      BY <1>3, <2>1, GoesMoves DEF TryStart
    <3>2. op[r].pc = "starting"
      BY <1>3 DEF TryStart
    <3> QED BY <1>0, <3>1, <3>2, QuietStep DEF ToldPCs
  <2>2. CASE ~progress.running
    <3>1. progress'.outcome = "none"
      BY <1>3, <2>2 DEF TryStart, NoProgress
    <3> QED BY <3>1 DEF ShownIsOver
  <2> QED BY <2>1, <2>2
<1>4. CASE LookAround(r) \/ TakeLock(r)
  <2>1. \E pc \in OpPCs : Goes(r, pc)
    BY <1>4 DEF LookAround, TakeLock, Abandons, TakesLock, OpPCs, StartPCs, HoldPCs, OverPCs
  <2>2. /\ UNCHANGED <<changed, stepped>>
        /\ op[r].pc \in {"looking", "locking"}
        /\ progress' \in {progress, [progress EXCEPT !.running = FALSE]}
    BY <1>4 DEF LookAround, TakeLock, Abandons, TakesLock
  <2> QED BY <1>0, <1>1, <2>1, <2>2, GoesMoves, QuietStep DEF ToldPCs
<1>5. CASE ReadTargets(r) \/ BeginWrite(r)
           \/ \E s \in Sources : PrepareSource(r, s) \/ ApplySource(r, s)
  <2>1. \E pc \in {"preparing", "applying", op[r].pc} : MovesTo(r, pc)
    BY <1>5, WriteMoves, SourceStepMoves
  <2>2. op[r].pc \in HoldPCs /\ UNCHANGED <<changed, stepped>>
    BY <1>5 DEF ReadTargets, BeginWrite, PrepareSource, ApplySource, HoldPCs
  <2>3. progress' = progress \/ \E stage \in Stages : progress' = [progress EXCEPT !.stage = stage]
    BY <1>5 DEF ReadTargets, BeginWrite, PrepareSource, ApplySource, Stages
  <2> QED BY <1>0, <1>1, <2>1, <2>2, <2>3, QuietStep DEF ToldPCs, HoldPCs
<1>6. CASE EnterFinish(r) \/ Fail(r) \/ Break(r) \/ SeeCancel(r) \/ CommitFails(r) \/ Commit(r)
  <2>1. \E pc \in OpPCs : Goes(r, pc)
    BY <1>6 DEF EnterFinish, EntersFinish, Fail, Break, SeeCancel, CommitFails, Commit, OpPCs,
                HoldPCs, EndPCs, LauncherPCs
  <2>2. op[r].pc \in HoldPCs
    BY <1>6 DEF EnterFinish, Fail, Break, SeeCancel, CommitFails, Commit, HoldPCs
  <2>3. changed' \in {changed, changed \cup {r}} /\ stepped \subseteq stepped'
    BY <1>6 DEF EnterFinish, Fail, Break, SeeCancel, CommitFails, Commit
  <2>4. progress' = progress \/ \E stage \in Stages : progress' = [progress EXCEPT !.stage = stage]
    BY <1>6 DEF EnterFinish, EntersFinish, Fail, Break, SeeCancel, CommitFails, Commit, Stages
  <2> QED BY <1>0, <1>1, <2>1, <2>2, <2>3, <2>4, GoesMoves, QuietStep DEF ToldPCs, HoldPCs
<1>7. CASE Succeed(r) \/ TellCancelled(r) \/ TellFailed(r) \/ LauncherTells(r)
  <2>1. PICK outcome \in Outcomes, pc \in {"raised", "ended"} :
          /\ EndsProgress(r, outcome, pc)
          /\ outcome \in {"cancelled", "failed"} => r \notin changed
    <3>1. CASE Succeed(r)
      BY <3>1 DEF Succeed, Outcomes
    <3>2. CASE TellCancelled(r) \/ TellFailed(r) \/ LauncherTells(r)
      <4>1. r \notin changed
        BY <1>0, <3>2, ChangedPlaces DEF TellCancelled, TellFailed, LauncherTells
      <4> QED BY <3>2, <4>1 DEF TellCancelled, TellFailed, LauncherTells, Outcomes
    <3> QED BY <1>7, <3>1, <3>2
  <2>2. MovesTo(r, pc) /\ changed' = changed
    BY <1>7, <2>1, EndMoves DEF Succeed, TellCancelled, TellFailed, LauncherTells
  <2>3. progress'.id = progress.id /\ progress'.outcome = outcome
    BY <2>1 DEF EndsProgress, TypeOK, Progress
  <2>4. \A q \in Requests \ {r} : progress.id = q => q \in stepped'
    BY <2>1 DEF EndsProgress, Shown
  <2> QED BY <2>1, <2>2, <2>3, <2>4 DEF ShownIsOver, MovesTo, ToldPCs
<1>8. CASE Release(r) \/ ReleaseFails(r)
  <2>1. UNCHANGED <<progress, changed>> /\ stepped \subseteq stepped'
    BY <1>8 DEF Release, ReleaseFails
  <2>2. CASE op[r].pc = "raised"
    <3>1. MovesTo(r, "released")
      BY <1>8, <2>2, GoesMoves DEF Release, ReleaseFails, Released
    <3> QED BY <1>0, <2>1, <3>1 DEF ShownIsOver, MovesTo, ToldPCs
  <2>3. CASE op[r].pc # "raised"
    <3>1. op[r].pc \in {"cancelling", "failing"} /\ MovesTo(r, Released(op[r].pc))
      BY <1>8, <2>3, GoesMoves DEF Release, ReleaseFails
    <3> QED BY <1>0, <2>1, <3>1, QuietStep DEF ToldPCs
  <2> QED BY <2>2, <2>3
<1> QED BY <1>2, <1>3, <1>4, <1>5, <1>6, <1>7, <1>8 DEF Start, Run, End

(* No step of the system tells anything untrue.                            *)
LEMMA TruthStep == TypeOK /\ Truth /\ [Next]_vars => Truth'
<1> SUFFICES ASSUME TypeOK, Truth, [Next]_vars PROVE Truth'
  OBVIOUS
<1> USE DEF db, memory, history
<1>0. ChangesAreEnds /\ ShownIsOver
  BY DEF Truth
<1>1. ASSUME op' = op, changed' = changed, stepped' = stepped,
             progress'.id = progress.id, progress'.outcome = progress.outcome
      PROVE Truth'
  <2>1. ChangesAreEnds'
    BY <1>0, <1>1, LeftAlone DEF ChangesAreEnds
  <2>2. ShownIsOver'
    BY <1>0, <1>1 DEF ShownIsOver
  <2> QED BY <2>1, <2>2 DEF Truth
<1>2. ASSUME NEW p \in Previews, StartPreview(p) \/ PreviewStep(p) \/ FreeSourceFails(p)
      PROVE Truth'
  <2>1. UNCHANGED <<op, changed, stepped, progress>>
    BY <1>2
    DEF StartPreview, PreviewStep, FreeSourceFails, Analyse, FreeSource, EndPreview, HoldSource
  <2> QED BY <1>1, <2>1
<1>3. CASE CheckBuild \/ BuildStep \/ OtherWrite \/ Restart \/ UNCHANGED vars
  <2>1. UNCHANGED <<op, changed, stepped, progress>>
    BY <1>3
    DEF CheckBuild, BuildStep, TrackBuild, BeginBuild, EndBuild, OtherWrite, Restart, vars
  <2> QED BY <1>1, <2>1
<1>4. CASE Cancel
  <2>1. UNCHANGED <<op, changed, stepped>> /\ progress' = [progress EXCEPT !.cancel = TRUE]
    BY <1>4 DEF Cancel
  <2>2. progress'.id = progress.id /\ progress'.outcome = progress.outcome
    BY <2>1 DEF TypeOK, Progress
  <2> QED BY <1>1, <2>1, <2>2
<1>5. CASE Crash
  <2>1. changed' = changed /\ progress'.outcome = "none"
    BY <1>5 DEF Crash, NoProgress
  <2>2. ASSUME NEW r \in Requests PROVE ChangeIsEnd(r)'
    <3>1. CASE op[r].pc \in OverPCs
      BY <1>0, <1>5, <2>1, <3>1, LeftAlone DEF Crash
    <3>2. CASE op[r].pc \notin OverPCs
      <4>1. op'[r] = [op[r] EXCEPT !.pc = "dead"]
        BY <1>5, <3>2 DEF Crash
      <4>2. op'[r].pc = "dead"
        BY <4>1 DEF TypeOK, Op
      <4> QED BY <4>2 DEF ChangeIsEnd
    <3> QED BY <3>1, <3>2
  <2> QED BY <2>1, <2>2 DEF Truth, ChangesAreEnds, ShownIsOver
<1>6. ASSUME NEW r \in Requests,
             \/ Ask(r) \/ Start(r) \/ Run(r) \/ End(r)
             \/ CommitFails(r) \/ ReleaseFails(r)
      PROVE  Truth'
  BY <1>0, <1>6, RequestChanges, RequestShown DEF Truth
<1> QED BY <1>2, <1>3, <1>4, <1>5, <1>6 DEF Next, Fault

(* What the progress shows is true: an operation shown to have failed or   *)
(* to have been cancelled changed nothing and will not, unless another one *)
(* told its own end in its place, as the launcher of one that raised may.  *)
(* long_operation_runner.run tells after the commit or after the rollback; *)
(* the exception that _outcome raises after succeed is of an operation     *)
(* none of whose sources came through.                                     *)
THEOREM FailedChangedNothingAlways == Spec => []FailedChangedNothing
<1>1. Init => Truth
  BY DEF Init, Truth, ChangesAreEnds, ChangeIsEnd, ShownIsOver, NoProgress
<1>2. TypeOK /\ Truth /\ [Next]_vars => Truth'
  BY TruthStep
<1>3. TypeOK /\ Truth => FailedChangedNothing
  BY DEF TypeOK, Truth, ShownIsOver, FailedChangedNothing
<1> QED BY <1>1, <1>2, <1>3, TypeCorrect, PTL DEF Spec

-----------------------------------------------------------------------------
(* Cancelling.                                                             *)

(* Starting an operation disturbs no accepted cancel.                      *)
LEMMA StartCancelling ==
  ASSUME TypeOK, Cancelling, NEW r \in Requests, Ask(r) \/ Start(r)
  PROVE  Cancelling'
<1> USE GoesMoves DEF db, memory, history, MovesTo, Cancelling, PastCancel, CancelIsPending,
      InProgress, Others, HoldPCs, EndPCs
<1>1. CASE Ask(r)
  BY <1>1 DEF Ask
<1>2. CASE TryStart(r)
  BY <1>2 DEF TryStart
<1>3. ASSUME progress' \in {progress, [progress EXCEPT !.running = FALSE]}
      PROVE  progress'.stage = progress.stage /\ progress'.cancel = progress.cancel
  BY <1>3 DEF TypeOK, Progress
<1>4. CASE LookAround(r)
  BY <1>3, <1>4 DEF LookAround, Abandons
<1>5. CASE TakeLock(r)
  BY <1>3, <1>5 DEF TakeLock, Abandons, TakesLock
<1> QED BY <1>1, <1>2, <1>4, <1>5 DEF Start

(* An operation on its thread honours an accepted cancel.                  *)
LEMMA RunCancelling ==
  ASSUME TypeOK, Met, Cancelling, NEW r \in Requests, Run(r) \/ CommitFails(r)
  PROVE  Cancelling'
<1> USE DEF db, memory, history, MovesTo, Cancelling, PastCancel, CancelIsPending,
      InProgress, HoldPCs, EndPCs
<1>1. CASE ReadTargets(r) \/ BeginWrite(r)
  <2>1. \E pc \in {"preparing", "applying"} : MovesTo(r, pc)
    BY <1>1, WriteMoves
  <2>2. /\ op[r].pc \in {"reading", "preparing"}
        /\ UNCHANGED <<progress, changed, asked, stepped>>
    BY <1>1 DEF ReadTargets, BeginWrite
  <2> QED BY <2>1, <2>2
<1>2. ASSUME NEW s \in Sources, PrepareSource(r, s) \/ ApplySource(r, s) PROVE Cancelling'
  <2>1. MovesTo(r, op[r].pc)
    BY <1>2, SourceStepMoves
  <2>2. /\ op[r].pc \in {"preparing", "applying"}
        /\ UNCHANGED <<changed, asked, stepped>>
    BY <1>2 DEF PrepareSource, ApplySource
  <2>3. progress'.cancel = progress.cancel
    BY <1>2 DEF PrepareSource, ApplySource, TypeOK, Progress
  <2> QED BY <2>1, <2>2, <2>3 DEF Met
<1>3. CASE EnterFinish(r)
  <2>1. op[r].pc = "applying" /\ UNCHANGED <<changed, asked, stepped>>
    BY <1>3 DEF EnterFinish
  <2>2. \/ MovesTo(r, "failing") /\ progress' = progress
        \/ MovesTo(r, "cancelling") /\ progress' = progress
        \/ /\ MovesTo(r, "finishing") /\ ~progress.cancel
           /\ progress' = [progress EXCEPT !.stage = "finish"]
    BY <1>3, GoesMoves DEF EnterFinish, EntersFinish
  <2>3. ASSUME progress' = [progress EXCEPT !.stage = "finish"]
        PROVE  progress'.cancel = progress.cancel /\ progress'.stage = "finish"
    BY <2>3 DEF TypeOK, Progress
  <2> QED BY <2>1, <2>2, <2>3
<1>4. CASE Fail(r) \/ Break(r) \/ SeeCancel(r) \/ CommitFails(r)
  <2>1. \E pc \in {"failing", "raised", "cancelling"} : MovesTo(r, pc)
    BY <1>4, GoesMoves DEF Fail, Break, SeeCancel, CommitFails
  <2>2. UNCHANGED <<progress, changed, asked, stepped>> /\ op[r].pc \in HoldPCs
    BY <1>4 DEF Fail, Break, SeeCancel, CommitFails
  <2> QED BY <2>1, <2>2
<1>5. CASE Commit(r)
  BY <1>5, GoesMoves DEF Commit
<1> QED BY <1>1, <1>2, <1>3, <1>4, <1>5 DEF Run

(* The end of an operation disturbs no accepted cancel.                    *)
LEMMA EndCancelling ==
  ASSUME TypeOK, Cancelling, NEW r \in Requests, End(r) \/ ReleaseFails(r)
  PROVE  Cancelling'
<1> USE DEF db, memory, history, MovesTo, Cancelling, PastCancel, CancelIsPending,
      InProgress, HoldPCs, EndPCs
<1>1. CASE Succeed(r) \/ TellCancelled(r) \/ TellFailed(r) \/ LauncherTells(r)
  <2>1. PICK outcome \in Outcomes, pc \in {"raised", "ended"} : EndsProgress(r, outcome, pc)
    BY <1>1 DEF Succeed, TellCancelled, TellFailed, LauncherTells, Outcomes
  <2>2. MovesTo(r, pc)
    BY <2>1, EndMoves
  <2>3. /\ stepped \subseteq stepped'
        /\ progress' = [progress EXCEPT !.running = FALSE, !.outcome = outcome]
    BY <2>1 DEF EndsProgress
  <2>4. progress'.cancel = progress.cancel /\ progress'.stage = progress.stage
    BY <2>3 DEF TypeOK, Progress
  <2>5. UNCHANGED <<changed, asked>> /\ op[r].pc \notin {"new", "starting"}
    BY <1>1 DEF Succeed, TellCancelled, TellFailed, LauncherTells
  <2> QED BY <2>1, <2>2, <2>3, <2>4, <2>5
<1>2. CASE Release(r) \/ ReleaseFails(r)
  <2>1. \E pc \in {"cancelled", "failed", "released"} : MovesTo(r, pc)
    BY <1>2, GoesMoves DEF Release, ReleaseFails, Released
  <2>2. /\ UNCHANGED <<progress, changed, asked>> /\ stepped \subseteq stepped'
        /\ op[r].pc \in {"cancelling", "failing", "raised"}
    BY <1>2 DEF Release, ReleaseFails
  <2>3. op[r].pc = "raised" => MovesTo(r, "released")
    BY <1>2, GoesMoves DEF Release, ReleaseFails, Released
  <2> QED BY <2>1, <2>2, <2>3
<1> QED BY <1>1, <1>2 DEF End

(* A cancel is accepted only while it can be honoured; nothing else        *)
(* disturbs one.                                                           *)
LEMMA OtherCancelling ==
  ASSUME TypeOK, Cancelling, Truth,
         \/ \E p \in Previews : StartPreview(p) \/ PreviewStep(p) \/ FreeSourceFails(p)
         \/ CheckBuild \/ BuildStep \/ Cancel \/ OtherWrite \/ Crash \/ Restart
         \/ UNCHANGED vars
  PROVE  Cancelling'
<1> USE DEF db, memory, history, Cancelling, PastCancel, CancelIsPending, InProgress,
      HoldPCs, EndPCs
<1>1. ASSUME UNCHANGED <<op, progress, changed, asked, stepped>> PROVE Cancelling'
  BY <1>1
<1>2. ASSUME NEW p \in Previews, StartPreview(p) \/ PreviewStep(p) \/ FreeSourceFails(p)
      PROVE  UNCHANGED <<op, progress, changed, asked, stepped>>
  BY <1>2
  DEF StartPreview, PreviewStep, FreeSourceFails, Analyse, FreeSource, EndPreview, HoldSource
<1>3. CASE CheckBuild \/ BuildStep \/ OtherWrite \/ Restart \/ UNCHANGED vars
  <2>1. UNCHANGED <<op, progress, changed, asked, stepped>>
    BY <1>3
    DEF CheckBuild, BuildStep, TrackBuild, BeginBuild, EndBuild, OtherWrite, Restart, vars
  <2> QED BY <1>1, <2>1
<1>4. CASE Cancel
  <2>1. /\ progress.stage # "finish"
        /\ progress' = [progress EXCEPT !.cancel = TRUE]
        /\ asked' = asked \cup {r \in Requests : InProgress(r)}
        /\ UNCHANGED <<op, changed, stepped>>
    BY <1>4 DEF Cancel
  <2>2. progress'.cancel = TRUE /\ progress'.stage = progress.stage
    BY <2>1 DEF TypeOK, Progress
  <2>3. \A r \in Requests : InProgress(r) /\ r \in changed => op[r].pc = "committed"
    BY DEF Truth, ChangesAreEnds, ChangeIsEnd, InProgress, HoldPCs, EndPCs
  <2> QED BY <2>1, <2>2, <2>3
<1>5. CASE Crash
  <2>1. UNCHANGED <<changed, asked, stepped>>
    BY <1>5 DEF Crash
  <2>2. \A r \in Requests :
          op'[r].pc = IF op[r].pc \in OverPCs THEN op[r].pc ELSE "dead"
    BY <1>5 DEF Crash, TypeOK, Op
  <2> QED BY <2>1, <2>2 DEF TypeOK, OverPCs
<1> QED BY <1>1, <1>2, <1>3, <1>4, <1>5

(* A cancel that LongOperationProgress.cancel accepts is honoured by an    *)
(* operation that met no other one: enter_finish closes the last moment at *)
(* which one is accepted, and check_cancel comes before every source.      *)
THEOREM CancelRollsBackAlways == Spec => []CancelRollsBack
<1>1. Init => Truth /\ Cancelling
  BY DEF Init, Truth, ChangesAreEnds, ChangeIsEnd, ShownIsOver, NewOp, NoProgress, Cancelling,
         PastCancel, CancelIsPending
<1>2. TypeOK /\ Truth /\ [Next]_vars => Truth'
  BY TruthStep
<1>3. TypeOK /\ Exclusion /\ Truth /\ Cancelling /\ [Next]_vars => Cancelling'
  BY StartCancelling, RunCancelling, EndCancelling, OtherCancelling DEF Next, Fault, Exclusion
<1>4. TypeOK /\ Cancelling => CancelRollsBack
  BY DEF TypeOK, Cancelling, CancelIsPending, CancelRollsBack
<1> QED BY <1>1, <1>2, <1>3, <1>4, TypeCorrect, ExclusionAlways, PTL DEF Spec

=============================================================================
