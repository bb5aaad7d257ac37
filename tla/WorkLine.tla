------------------------------ MODULE WorkLine ------------------------------
(***************************************************************************)
(* What the generation queue promises of its order, without rows, ids,     *)
(* times, workers or threads: one line of keys.  Work joins the line at    *)
(* its end, work is taken from its front in runs of one type, and work     *)
(* that is put back stands where it stood.                                 *)
(***************************************************************************)
EXTENDS SequencesExt, Lines

CONSTANTS
    Keys,     \* what can be worked on
    TypeOf    \* the kind of work of a key

VARIABLES
    line,     \* the keys in line or being worked on, in the order they joined
    running,  \* the ones being worked on
    failed    \* the keys whose work failed and was not asked for again

vars == <<line, running, failed>>

Active == Range(line)
LeftOf(ks) == Picked(line, {n \in DOMAIN line : line[n] \notin ks})
Waiting == LeftOf(running)

Init == line = <<>> /\ running = {} /\ failed = {}

(* Asked for, or asked for once more after a failure.                      *)
Join(ks) ==
    /\ ks \cap Active = {}
    /\ \E order \in SetToSeqs(ks) : line' = line \o order
    /\ failed' \in SUBSET failed
    /\ failed \ failed' \subseteq ks
    /\ failed' \cap ks = {}
    /\ UNCHANGED running

Take(n) ==
    /\ n \in 1 .. Len(Waiting)
    /\ \A i \in 1 .. n : TypeOf[Waiting[i]] = TypeOf[Waiting[1]]
    /\ running' = running \cup {Waiting[i] : i \in 1 .. n}
    /\ UNCHANGED <<line, failed>>

PutBack(ks) ==
    /\ ks \subseteq running
    /\ running' = running \ ks
    /\ UNCHANGED <<line, failed>>

GiveUp(ks) ==
    /\ ks \subseteq running
    /\ line' = LeftOf(ks)
    /\ running' = running \ ks
    /\ failed' = failed \cup ks

(* Finished, cancelled or dismissed.                                       *)
Leave(ks) ==
    /\ line' = LeftOf(ks)
    /\ running' = running \ ks
    /\ failed' = failed \ ks

Next ==
    \/ \E ks \in SUBSET Keys : Join(ks) \/ PutBack(ks) \/ GiveUp(ks) \/ Leave(ks)
    \/ \E n \in 1 .. Len(line) : Take(n)

Spec == Init /\ [][Next]_vars

=============================================================================
