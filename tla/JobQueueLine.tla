---------------------------- MODULE JobQueueLine ----------------------------
(***************************************************************************)
(* The generation queue implements the line of work: what its rows, their  *)
(* times and ids, the worker's claims and its late threads do to the table *)
(* is a step of WorkLine, or none.                                         *)
(***************************************************************************)
EXTENDS JobQueue, Lines

(* The keys of the active jobs in the order of the queue.                  *)
AheadIn(t) == [i \in Active(t) |-> {j \in Active(t) : Before(t, j, i)}]

LineOf(t) ==
    LET order == LineUp(AheadIn(t))
    IN  [n \in DOMAIN order |-> t[order[n]].key]

Line == INSTANCE WorkLine
    WITH line <- LineOf(jobs),
         running <- KeysOf(jobs, Running(jobs)),
         failed <- KeysOf(jobs, Failed(jobs))

(* Nobody is overtaken: new and retried work goes to the end of the line,  *)
(* the worker takes a run of one type from its front, and work put back,   *)
(* after an outage of the AI or a restart of the worker, keeps its place.  *)
ImplementsWorkLine == Line!Spec

=============================================================================
