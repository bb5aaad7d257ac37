----------------------------- MODULE MCJobQueue -----------------------------
(* Instances of JobQueue for TLC.                                          *)
EXTENDS JobQueueLine

CONSTANTS m1, m2, v, t1, s1, s2, meaning, video, speech

(* Two meanings of different sources, claimed as one run.                  *)
PairKeys == {m1, m2}
(* A meaning, a download and a TTS job.                                    *)
MixedKeys == {m1, v, t1}

KindOf(k) == CASE k \in {m1, m2} -> meaning
               [] k = v -> video
               [] OTHER -> speech
HomeOf(k) == IF k \in {m1, t1, v} THEN s1 ELSE s2

MCTypeOf == [k \in Keys |-> KindOf(k)]
MCSourceOf == [k \in Keys |-> HomeOf(k)]
MCRunLimit == [t \in Types |-> IF t = meaning THEN 2 ELSE 1]

=============================================================================
