-------------------------- MODULE MCWordDecisions --------------------------
(* Instances of WordDecisions for TLC.                                     *)
EXTENDS WordDecisions

CONSTANTS lamp, moon, s, t, u, w1, w2, w3, a1, a2, b1, d1

MCLemmaOf == [w \in Words |-> IF w = w3 THEN moon ELSE lamp]
MCSourceOf == [w \in Words |-> CASE w = w2 -> t [] w = w3 -> u [] OTHER -> s]
MCWordOf == [c \in Cards |-> CASE c = b1 -> w2 [] c = d1 -> w3 [] OTHER -> w1]
(* The phrase of d1 holds the other lemma.                                 *)
MCHolds == [c \in Cards |-> IF c = d1 THEN {lamp} ELSE {}]

=============================================================================
