------------------------------ MODULE MCReview ------------------------------
(* Instances of Review for TLC: cards 1 and 2 of one word, card 3 of       *)
(* another source.                                                         *)
EXTENDS Review

CONSTANTS s, t

MCWordOf == [c \in Cards |-> IF c = 3 THEN 2 ELSE 1]
MCSourceOf == [c \in Cards |-> IF c = 3 THEN t ELSE s]
MCOwnKey == [c \in Cards |-> CASE c = 1 -> 3 [] c = 2 -> 1 [] OTHER -> 2]

=============================================================================
