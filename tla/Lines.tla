------------------------------- MODULE Lines -------------------------------
(***************************************************************************)
(* Sequences that are made by putting things in order: of each thing the   *)
(* ones ahead of it are known, and its place is how many they are.  What   *)
(* SortSeq and SelectSeq compute, said without a search or a recursion, so *)
(* that it can be reasoned about for every set.                            *)
(***************************************************************************)
EXTENDS Naturals, FiniteSets

(* `ahead`: each of the things with the set of the ones ahead of it.       *)
LineUp(ahead) ==
    [n \in 1 .. Cardinality(DOMAIN ahead) |->
        CHOOSE x \in DOMAIN ahead : Cardinality(ahead[x]) = n - 1]

(* Some numbers, the smaller ones first.                                   *)
Ascending(places) == LineUp([i \in places |-> {j \in places : j < i}])

(* The elements of a sequence at some of its places, in their order.       *)
Picked(seq, places) ==
    LET at == Ascending(places)
    IN  [n \in DOMAIN at |-> seq[at[n]]]

=============================================================================
