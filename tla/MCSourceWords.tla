--------------------------- MODULE MCSourceWords ---------------------------
(* Instances of SourceWords for TLC.                                       *)
EXTENDS SourceWords

CONSTANTS a, b, plain, hard

Occ(text, facts, score) == [text |-> text, facts |-> facts, score |-> score]
Built(data, at) == [data |-> data, at |-> at]

First == a :> Built("rare", <<1, 1>> :> Occ(plain, 1, 5) @@ <<2, 1>> :> Occ(hard, 1, 13))
         @@ b :> Built("rare", <<1, 2>> :> Occ(plain, 1, 4))
(* The target stands elsewhere on its line, with other facts.              *)
Shifted == a :> Built("rare", <<1, 2>> :> Occ(plain, 2, 5) @@ <<1, 3>> :> Occ(plain, 1, 2))
(* The lines read otherwise, the word is frequent by now.                  *)
Reread == a :> Built("frequent", <<1, 1>> :> Occ(hard, 2, 16) @@ <<2, 1>> :> Occ(hard, 2, 11))
MCPlaces == {<<1, 2>>}
MCLooked == [w \in Words |-> "rare"]
MCAnalyses == {First, Shifted, Reread}

=============================================================================
