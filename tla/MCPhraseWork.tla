---------------------------- MODULE MCPhraseWork ----------------------------
(* Instances of PhraseWork for TLC.                                        *)
EXTENDS PhraseWork, TLC

CONSTANTS p1, p2, s1, s2, a, b

(* A phrase, or two phrases of two sources.                                *)
MCSourceOf == [p \in Phrases |-> IF p = p1 THEN s1 ELSE s2]
MCRunLimit == [k \in Kinds |-> IF k = Speech THEN 1 ELSE 2]

(* Everything; and one kind of a source beside it.                         *)
MCEverything == {[kind |-> Unset, source |-> Unset]}
MCSelections == MCEverything \cup {[kind |-> Polish, source |-> s2]}

SymmetricTexts == Permutations(Texts)

=============================================================================
