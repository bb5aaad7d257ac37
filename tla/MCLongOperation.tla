--------------------------- MODULE MCLongOperation ---------------------------
(* Instances of LongOperation for TLC.                                     *)
EXTENDS LongOperation

CONSTANTS s1, s2, both, second, update, recut, process, level, p1, p2

(* Two sets of sources: both of them, and the second alone.                *)
MCScopeOf == [x \in Registered \cup Previews |->
                IF x \in {update, p1} THEN both ELSE second]
MCMembers == [scope \in Scopes |-> IF scope = both THEN Sources ELSE {s2}]

=============================================================================
