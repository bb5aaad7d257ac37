------------------------------- MODULE MCMedia -------------------------------
(* Instances of Media for TLC.                                              *)
EXTENDS Media

CONSTANTS scene, line, cat, tree, first, second

MCPhrases == {scene, line}
MCFilmed == {scene}
MCPictures == {cat, tree}
MCMakers == {first, second}

=============================================================================
