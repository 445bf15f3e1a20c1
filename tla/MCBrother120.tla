--------------------------- MODULE MCBrother120 ---------------------------
(* A disk with three or four sectors for files.  "a" and "ab" are names    *)
(* that differ only past a blank; emoji is one that hides its file.        *)
EXTENDS Brother120

CONSTANTS a, ab, emoji, long, x, y

MCNames   == {a, ab, emoji, long}
MCShown   == (a :> a) @@ (ab :> a) @@ (emoji :> Hidden) @@ (long :> a)
MCContents == {<<>>, <<y>>, <<x, y>>, <<y, x, y>>}
MCTrackOf == [b \in Blocks |-> b \div 2]
=============================================================================
