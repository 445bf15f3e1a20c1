---------------------------- MODULE MCTrackDecode ----------------------------
(* The tracks that are written: the first of a disk, one on the second side, *)
(* and one whose number needs a seventh bit.  The track that is damaged has  *)
(* headers of other tracks, of a track there is no layout for, and of a      *)
(* sector that is to be ignored.                                             *)
EXTENDS TrackDecode

MCHomes == {[t |-> 0, s |-> 0], [t |-> 1, s |-> 1], [t |-> 64, s |-> 0], [t |-> 64, s |-> 1]}
MCHere == [t |-> 1, s |-> 0]
MCStrays == {<<1, 1>>, <<2, 0>>, <<3, 0>>, <<1, 99>>}
MCWholeStrays == {<<1, 1>>, <<2, 0>>}
=============================================================================
