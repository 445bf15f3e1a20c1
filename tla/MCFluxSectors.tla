------------------------- MODULE MCFluxSectors -------------------------
(* Two tracks, of two sectors and of one.  The first sector of the first     *)
(* reads badly now and then.  Both disks have a stray on the first track:    *)
(* one has the number of that sector, which cannot be read at first, as      *)
(* cannot the one on the other track; the other that of the good one beside  *)
(* it.  Writing makes disks without strays of them.                          *)
EXTENDS FluxSectors, TLC

CONSTANTS a, b

MCLayout == <<{1, 2}, {1}>>
MCWeak   == {<<1, 1>>}

All(v)     == [l \in {<<1, 1>>, <<1, 2>>, <<2, 1>>} |-> v]
Bad(where) == [l \in where |-> Garbled] @@ All(a)

MCPuts  == All({b})
MCDisks ==
    {[held |-> Bad({<<1, 1>>, <<2, 1>>}), strays |-> <<1, 1>> :> {b} @@ All({})],
     [held |-> All(a), strays |-> <<1, 2>> :> {b} @@ All({})]}
=============================================================================
