-------------------------- MODULE MCImageSectors --------------------------
(* One small disk for each format, and two for img.                        *)
EXTENDS ImageSectors

Run(start, count, skew) == [sector |-> <<>>, start |-> start, count |-> count, skew |-> skew]
Ids(ids) == [sector |-> ids, start |-> None, count |-> None, skew |-> None]

Entry(track, upToTrack, physical, filesystem) ==
    [track |-> track, upToTrack |-> upToTrack, side |-> None,
     physical |-> physical, filesystem |-> filesystem]

Disk(format, tracks, sides, order, entries, zones) ==
    [format |-> format, tracks |-> tracks, sides |-> sides, order |-> order,
     entries |-> entries, zones |-> zones,
     filesystemSectorOrder |-> FALSE, highDensity |-> TRUE]

\* A track of three sectors in an order of their own, and one of a single
\* sector whose entry comes on top of the first.
ByBlocks ==
    [Disk("img", 2, 1, "CHS",
          <<Entry(None, None, Run(1, 3, 2), None),
            Entry(0, None, Run(None, None, None), Ids(<<3, 2, 1>>)),
            Entry(1, 1, Run(None, 1, None), None)>>, <<>>)
        EXCEPT !.filesystemSectorOrder = TRUE]

TwoByTwo(format, start) ==
    Disk(format, 2, 2, "HCS", <<Entry(None, None, Run(start, 1, None), None)>>, <<1, 1>>)

Zoned(format) ==
    Disk(format, 2, 1, "CHS",
         <<Entry(None, None, Run(0, 2, None), None), Entry(1, None, Run(None, 1, None), None)>>,
         <<2, 1>>)

MCDisks ==
    {ByBlocks, TwoByTwo("img", 0), Zoned("d64"), TwoByTwo("nsi", 0), Zoned("diskcopy"),
     TwoByTwo("d88", 1), TwoByTwo("imd", 1),
     [TwoByTwo("imd", 1) EXCEPT !.highDensity = FALSE]}
=============================================================================
