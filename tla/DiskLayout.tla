---------------------------- MODULE DiskLayout ----------------------------
(***************************************************************************)
(* Where the sectors of a disk are: the layout of a track, merged from the *)
(* entries of the configuration that apply to it, the order of the tracks, *)
(* and the numbering a filesystem sees.                                    *)
(*                                                                         *)
(* An entry (LayoutdataProto) is a record [track, upToTrack, side,         *)
(* physical, filesystem]; a list of sectors (SectorListProto) is a record  *)
(* [sector, start, count, skew].  A field that is not set is None.  The    *)
(* size of a sector is left out.                                           *)
(***************************************************************************)
EXTENDS Integers, Sequences, SequencesExt

CONSTANT None

Applies(entry, track, side) ==
    /\ entry.track # None /\ entry.upToTrack # None
          => track \in entry.track .. entry.upToTrack
    /\ entry.track # None /\ entry.upToTrack = None => track = entry.track
    /\ entry.side # None => side = entry.side

\* MergeFrom() overwrites a field that is set, and appends to a repeated one.
MergedField(a, b) == IF b = None THEN a ELSE b

MergedList(a, b) ==
    IF a = None \/ b = None THEN MergedField(a, b)
    ELSE [sector |-> a.sector \o b.sector,
          start  |-> MergedField(a.start, b.start),
          count  |-> MergedField(a.count, b.count),
          skew   |-> MergedField(a.skew, b.skew)]

SectorLists(entries, track, side) ==
    LET Add(lists, entry) ==
            IF Applies(entry, track, side)
            THEN [physical   |-> MergedList(lists.physical, entry.physical),
                  filesystem |-> MergedList(lists.filesystem, entry.filesystem)]
            ELSE lists
    IN  FoldLeft(Add, [physical |-> None, filesystem |-> None], entries)

Default(field, value) == IF field = None THEN value ELSE field

ExpandSectorList(list) ==
    IF list.count = None THEN list.sector
    ELSE [i \in 1 .. list.count |->
             Default(list.start, 0) + (((i - 1) * Default(list.skew, 1)) % list.count)]

\* A list needs sectors, or a count and no sectors.
Expandable(list) == list # None /\ (list.count = None <=> list.sector # <<>>)

LogicalSectorOrder(entries, track, side) ==
    ExpandSectorList(SectorLists(entries, track, side).physical)

FilesystemSectorOrder(entries, track, side) ==
    LET lists == SectorLists(entries, track, side)
    IN  ExpandSectorList(Default(lists.filesystem, lists.physical))

\* getLayoutOfTrack() returns, instead of throwing.
LaidOut(entries, track, side) ==
    LET lists == SectorLists(entries, track, side)
    IN  /\ Expandable(lists.physical)
        /\ lists.filesystem # None => Expandable(lists.filesystem)
        /\ Len(FilesystemSectorOrder(entries, track, side))
              = Len(LogicalSectorOrder(entries, track, side))

\* Mutant: the sectors keep their numbers.
Mapped_Kept(from, to, sector) == sector

\* The sector a list of pairs maps to; of several the last one entered.
Mapped(from, to, sector) ==
    to[CHOOSE i \in DOMAIN from :
           from[i] = sector /\ \A j \in DOMAIN from : from[j] = sector => j <= i]

\* filesystemToLogicalSectorMap.at()
FilesystemToLogical(entries, track, side, sector) ==
    Mapped(LogicalSectorOrder(entries, track, side),
           FilesystemSectorOrder(entries, track, side), sector)

\* Mutant: the other map.
LogicalToFilesystem_Inverse(entries, track, side, sector) ==
    FilesystemToLogical(entries, track, side, sector)

\* logicalToFilesystemSectorMap.at()
LogicalToFilesystem(entries, track, side, sector) ==
    Mapped(FilesystemSectorOrder(entries, track, side),
           LogicalSectorOrder(entries, track, side), sector)

\* getTrackOrdering(): by cylinders, or by sides.
TrackOrdering(order, tracks, sides) ==
    [i \in 1 .. tracks * sides |->
        IF order = "CHS" THEN <<(i - 1) \div sides, (i - 1) % sides>>
        ELSE <<(i - 1) % tracks, (i - 1) \div tracks>>]

\* The sectors of a track, as keys of an image.
OnTrack(trackAndSide, sectors) ==
    [i \in DOMAIN sectors |-> <<trackAndSide[1], trackAndSide[2], sectors[i]>>]

\* _locations of a filesystem: where its blocks are.
FilesystemLocations(entries, ordering) ==
    FlattenSeq([i \in DOMAIN ordering |->
        OnTrack(ordering[i],
                FilesystemSectorOrder(entries, ordering[i][1], ordering[i][2]))])
=============================================================================
