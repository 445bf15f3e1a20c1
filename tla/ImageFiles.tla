---------------------------- MODULE ImageFiles ----------------------------
(***************************************************************************)
(* The image files a filesystem can be on: six pairs of a reader and a     *)
(* writer, and the reordering of sectors around them.                      *)
(*                                                                         *)
(* An image is a function from keys <<track, side, sector>> to sectors     *)
(* [status, data].  A file of the formats "img", "d64", "nsi" and          *)
(* "diskcopy" is a sequence of the contents of sectors, each at its place; *)
(* one of "d88" and "imd" is a sequence of tracks, each a sequence of      *)
(* records.  A disk c is the configuration: its format, layout, and the    *)
(* sectors of each track for the formats that fix them in their code       *)
(* (c.zones).  Of diskcopy it is the GCR kind.  Sizes of sectors, clocks   *)
(* and checksums are left out, and tracks are taken not to be remapped.    *)
(***************************************************************************)
EXTENDS DiskLayout, FiniteSets, FiniteSetsExt, TLC

CONSTANTS
    Disks,          \* the disks a run looks at
    Zeros, NoData   \* a sector of zeros; a sector without data

Sector(status, data) == [status |-> status, data |-> data]

Ordering(c) == TrackOrdering(c.order, c.tracks, c.sides)

Laid(c) == \A i \in DOMAIN Ordering(c) :
               LaidOut(c.entries, Ordering(c)[i][1], Ordering(c)[i][2])

\* The blocks a filesystem numbers.
Blocks == [c \in Disks |-> FilesystemLocations(c.entries, Ordering(c))]

From0(n) == [i \in 1 .. n |-> i - 1]

\* calculateSize().  Of an image without sectors only the tracks and sides, none,
\* are used.
Geometry(image) ==
    LET Field(i) == {key[i] : key \in DOMAIN image}
        first    == IF image = <<>> THEN 0 ELSE Min(Field(3))
    IN  [tracks  |-> Max(Field(1) \cup {-1}) + 1,
         sides   |-> Max(Field(2) \cup {-1}) + 1,
         first   |-> first,
         sectors |-> Max(Field(3) \cup {0}) - first + 1]

-----------------------------------------------------------------------------
(* Formats with a place for each sector.                                     *)

\* The places of a track, in the order of an img file.
ImgTrack(c, trackAndSide) ==
    OnTrack(trackAndSide, LogicalSectorOrder(c.entries, trackAndSide[1], trackAndSide[2]))

\* Tracks of decreasing lengths, of one side.
D64Track(c, trackAndSide) == OnTrack(trackAndSide, From0(c.zones[trackAndSide[1] + 1]))

\* The second side runs back.
NsiOrdering(c) ==
    [i \in 1 .. c.tracks * c.sides |->
        IF i <= c.tracks THEN <<i - 1, 0>> ELSE <<2 * c.tracks - i, 1>>]

TracksIn(c) ==
    CASE c.format = "img"      -> [i \in DOMAIN Ordering(c) |-> ImgTrack(c, Ordering(c)[i])]
      [] c.format = "nsi"      -> [i \in DOMAIN NsiOrdering(c) |-> D64Track(c, NsiOrdering(c)[i])]
      [] c.format \in {"d64", "diskcopy"} ->
             LET ordering == TrackOrdering("CHS", c.tracks, c.sides)
             IN  [i \in DOMAIN ordering |-> D64Track(c, ordering[i])]
      [] OTHER -> <<>>

TracksOfFile == [c \in Disks |-> TracksIn(c)]
Places       == [c \in Disks |-> FlattenSeq(TracksIn(c))]

\* A sector that is not in the image, or has no data, leaves a gap of zeros,
\* or after the last one nothing.
WritePlaces(c, image) ==
    LET places == Places[c]
        Present(i) == places[i] \in DOMAIN image /\ image[places[i]].data # NoData
        size == Max({0} \cup {i \in DOMAIN places : Present(i)})
    IN  [i \in 1 .. size |-> IF Present(i) THEN image[places[i]].data ELSE Zeros]

\* The tracks an img reader begins before it has read past the end.
ImgTracksRead(c, file) ==
    LET tracks == TracksOfFile[c]
    IN  {i \in DOMAIN tracks : Len(FlattenSeq(SubSeq(tracks, 1, i - 1))) <= Len(file)}

\* What is past the end reads as zeros, or as a sector without data.
ReadPlaces(c, file) ==
    LET places == Places[c]
        Place(key) == CHOOSE i \in DOMAIN places : places[i] = key
        keys == IF c.format = "img"
                THEN UNION {Range(TracksOfFile[c][i]) : i \in ImgTracksRead(c, file)}
                ELSE Range(places)
    IN  [key \in keys |->
            IF Place(key) <= Len(file) THEN Sector("OK", file[Place(key)])
            ELSE IF c.format = "d64" THEN Sector("DATA_MISSING", NoData)
            ELSE Sector("OK", Zeros)]

-----------------------------------------------------------------------------
(* Formats of records.                                                       *)

\* The tracks alternate between the sides, whatever the sides of the disk;
\* sectors are looked for up to the number of sectors.
WriteD88(image, g) ==
    LET Keys(n) == {key \in DOMAIN image : /\ key[1] = n \div 2 /\ key[2] = n % 2
                                           /\ key[3] \in g.first .. g.sectors}
        Record(key) == [key  |-> key, data |-> image[key].data,
                        good |-> image[key].status # "BAD_CHECKSUM"]
    IN  [i \in 1 .. g.tracks * g.sides |->
            LET keys == SetToSortSeq(Keys(i - 1), LAMBDA a, b : a[3] < b[3])
            IN  [j \in DOMAIN keys |-> Record(keys[j])]]

\* The records are read one after the other; an empty track takes those of the
\* next, and past the end of the file a sector <<0, 0, 0>> of zeros is found.
ReadD88(file) ==
    LET records == FlattenSeq(file)
        found   == [key \in {records[i].key : i \in DOMAIN records} |->
                       Sector("OK", records[CHOOSE i \in DOMAIN records : records[i].key = key].data)]
        short   == \E i \in DOMAIN file : file[i] = <<>>
    IN  IF short THEN (<<0, 0, 0>> :> Sector("OK", Zeros)) @@ found ELSE found

\* The sectors 1, 2, ... of a track, up to the first gap and to a limit that
\* shrinks to the shortest track so far; a side without a sector 1 ends the
\* cylinder.
ImdRun(image, track, side, limit) ==
    Max({0} \cup {n \in 1 .. limit : \A i \in 1 .. n : <<track, side, i>> \in DOMAIN image})

WriteImd(image, g) ==
    LET Record(key) == [key |-> key, data |-> image[key].data, good |-> TRUE]
        AddTrack(state, at) ==
            LET n == ImdRun(image, at[1], at[2], state.limit)
            IN  IF n = 0 \/ state.ended = at[1]
                THEN [state EXCEPT !.ended = at[1]]
                ELSE [state EXCEPT !.limit = n,
                          !.tracks = Append(@, [i \in 1 .. n |-> Record(<<at[1], at[2], i>>)])]
    IN  FoldLeft(AddTrack, [limit |-> g.sectors, ended |-> -1, tracks |-> <<>>],
                 TrackOrdering("CHS", g.tracks, g.sides)).tracks

ReadImd(file) ==
    LET records == FlattenSeq(file)
    IN  [key \in {records[i].key : i \in DOMAIN records} |->
            Sector("OK", records[CHOOSE i \in DOMAIN records : records[i].key = key].data)]

-----------------------------------------------------------------------------
(* All of them.                                                              *)

\* The writer throws once it has opened the file: an imd file has no status
\* for a sector a filesystem has put there, and no rate but the highest.
WriteThrows(c, image, g) ==
    /\ c.format = "imd"
    /\ \E record \in Range(FlattenSeq(WriteImd(image, g))) :
           ~c.highDensity \/ image[record.key].status = "INTERNAL_ERROR"

WriteImage(c, image, g) ==
    CASE c.format = "d88" -> WriteD88(image, g)
      [] c.format = "imd" -> WriteImd(image, g)
      [] OTHER            -> WritePlaces(c, image)

\* The reader returns: nsi files are known by their size, an imd file has a
\* comment, and a d88 record must be good.
Readable(c, file) ==
    CASE c.format = "nsi" -> Len(file) = Len(Places[c])
      [] c.format = "imd" -> file # <<>>
      [] c.format = "d88" -> \A i \in DOMAIN file : \A j \in DOMAIN file[i] : file[i][j].good
      [] OTHER            -> TRUE

ReadImage(c, file) ==
    CASE c.format = "d88" -> ReadD88(file)
      [] c.format = "imd" -> ReadImd(file)
      [] OTHER            -> ReadPlaces(c, file)

\* The image with its sectors renumbered; it is the client's image that
\* throws when a sector has no number.
Renumbered(image, Number(_)) ==
    [key \in {<<k[1], k[2], Number(k)>> : k \in DOMAIN image} |->
        image[CHOOSE k \in DOMAIN image : <<k[1], k[2], Number(k)>> = key]]

ReadMappedImage(c, file) ==
    IF ~c.filesystemSectorOrder THEN ReadImage(c, file)
    ELSE Renumbered(ReadImage(c, file),
                    LAMBDA k : FilesystemToLogical(c.entries, k[1], k[2], k[3]))

WriteMappedImage(c, image, g) ==
    IF ~c.filesystemSectorOrder THEN WriteImage(c, image, g)
    ELSE LET mapped == Renumbered(image,
                           LAMBDA k : LogicalToFilesystem(c.entries, k[1], k[2], k[3]))
         IN  WriteImage(c, mapped, Geometry(mapped))
=============================================================================
