--------------------------- MODULE ImageSectors ---------------------------
(***************************************************************************)
(* ImageSectorInterface: the sectors of a disk in an image file, which is  *)
(* read as a whole and written back as a whole.                            *)
(*                                                                         *)
(* The client is a filesystem, as in FluxSectors.  The image changes as    *)
(* soon as a sector is put; only `changed' tells that the file is behind.  *)
(* A sector that is not in the image, or has no data, counts as Garbled,   *)
(* one of zeros as Lost.                                                   *)
(***************************************************************************)
EXTENDS ImageFiles

CONSTANTS
    Data,       \* contents of a sector
    Initial,    \* bound: what the sectors of the file may hold at first
    MaxPending, \* bound: sectors put between two flushes
    Garbled, Lost

AllLocations == UNION {Range(Blocks[c]) : c \in Disks}

\* The key of a place for a client.
ClientKey(c, key) ==
    IF c.filesystemSectorOrder
    THEN <<key[1], key[2], FilesystemToLogical(c.entries, key[1], key[2], key[3])>>
    ELSE key

\* What makes a configuration with a format of places one of a disk: no track
\* has a sector twice, and each block of the filesystem has a place in the file.
Seated(c) ==
    /\ c.tracks \in Nat \ {0} /\ c.sides \in {1, 2}
    /\ \A t \in 0 .. c.tracks - 1, s \in 0 .. c.sides - 1 :
           \A list \in {LogicalSectorOrder(c.entries, t, s),
                        FilesystemSectorOrder(c.entries, t, s)} :
               list \in Seq(Nat) /\ IsInjective(list)
    /\ c.format # "img" => \A t \in 1 .. c.tracks : c.zones[t] \in Nat
    /\ c.filesystemSectorOrder =>
           \A key \in Range(Places[c]) :
               key[3] \in Range(LogicalSectorOrder(c.entries, key[1], key[2]))
    /\ Range(Blocks[c]) \subseteq {ClientKey(c, key) : key \in Range(Places[c])}

OfPlaces(c) == c.format \in {"img", "d64", "nsi", "diskcopy"}

ASSUME ImageSectorsAssumption ==
    /\ \A c \in Disks : Laid(c) /\ (OfPlaces(c) => Seated(c))
    /\ None \notin {Garbled, Lost, Zeros, NoData} /\ Garbled \notin {Lost, Zeros, NoData}
    /\ Lost \notin {Zeros, NoData} /\ Zeros # NoData
    /\ Data \cap {None, Garbled, Lost, Zeros, NoData} = {}
    /\ Initial \subseteq Data

VARIABLES
    disk,       \* the configuration
    file,       \* what the image file holds
    image,      \* _image
    geometry,   \* its geometry, as the reader left it
    changed,    \* _changed
    asked,      \* history: puts since the last flush or discard
    content,    \* history: what the file held as of then
    attempted   \* history: a flush has failed since then

history == <<asked, content, attempted>>
vars    == <<disk, file, image, geometry, changed, history>>

Blank == [l \in AllLocations |-> None]

\* What a client finds in an image.
Held(i, l) ==
    IF l \notin DOMAIN i \/ i[l].data = NoData THEN Garbled
    ELSE IF i[l].data = Zeros THEN Lost ELSE i[l].data

HeldBy(i) == [l \in AllLocations |-> Held(i, l)]

TypeOK ==
    /\ disk \in Disks
    /\ Len(file) <= IF disk.format \in {"d88", "imd"} THEN disk.tracks * disk.sides
                    ELSE Len(Places[disk])
    /\ \A l \in DOMAIN image :
           /\ image[l].status \in {"OK", "DATA_MISSING", "INTERNAL_ERROR"}
           /\ image[l].data \in Data \cup {Zeros, NoData}
    /\ \A l \in DOMAIN image : l[1] < disk.tracks /\ l[2] < disk.sides
    /\ changed \in BOOLEAN
    /\ asked \in [AllLocations -> Data \cup {None}]
    /\ content \in [AllLocations -> Data \cup {Garbled, Lost}]
    /\ attempted \in BOOLEAN

\* A file of places may end anywhere; one of records has all its sectors.
Files(c) ==
    IF c.format \in {"d88", "imd"}
    THEN {WriteImage(c, i, Geometry(i)) :
              i \in [Range(Blocks[c]) -> {Sector("OK", d) : d \in Initial}]}
    ELSE UNION {[1 .. n -> Initial] : n \in 0 .. Len(Places[c])}

Load(i) ==
    /\ image' = i /\ geometry' = Geometry(i)
    /\ changed' = FALSE

\* The constructor reads the file.
Init ==
    /\ disk \in Disks
    /\ file \in {f \in Files(disk) : Readable(disk, f)}
    /\ image = ReadMappedImage(disk, file) /\ geometry = Geometry(image)
    /\ changed = FALSE
    /\ asked = Blank /\ content = HeldBy(image) /\ attempted = FALSE

\* Image::put(): the sector, made anew or in the place of one there.
With(i, l, sector) == [k \in DOMAIN i \cup {l} |-> IF k = l THEN sector ELSE i[k]]

Pending(l) == Cardinality({l} \cup {k \in AllLocations : asked[k] # None})

\* Mutant: the change is not noted.
Put_Unnoted(l, d) ==
    /\ Pending(l) <= MaxPending
    /\ image' = With(image, l, Sector("INTERNAL_ERROR", d))
    /\ asked' = [asked EXCEPT ![l] = d]
    /\ UNCHANGED <<disk, file, geometry, changed, content, attempted>>

\* put(), and the assignment its caller makes through the pointer: the new
\* sector keeps the status it was made with.
Put(l, d) ==
    /\ Pending(l) <= MaxPending
    /\ image' = With(image, l, Sector("INTERNAL_ERROR", d))
    /\ changed' = TRUE
    /\ asked' = [asked EXCEPT ![l] = d]
    /\ UNCHANGED <<disk, file, geometry, content, attempted>>

\* flushChanges().  The image is as it was; what the file holds is what a
\* reader finds in it.
Flush ==
    /\ ~WriteThrows(disk, image, geometry)
    /\ file' = WriteMappedImage(disk, image, geometry)
    /\ changed' = FALSE
    /\ asked' = Blank /\ attempted' = FALSE
    /\ content' = IF Readable(disk, file') THEN HeldBy(ReadMappedImage(disk, file'))
                  ELSE [l \in AllLocations |-> Garbled]
    /\ UNCHANGED <<disk, image, geometry>>

\* The file cannot be opened; or its writer gives up with the file open, and
\* empty.
FlushThrows ==
    /\ \/ UNCHANGED file
       \/ WriteThrows(disk, image, geometry) /\ file' = <<>>
    /\ attempted' = TRUE
    /\ UNCHANGED <<disk, image, geometry, changed, asked, content>>

\* Mutant: only the flag is reset.
Discard_KeepImage ==
    /\ Readable(disk, file)
    /\ changed' = FALSE
    /\ asked' = Blank /\ content' = HeldBy(ReadMappedImage(disk, file)) /\ attempted' = FALSE
    /\ UNCHANGED <<disk, file, image, geometry>>

\* discardChanges() reads the file again; when that throws nothing changes.
Discard ==
    /\ Readable(disk, file)
    /\ Load(ReadMappedImage(disk, file))
    /\ asked' = Blank /\ content' = HeldBy(image') /\ attempted' = FALSE
    /\ UNCHANGED <<disk, file>>

Next ==
    \/ \E l \in Range(Blocks[disk]), d \in Data : Put(l, d)
    \/ Flush
    \/ FlushThrows
    \/ Discard

Spec == Init /\ [][Next]_vars

-----------------------------------------------------------------------------
(* Properties.                                                               *)

\* get() returns the last thing put there, also after a flush that threw, or
\* else what the file held; only a sector the file did not have stays missing
\* when a flush has filled its gap.  needsFlushing() tells whether the file is
\* behind.
ReadsLatest ==
    /\ changed <=> asked # Blank
    /\ \A l \in Range(Blocks[disk]) :
           IF asked[l] # None THEN Held(image, l) = asked[l]
           ELSE \/ Held(image, l) = content[l]
                \/ Held(image, l) = Garbled /\ content[l] = Lost

\* The image in memory is well formed and gives each client the latest data.
ImageTrue == TypeOK /\ ReadsLatest

\* An img file in filesystem order holds the blocks of the filesystem one
\* after the other, whatever the order of the sectors on their tracks.
BlocksInOrder ==
    disk.format = "img" /\ disk.filesystemSectorOrder /\ ~attempted =>
        \A k \in DOMAIN Blocks[disk] :
            k <= Len(file) => content[Blocks[disk][k]]
                                 = IF file[k] = Zeros THEN Lost ELSE file[k]

\* The interface is a sector store, whatever the format: a flush makes every
\* change, and only the changes, part of the file; one that throws loses none
\* of them.
Everywhere(l, puts) == TRUE
ReadAs(l, held) == IF held = Garbled THEN {Garbled, Lost} ELSE {held}
NoStrays == [l \in AllLocations |-> {}]

Store == INSTANCE SectorStore
             WITH Locations <- AllLocations, Rewritten <- Everywhere,
                  Reads <- ReadAs, strays <- NoStrays
StoreSpec == Store!Spec
=============================================================================
