---------------------------- MODULE Brother120 ----------------------------
(***************************************************************************)
(* The Brother word processor filesystem on top of a SectorInterface: a    *)
(* directory and a table that chains the sectors of each file, read anew   *)
(* by every operation and written as a whole.                              *)
(*                                                                         *)
(* Sector s of the table is block s - 1.  The eight blocks of the          *)
(* directory are one block here, those of the table another; on the disk   *)
(* all twelve are the first track.  The content of the directory's block   *)
(* is the list of the files it has, that of the table's block the table;   *)
(* that of any other block is a member of Data.                            *)
(*                                                                         *)
(* The sectors below behave as SectorStore says of a disk without strays,  *)
(* a flush writing the changed tracks in ascending order.  A block of the  *)
(* directory or the table that cannot be read is the end of what is        *)
(* modelled: the program                                                   *)
(* goes on with whatever it reads, or with a null pointer.                 *)
(***************************************************************************)
EXTENDS Integers, Sequences, SequencesExt, FiniteSets, FiniteSetsExt, Functions

CONSTANTS
    SectorCount,     \* SECTOR_COUNT
    DirectorySize,   \* DIRECTORY_SIZE, in files
    MaxLength,       \* sectors of a file (255)
    Reserved,        \* sectors taken on a disk without files
    TrackOf,         \* the track of each block
    Names, LongNames,\* names; those of more than eight characters
    Shown, Hidden,   \* the name a file is found under: names are cut at a
                     \* blank, and one that begins with f0 is no file
    Data, Initial,   \* contents of a block, and of all blocks at first
    Contents,        \* bound: the contents of the files put, by blocks
    MaxChanges,      \* bound: operations before the changes are flushed
    MaxAttempts,     \* bound: flushes that fail before one succeeds
    None, Lost, Ruined

Sectors  == 1 .. SectorCount - 1
Blocks   == 0 .. SectorCount - 2
DirBlock == 0
FatBlock == 1
End      == 65535

\* The entries of a directory; the tables.
Entries == [name : Names \ LongNames, startSector : Sectors \cup {End},
            sectorLength : 0 .. MaxLength]
Tables  == [Sectors -> {0, End} \cup Sectors]

ASSUME Brother120Assumption ==
    /\ SectorCount \in Nat /\ SectorCount < End
    /\ {DirBlock + 1, FatBlock + 1} \subseteq Reserved /\ Reserved \subseteq Sectors
    /\ TrackOf \in [Blocks -> Nat] /\ TrackOf[DirBlock] = TrackOf[FatBlock]
    /\ \A a, b \in Blocks : a <= b => TrackOf[a] <= TrackOf[b]
    /\ {DirectorySize, MaxLength, MaxChanges, MaxAttempts} \subseteq Nat /\ Contents \subseteq Seq(Data)
    /\ LongNames \subseteq Names
    /\ Shown \in [Names -> (Names \ LongNames) \cup {Hidden}]
    /\ Initial \in Data /\ {None, Lost} \cap Data = {} /\ None # Lost
    /\ \A v \in {None, Lost} : v \notin Seq(Entries) /\ v \notin Tables
    /\ Ruined \notin Seq([name : Names, contents : Seq(Data \cup {Lost})])

VARIABLES
    disk,      \* what the disk holds
    content,   \* what it held when the last flush or discard was done
    pending,   \* blocks put since then, or None
    list,      \* history: the files and the room that the filesystem finds
    saved,     \* history: those of content
    attempts,  \* history: those that a flush since then failed to write
    touched,   \* history: names put or deleted since then
    changes    \* history: operations since then

vars == <<disk, content, pending, list, saved, attempts, touched, changes>>

Untouched == [b \in Blocks |-> None]

\* The blocks as the filesystem finds them.
Over(puts, under) == [b \in Blocks |-> IF puts[b] = None THEN under[b] ELSE puts[b]]
Current           == Over(pending, content)

-----------------------------------------------------------------------------
(* A directory: BrotherDirectory.                                            *)

Dirent(name, start, length) == [name |-> name, startSector |-> start, sectorLength |-> length]

Dirents(blocks) == blocks[DirBlock]
Fat(blocks)     == blocks[FatBlock]
Readable(blocks) == Dirents(blocks) # Lost /\ Fat(blocks) # Lost

\* The sectors met from the first one on, until there is none; those of a
\* cycle again and again.
Chain(fat, first) ==
    LET follow[n \in 0 .. SectorCount] ==
            IF n = 0 THEN <<first>>
            ELSE LET before == follow[n - 1]
                 IN  IF Last(before) \in {0, End} THEN before
                     ELSE Append(before, fat[Last(before)])
    IN  Front(follow[SectorCount])

\* findFile(): the first one of the name.
Named(blocks, name) == {i \in DOMAIN Dirents(blocks) : Dirents(blocks)[i].name = name}
FindFile(blocks, name) == Min(Named(blocks, name))

\* getFile()
GetFile(blocks, dirent) ==
    LET chain == Chain(Fat(blocks), dirent.startSector)
    IN  [i \in DOMAIN chain |-> blocks[chain[i] - 1]]

Free(fat) == {s \in Sectors : fat[s] = 0}

\* The sectors that allocateSector() gives one after the other: the first
\* ones of the free.
Allocated(fat, count) ==
    [i \in 1 .. count |->
        CHOOSE s \in Free(fat) : Cardinality({k \in Free(fat) : k < s}) = i - 1]

\* Each sector is linked to the next as that is allocated.
Chained(fat, chain) ==
    [s \in Sectors |->
        IF s \notin Range(chain) THEN fat[s]
        ELSE LET i == CHOOSE i \in DOMAIN chain : chain[i] = s
             IN  IF i = Len(chain) THEN End ELSE chain[i + 1]]

\* Mutant: only the first sector is freed.
Freed_FirstOnly(fat, chain) == [s \in Sectors |-> IF s = Head(chain \o <<0>>) THEN 0 ELSE fat[s]]

\* The chain of a deleted file.
Freed(fat, chain) == [s \in Sectors |-> IF s \in Range(chain) THEN 0 ELSE fat[s]]

\* Mutant: the table is left as it is.
WrittenDirectory_DirOnly(dirents, fat) == [Untouched EXCEPT ![DirBlock] = dirents]

\* write(): the blocks of the directory and the table.
WrittenDirectory(dirents, fat) ==
    [Untouched EXCEPT ![DirBlock] = dirents, ![FatBlock] = fat]

\* The directory with one more entry, as it will be read.
Entered(dirents, dirent) ==
    IF dirent.name = Hidden THEN dirents ELSE Append(dirents, dirent)

-----------------------------------------------------------------------------
(* The operations.                                                           *)

\* The table and the chain of a file as it is put: as long as there is room.
FirstOf(chain) == IF chain = <<>> THEN End ELSE chain[1]

Stored(chain, data) ==
    [b \in Blocks |->
        IF b + 1 \in Range(chain) THEN data[CHOOSE i \in DOMAIN chain : chain[i] = b + 1]
        ELSE None]

\* Neither allocateSector() nor write() finds the disk full.
Fits(dirents, fat, data) ==
    Len(data) <= Cardinality(Free(fat)) /\ Len(dirents) < DirectorySize

\* putFile().  When the disk or the directory is full the blocks written so
\* far stay put.  A file that exists, a name too long and a file too big
\* throw before anything changes.
PutFile(name, data) ==
    /\ Readable(Current) /\ changes < MaxChanges
    /\ Named(Current, name) = {} /\ name \notin LongNames /\ Len(data) <= MaxLength
    /\ LET dirents == Dirents(Current)
           fat     == Fat(Current)
           chain   == Allocated(fat, Min({Len(data), Cardinality(Free(fat))}))
           dirent  == Dirent(Shown[name], FirstOf(chain), Len(data))
           put     == Over(Stored(chain, data), pending)
       IN  /\ pending' =
                  IF Fits(dirents, fat, data)
                  THEN Over(WrittenDirectory(Entered(dirents, dirent), Chained(fat, chain)), put)
                  ELSE put
           /\ touched' = IF Fits(dirents, fat, data) THEN touched \cup {Shown[name]}
                         ELSE touched
    /\ changes' = changes + 1
    /\ UNCHANGED <<disk, content, attempts>>

\* deleteFile(); of a file that is not there it throws.
DeleteFile(name) ==
    /\ Readable(Current) /\ changes < MaxChanges
    /\ Named(Current, name) # {}
    /\ LET found == FindFile(Current, name)
           chain == Chain(Fat(Current), Dirents(Current)[found].startSector)
       IN  pending' = Over(WrittenDirectory(RemoveAt(Dirents(Current), found),
                                            Freed(Fat(Current), chain)), pending)
    /\ touched' = touched \cup {name}
    /\ changes' = changes + 1
    /\ UNCHANGED <<disk, content, attempts>>

\* Blocks of the tracks a flush writes.
Rewritten == {b \in Blocks : \E k \in Blocks : pending[k] # None /\ TrackOf[k] = TrackOf[b]}

\* flushChanges() of the sectors.
Flush ==
    /\ disk' = [b \in Blocks |-> IF b \in Rewritten THEN Current[b] ELSE disk[b]]
    /\ content' = disk' /\ pending' = Untouched
    /\ attempts' = {} /\ touched' = {} /\ changes' = 0

\* It throws at a track: those before it are written, it is not, or is but
\* cannot be read whole.
FlushFails ==
    /\ Rewritten # {} /\ Cardinality(attempts) < MaxAttempts
    /\ \E t \in {TrackOf[b] : b \in Rewritten} :
           LET At == {b \in Blocks : TrackOf[b] = t}
           IN  \E left \in {[b \in At |-> disk[b]]} \cup
                           {[b \in At |-> IF b \in bad THEN Lost ELSE Current[b]] :
                                bad \in SUBSET At} :
                   disk' = [b \in Blocks |->
                               IF b \in At THEN left[b]
                               ELSE IF b \in Rewritten /\ TrackOf[b] < t THEN Current[b]
                               ELSE disk[b]]
    /\ attempts' = attempts \cup {list}
    /\ UNCHANGED <<content, pending, touched, changes>>

\* discardChanges(); also what a program that has ended leaves to the next.
Discard ==
    /\ content' = disk /\ pending' = Untouched
    /\ attempts' = {} /\ touched' = {} /\ changes' = 0
    /\ UNCHANGED disk

\* The files of a disk, and its room.
FilesOf(blocks) ==
    IF ~Readable(blocks) THEN Ruined
    ELSE [i \in DOMAIN Dirents(blocks) |->
             [name     |-> Dirents(blocks)[i].name,
              contents |-> GetFile(blocks, Dirents(blocks)[i])]]

FreeOf(blocks) == IF Readable(blocks) THEN Cardinality(Free(Fat(blocks))) ELSE 0
ListOf(blocks) == [files |-> FilesOf(blocks), free |-> FreeOf(blocks)]

\* What the history keeps of the blocks.
Observed ==
    /\ list' = ListOf(Over(pending', content'))
    /\ saved' = ListOf(content')

Formatted ==
    [b \in Blocks |->
        CASE b = DirBlock -> <<>>
          [] b = FatBlock -> [s \in Sectors |-> IF s \in Reserved THEN End ELSE 0]
          [] OTHER        -> Initial]

Init ==
    /\ disk = Formatted /\ content = disk /\ pending = Untouched
    /\ list = ListOf(disk) /\ saved = list
    /\ attempts = {} /\ touched = {} /\ changes = 0

Next ==
    /\ \/ \E n \in Names, c \in Contents : PutFile(n, c)
       \/ \E n \in Names : DeleteFile(n)
       \/ Flush
       \/ FlushFails
       \/ Discard
    /\ Observed

Spec == Init /\ [][Next]_vars

-----------------------------------------------------------------------------
(* Properties.                                                               *)

TypeOK ==
    /\ \A blocks \in {disk, content, Current} :
           /\ Dirents(blocks) = Lost \/ Dirents(blocks) \in Seq(Entries)
           /\ Fat(blocks) = Lost \/ Fat(blocks) \in Tables
           /\ \A b \in Blocks \ {DirBlock, FatBlock} : blocks[b] \in Data \cup {Lost}
    /\ touched \subseteq Names \cup {Hidden}

\* Each file has a chain of its own, of the length its entry says, that ends;
\* no chain holds a reserved sector.
ChainsIntact(blocks) ==
    LET dirents  == Dirents(blocks)
        chain(i) == Chain(Fat(blocks), dirents[i].startSector)
    IN  Readable(blocks) =>
            /\ Len(dirents) <= DirectorySize
            /\ \A i \in DOMAIN dirents :
                   /\ IsInjective(chain(i)) /\ Len(chain(i)) = dirents[i].sectorLength
                   /\ Range(chain(i)) \cap Reserved = {}
                   /\ \A j \in DOMAIN dirents :
                          i # j => Range(chain(i)) \cap Range(chain(j)) = {}

\* The chains are intact as the filesystem finds them, and on the disk too,
\* wherever a flush has failed, for whoever reads the disk next.
DiskIntact == TypeOK /\ ChainsIntact(Current) /\ ChainsIntact(disk)

\* The filesystem keeps files: an operation has its effect as a whole or has
\* none, whatever it has put by then; room is neither lost nor made; and a
\* flush that fails spoils no file but those that were changed.
Files == INSTANCE FileStore
             WITH files <- list.files, free <- list.free, MaxFiles <- DirectorySize
FilesSpec == Files!Spec
=============================================================================
