--------------------------- MODULE FluxSectors ---------------------------
(***************************************************************************)
(* FluxSectorInterface: the sectors of a disk behind a flux source and a   *)
(* flux sink, read and written a track at a time, with a cache of what was *)
(* read and one of what was changed; and writeTracksAndVerify(), which     *)
(* flushChanges() writes the changed tracks with.                          *)
(*                                                                         *)
(* The client is a filesystem: it calls get, put, flushChanges and         *)
(* discardChanges one at a time, and may go on after any of them throws.   *)
(* A pair (track, side) is a track.  Lost is the content of a sector that  *)
(* could not be read: that of its bad copy, or none.                       *)
(*                                                                         *)
(* A track may also hold sectors whose headers name another track, or a    *)
(* number that is not in the layout: strays.  What is read of them is      *)
(* filed under this track and the stray's number.  Nothing asks for the    *)
(* numbers outside the layout; strays that have one of those do no more    *)
(* than make a verification fail, and are left out.                        *)
(***************************************************************************)
EXTENDS Integers, FiniteSets, FiniteSetsExt

CONSTANTS
    Layout,      \* logicalSectorOrder of each track, as a set
    Data,        \* contents of a sector
    Disks,       \* bound: the disks at first, with their strays
    Puts,        \* bound: what may be put in each sector
    Retries,     \* decoder().retries()
    Weak,        \* where reading may fail, retries and all, or miss a stray
    None, Garbled, Lost

Tracks    == DOMAIN Layout
On(t)     == {t} \X Layout[t]
Locations == UNION {On(t) : t \in Tracks}

ASSUME FluxSectorsAssumption ==
    /\ DOMAIN Layout \subseteq Nat /\ Retries \in Nat
    /\ Cardinality({None, Garbled, Lost}) = 3
    /\ Data \cap {None, Garbled, Lost} = {}
    /\ Disks \subseteq [held : [Locations -> Data \cup {Garbled}],
                         strays : [Locations -> SUBSET (Data \cup {Lost})]]
    /\ Puts \in [Locations -> SUBSET Data]

VARIABLES
    disk,           \* what the medium holds; Garbled cannot be read
    foreign,        \* the data of the strays on a track that have a number
    loadedTracks,   \* _loadedTracks
    loaded,         \* _loadedSectors
    changedTracks,  \* _changedTracks
    changed,        \* _changedSectors
    pc,             \* where flushChanges() is
    todo,           \* tracks the loop it is in has still to visit
    retries,        \* retriesRemaining of writeTracks()
    asked,          \* history: puts since the last flush or discard
    content,        \* history: the disk as of then
    strays,         \* history: the strays on it as of then
    attempted       \* history: a flush has failed since then

medium  == <<disk, foreign>>
cache   == <<loadedTracks, loaded>>
changes == <<changedTracks, changed>>
flush   == <<pc, todo, retries>>
history == <<asked, content, strays, attempted>>
vars    == <<medium, cache, changes, flush, history>>

\* What is known of all sectors, with that of one track replaced.
WithTrack(t, track, rest) == [l \in Locations |-> IF l \in On(t) THEN track[l] ELSE rest[l]]

\* The tables of a track whose entries are each one of those From() allows.
Each(t, From(_)) ==
    {w \in [On(t) -> UNION {From(l) : l \in On(t)}] : \A l \in On(t) : w[l] \in From(l)}

Blank    == [l \in Locations |-> None]
OnMedium == Data \cup {Garbled, Lost}

TypeOK ==
    /\ disk \in [Locations -> OnMedium]
    /\ foreign \in [Locations -> SUBSET (Data \cup {Lost})]
    /\ loadedTracks \subseteq Tracks /\ changedTracks \subseteq Tracks
    /\ loaded \in [Locations -> Data \cup {Lost, None}]
    /\ changed \in [Locations -> Data \cup {Lost, None}]
    /\ pc \in {"idle", "merge", "write"}
    /\ todo \subseteq Tracks
    /\ retries \in 0 .. Retries
    /\ asked \in [Locations -> Data \cup {None}]
    /\ content \in [Locations -> OnMedium]
    /\ strays \in [Locations -> SUBSET (Data \cup {Lost})]
    /\ attempted \in BOOLEAN

Init ==
    /\ \E d \in Disks : disk = d.held /\ foreign = d.strays
    /\ loadedTracks = {} /\ loaded = Blank
    /\ changedTracks = {} /\ changed = Blank
    /\ pc = "idle" /\ todo = {} /\ retries = Retries
    /\ asked = Blank /\ content = disk /\ strays = foreign /\ attempted = FALSE

-----------------------------------------------------------------------------
(* Reading.                                                                  *)

\* What readAndDecodeTrack() may make of a sector that is on its track.
Reads(l, held) ==
    IF held = Garbled THEN {Lost}
    ELSE {held} \cup IF l \in Weak THEN {Lost} ELSE {}

\* What may come to be filed under a number of the track: the sector, or a
\* stray, as the sectors are filed in the order of their addresses.
Readings(l) == Reads(l, disk[l]) \cup foreign[l]

TrackReadings(t) == Each(t, Readings)

\* populateSectors()
Populate(t) ==
    /\ \E r \in TrackReadings(t) : loaded' = WithTrack(t, r, loaded)
    /\ loadedTracks' = loadedTracks \cup {t}

\* Part of the track is not in _changedSectors.
Incomplete(t) == \E l \in On(t) : changed[l] = None

\* get() of a sector that is in neither cache.
Get(t) ==
    /\ pc = "idle"
    /\ t \notin loadedTracks /\ Incomplete(t)
    /\ Populate(t)
    /\ UNCHANGED <<medium, changes, flush, history>>

\* put(), and the assignment its caller makes through the pointer.
Put(l, d) ==
    /\ pc = "idle"
    /\ changedTracks' = changedTracks \cup {l[1]}
    /\ changed' = [changed EXCEPT ![l] = d]
    /\ asked' = [asked EXCEPT ![l] = d]
    /\ UNCHANGED <<medium, cache, flush, content, strays, attempted>>

\* Mutant: what was read is kept.
Forget_KeepLoaded ==
    /\ changedTracks' = {} /\ changed' = Blank
    /\ UNCHANGED cache
    /\ asked' = Blank /\ content' = disk /\ strays' = foreign /\ attempted' = FALSE

\* discardChanges()
Forget ==
    /\ loadedTracks' = {} /\ loaded' = Blank
    /\ changedTracks' = {} /\ changed' = Blank
    /\ asked' = Blank /\ content' = disk /\ strays' = foreign /\ attempted' = FALSE

Discard ==
    /\ pc = "idle"
    /\ Forget
    /\ UNCHANGED <<medium, flush>>

-----------------------------------------------------------------------------
(* flushChanges().                                                           *)

FlushBegins ==
    /\ pc = "idle"
    /\ pc' = "merge" /\ todo' = changedTracks
    /\ UNCHANGED <<medium, cache, changes, retries, history>>

\* _changedSectors with the rest of the track taken from what was read.
Completed(t, read) ==
    [l \in Locations |->
        IF l \in On(t) /\ changed[l] = None THEN read[l] ELSE changed[l]]

\* The next of the changed tracks is made complete.
MergeTrack ==
    /\ pc = "merge" /\ todo # {}
    /\ LET t == Min(todo)
       IN  /\ todo' = todo \ {t}
           /\ \/ ~Incomplete(t) /\ UNCHANGED <<cache, changed>>
              \/ /\ Incomplete(t)
                 /\ IF t \in loadedTracks THEN UNCHANGED cache ELSE Populate(t)
                 /\ changed' = Completed(t, loaded')
    /\ UNCHANGED <<medium, changedTracks, pc, retries, history>>

\* An exception leaves flushChanges(); both caches stay as they are.
Throw ==
    /\ pc' = "idle" /\ todo' = {} /\ retries' = Retries
    /\ attempted' = TRUE
    /\ UNCHANGED <<cache, changes, asked, content, strays>>

\* The flux source throws while a track is being read for the merge.
MergeThrows ==
    /\ pc = "merge" /\ todo # {}
    /\ Incomplete(Min(todo)) /\ Min(todo) \notin loadedTracks
    /\ Throw
    /\ UNCHANGED medium

WriteBegins ==
    /\ pc = "merge" /\ todo = {}
    /\ pc' = "write" /\ todo' = changedTracks /\ retries' = Retries
    /\ UNCHANGED <<medium, cache, changes, history>>

\* What an attempt to write its track may leave of a sector: it is written, or
\* as it was, or can no longer be read.
Leavings(l) == {changed[l], disk[l], Garbled}

\* What it may leave of the strays.
Remaining(l) == SUBSET foreign[l]

\* One attempt.
WriteTrack(t) ==
    /\ \E w \in Each(t, Leavings) : disk' = WithTrack(t, w, disk)
    /\ \E w \in Each(t, Remaining) : foreign' = WithTrack(t, w, foreign)

\* Mutant: the verifier is content with a track it can read in part.
Verified_AnySector(t) == \E l \in On(t) : disk'[l] = changed[l]

\* The verifier reads the track back: each sector is good and is the one
\* that was wanted, and there is none that was not.
Verified(t) ==
    \A l \in On(t) :
        /\ disk'[l] = changed[l]
        /\ l \in Weak \/ foreign'[l] = {}

WriteGood ==
    /\ pc = "write" /\ todo # {}
    /\ LET t == Min(todo)
       IN  /\ WriteTrack(t)
           /\ Verified(t)
           /\ todo' = todo \ {t} /\ retries' = Retries
    /\ UNCHANGED <<pc, cache, changes, history>>

\* Mutant: the retries are not counted.
WriteRetried_Uncounted ==
    /\ pc = "write" /\ todo # {}
    /\ WriteTrack(Min(todo))
    /\ UNCHANGED <<pc, todo, retries, cache, changes, history>>

\* The track does not read back right (or this one time does not read).
WriteRetried ==
    /\ pc = "write" /\ todo # {}
    /\ retries # 0
    /\ WriteTrack(Min(todo))
    /\ retries' = retries - 1
    /\ UNCHANGED <<pc, todo, cache, changes, history>>

\* No retry is left; or the flux sink, the encoder, the flux source or an
\* emergency stop throws, before the track is written or after.
WriteThrows ==
    /\ pc = "write" /\ todo # {}
    /\ \/ UNCHANGED medium
       \/ WriteTrack(Min(todo))
    /\ Throw

FlushEnds ==
    /\ pc = "write" /\ todo = {}
    /\ pc' = "idle"
    /\ Forget
    /\ UNCHANGED <<medium, todo, retries>>

-----------------------------------------------------------------------------
Flushing ==
    \/ MergeTrack \/ MergeThrows \/ WriteBegins
    \/ WriteGood \/ WriteRetried \/ WriteThrows \/ FlushEnds

Next ==
    \/ \E t \in Tracks : Get(t)
    \/ \E l \in Locations : \E d \in Puts[l] : Put(l, d)
    \/ Discard
    \/ FlushBegins
    \/ Flushing

\* flushChanges() runs to its end; nothing makes the client call anything.
Spec == Init /\ [][Next]_vars /\ WF_vars(Flushing)

-----------------------------------------------------------------------------
(* Properties.                                                               *)

\* get() of a sector in a cache returns the last thing put there, also after
\* a flush that failed half way, or else what the disk held, as it could be
\* read, or a stray of its track with its number; there is something once the
\* track was read.
ReadsLatest ==
    pc = "idle" =>
        \A l \in Locations :
            LET found == IF changed[l] # None THEN changed[l] ELSE loaded[l]
            IN  IF asked[l] # None THEN found = asked[l]
                ELSE \/ found \in Reads(l, content[l]) \cup strays[l]
                     \/ found = None /\ l[1] \notin loadedTracks

\* needsFlushing() is true exactly when something put is not on the disk yet,
\* and nothing put is forgotten by a flush that fails.
DirtyExact ==
    pc = "idle" =>
        changedTracks = {l[1] : l \in {k \in Locations : asked[k] # None}}

\* _loadedSectors, _changedSectors and _changedTracks agree with what was read
\* and put, in between the calls of the client.
CachesAgree == TypeOK /\ ReadsLatest /\ DirtyExact

\* flushChanges() returns or throws, whatever the drive does.
FlushReturns == pc # "idle" ~> pc = "idle"

\* The interface is a sector store: a flush makes every change part of the
\* disk, and changes nothing else but, of the sectors it has to write with
\* those, the ones that were not read as they are; a failed one loses no change.
Touched(l, puts) == \E k \in On(l[1]) : puts[k] # None

Store == INSTANCE SectorStore WITH Rewritten <- Touched
StoreSpec == Store!Spec
=============================================================================
