--------------------------- MODULE SectorStore ---------------------------
(***************************************************************************)
(* What a SectorInterface promises the filesystem on top of it: sectors    *)
(* can be put, and stay pending until a flush makes all of them part of    *)
(* the disk, or until they are discarded.  A flush may have to write other *)
(* sectors with them; those hold afterwards what was read of them, which   *)
(* may be that they could not be read, or a stray sector in their place.   *)
(* No other sector of the disk changes.  A flush may fail; the changes     *)
(* then stay pending, and if they are discarded after that, the sectors    *)
(* that were put may hold anything, and those that were written with them  *)
(* what was read of them, or nothing.                                      *)
(***************************************************************************)
CONSTANTS
    Locations,   \* pairs of a track and a sector
    Data, None, Garbled, Lost,
    Rewritten(_, _),  \* a flush of some puts writes this sector
    Reads(_, _)       \* what may be read of a sector that holds something

VARIABLES
    content,     \* what the disk held when the last flush or discard was done
    strays,      \* what there was that could be read in a sector's place
    asked,       \* pending puts, or None
    attempted    \* a flush has failed since then

vars == <<content, strays, asked, attempted>>

NothingAsked == [l \in Locations |-> None]

OnDisk   == [Locations -> Data \cup {Garbled, Lost}]
Mistaken == [Locations -> SUBSET (Data \cup {Lost})]

Init ==
    /\ content \in OnDisk /\ strays \in Mistaken
    /\ asked = NothingAsked
    /\ attempted = FALSE

Put(l, d) ==
    /\ asked' = [asked EXCEPT ![l] = d]
    /\ UNCHANGED <<content, strays, attempted>>

\* Every pending sector is on the disk, and the rest of what is written with
\* them as it was read.
Flushed(l) ==
    IF asked[l] # None THEN {asked[l]}
    ELSE IF Rewritten(l, asked) THEN Reads(l, content[l]) \cup strays[l]
    ELSE {content[l]}

\* Writing may remove strays and does not make any.
Cleared(l) == IF Rewritten(l, asked) THEN SUBSET strays[l] ELSE {strays[l]}

Flush ==
    /\ content' \in OnDisk /\ strays' \in Mistaken
    /\ \A l \in Locations : content'[l] \in Flushed(l) /\ strays'[l] \in Cleared(l)
    /\ asked' = NothingAsked
    /\ attempted' = FALSE

FlushFails ==
    /\ attempted' = TRUE
    /\ UNCHANGED <<content, strays, asked>>

\* What a sector may hold once the pending changes are discarded.
Remains(l) ==
    {content[l]} \cup
        IF ~attempted THEN {}
        ELSE IF asked[l] # None THEN Data \cup {Garbled, Lost}
        ELSE IF Rewritten(l, asked) THEN {Garbled} \cup Reads(l, content[l]) \cup strays[l]
        ELSE {}

Discard ==
    /\ content' \in OnDisk /\ strays' \in Mistaken
    /\ \A l \in Locations :
          /\ content'[l] \in Remains(l)
          /\ strays'[l] \in IF attempted THEN Cleared(l) ELSE {strays[l]}
    /\ asked' = NothingAsked
    /\ attempted' = FALSE

Next ==
    \/ \E l \in Locations, d \in Data : Put(l, d)
    \/ Flush
    \/ FlushFails
    \/ Discard

Spec == Init /\ [][Next]_vars
=============================================================================
