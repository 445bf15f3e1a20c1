--------------------------- MODULE ReadTrack ---------------------------
(***************************************************************************)
(* Reading one track: readAndDecodeTrack() in readerwriter.cc, with        *)
(* readGroup(), combineRecordAndSectors() and collectSectors(), over a     *)
(* flux source whose iterators give a number of reads (a drive gives any   *)
(* number, a file the ones it holds).                                      *)
(*                                                                         *)
(* What the decoder makes of a read is arbitrary: for each sector it may   *)
(* find no copy, or copies whose checksum holds or not, or a header with   *)
(* no data.  A data value is a model value.                                *)
(*                                                                         *)
(* collectSectors() walks a std::set of pointers, so it meets the copies   *)
(* of a sector in the order of their addresses: any order.                 *)
(***************************************************************************)
EXTENDS Integers, FiniteSets, SequencesExt

CONSTANTS
    Wanted,           \* logicalSectorOrder of the track
    Strays,           \* sectors of other tracks, or of none, that it may hold
    Contents,             \* contents of a sector
    Copies,           \* bound: copies of a sector in one read
    Group,            \* physical tracks read per logical track
    Supplies,         \* reads an iterator may have; Unlimited for a drive
    Retries,          \* decoder().retries()
    Unlimited         \* the supply of a drive, no number

Keys      == Wanted \cup Strays
Offsets   == 0 .. Group - 1
Missing   == <<"MISSING">>
Unread    == {<<"BAD_CHECKSUM">>, <<"DATA_MISSING">>}
Good      == {<<"OK", d>> : d \in Contents}
Conflict  == {<<"CONFLICT", d>> : d \in Contents}
Versions  == Good \cup Unread                      \* what a decoder reports

ASSUME ReadTrackAssumption ==
    /\ Wanted \cap Strays = {}
    /\ Group \in Nat \ {0} /\ Retries \in Nat /\ Copies \in Nat
    /\ Unlimited \notin Nat /\ Supplies \subseteq Nat \cup {Unlimited}
    /\ IsFiniteSet(Contents)

VARIABLES
    skip,      \* decoder().skip_unnecessary_tracks(), fixed for the session
    pc,        \* in readGroup(), choosing whether to retry, or out of the loop
    offset,    \* offset within the group
    supply,    \* per iterator of the holder: the reads it still has
    retries,   \* retriesRemaining
    result,    \* what readGroup() is about to return
    decoded,   \* trackDatas: the versions decoded of each sector
    sectors    \* trackFlux.sectors: one version of each sector known of

held == <<decoded, sectors>>
readVars == <<skip, pc, offset, supply, retries, result, held>>

Results == {"GOOD_READ", "BAD_AND_CAN_RETRY", "BAD_AND_CAN_NOT_RETRY"}

ReadTypeOK ==
    /\ skip \in BOOLEAN
    /\ pc \in {"group", "decide", "done", "error"}
    /\ offset \in 0 .. Group
    /\ supply \in [Offsets -> Nat \cup {Unlimited}]
    /\ retries \in 0 .. Retries
    /\ result \in Results
    /\ decoded \in [Keys -> SUBSET Versions]
    /\ DOMAIN sectors \subseteq Keys
    /\ \A k \in DOMAIN sectors :
           sectors[k] \in Versions \cup Conflict \cup {Missing}

ReadInit ==
    /\ skip \in BOOLEAN
    /\ pc = "group" /\ offset = 0
    /\ supply \in [Offsets -> Supplies]
    /\ retries = Retries
    /\ result = "BAD_AND_CAN_NOT_RETRY"
    /\ decoded = [k \in Keys |-> {}]
    /\ sectors = <<>>

-----------------------------------------------------------------------------
(* collectSectors() and combineRecordAndSectors().                           *)

\* Mutant: a bad copy that comes first is kept.
Merged_FirstWins(left, right) ==
    IF left \in Good /\ right \in Good /\ left # right
    THEN <<"CONFLICT", left[2]>>
    ELSE left

\* The accumulation step of collectSectors().
Merged(left, right) ==
    IF left \in Good /\ right \in Good /\ left # right
    THEN <<"CONFLICT", left[2]>>
    ELSE IF \/ left \in Conflict
            \/ right \notin Conflict /\ (left \in Good \/ right \notin Good)
         THEN left ELSE right

\* std::accumulate() over the copies in an order, from the first one on.
Accumulate(order) ==
    LET upTo[i \in 1 .. Len(order)] ==
            IF i = 1 THEN order[1] ELSE Merged(upTo[i - 1], order[i])
    IN  upTo[Len(order)]

\* What the copies of a sector come to, over the orders of their addresses.
Collected(copies) == {Accumulate(order) : order \in SetToSeqs(copies)}

\* Each set of copies with what it may come to: a constant, computed once.
Outcomes ==
    {<<copies, Collected(copies)>> : copies \in (SUBSET (Versions \cup {Missing})) \ {{}}}

OutcomesOf(copies) == (CHOOSE o \in Outcomes : o[1] = copies)[2]

\* Mutant: only what was found counts.
Candidates_NoPlaceholder(d) == d

\* Each sector that should be there is a candidate as MISSING.
Candidates(d) ==
    [k \in Keys |-> d[k] \cup IF k \in Wanted THEN {Missing} ELSE {}]

\* trackFlux.sectors, for the decoded versions d: a version of each sector.
Combinations(d) ==
    LET all   == Candidates(d)
        known == {k \in Keys : all[k] # {}}
    IN  {s \in [known -> UNION {OutcomesOf(all[k]) : k \in known}] :
            \A k \in known : s[k] \in OutcomesOf(all[k])}

NoBadSectors(s) ==
    /\ DOMAIN s # {}
    /\ \A k \in DOMAIN s : s[k] \in Good

-----------------------------------------------------------------------------
(* readGroup().                                                              *)

Found == {copies \in SUBSET Versions : Cardinality(copies) <= Copies}

Taken(n) == IF n = Unlimited THEN n ELSE n - 1

\* trackDatas.push_back().
Accumulated(found) == [k \in Keys |-> decoded[k] \cup found[k]]

\* Mutant: an iterator that has run dry withdraws the retry of another.
Judge_NotSticky ==
    IF NoBadSectors(sectors')
    THEN result' = "GOOD_READ"
    ELSE result' = IF supply'[offset] # 0 THEN "BAD_AND_CAN_RETRY"
                   ELSE "BAD_AND_CAN_NOT_RETRY"

\* What the read does to the result.
Judge ==
    IF NoBadSectors(sectors')
    THEN result' = "GOOD_READ"
    ELSE result' = IF supply'[offset] # 0 THEN "BAD_AND_CAN_RETRY" ELSE result

\* One read of one physical track, decoded and combined with the others.
Read ==
    /\ pc = "group" /\ offset < Group
    /\ supply[offset] # 0
    /\ supply' = [supply EXCEPT ![offset] = Taken(@)]
    /\ \E found \in [Keys -> Found] :
          /\ decoded' = Accumulated(found)
          /\ sectors' \in Combinations(Accumulated(found))
    /\ Judge
    /\ IF NoBadSectors(sectors') /\ skip
       THEN pc' = "decide" /\ UNCHANGED offset
       ELSE offset' = offset + 1 /\ UNCHANGED pc
    /\ UNCHANGED <<skip, retries>>

\* The flux source throws: the exception leaves readAndDecodeTrack().
ReadThrows ==
    /\ pc = "group" /\ offset < Group
    /\ supply[offset] # 0
    /\ pc' = "error"
    /\ UNCHANGED <<skip, offset, supply, retries, result, held>>

\* There are no more reads of this physical track.
PassOver ==
    /\ pc = "group" /\ offset < Group
    /\ supply[offset] = 0
    /\ offset' = offset + 1
    /\ UNCHANGED <<skip, pc, supply, retries, result, held>>

GroupRead ==
    /\ pc = "group" /\ offset = Group
    /\ pc' = "decide"
    /\ UNCHANGED <<skip, offset, supply, retries, result, held>>

-----------------------------------------------------------------------------
(* readAndDecodeTrack().                                                     *)

GiveUp ==
    /\ pc = "decide"
    /\ \/ result = "GOOD_READ"
       \/ result = "BAD_AND_CAN_NOT_RETRY"
       \/ retries = 0
    /\ pc' = "done"
    /\ UNCHANGED <<skip, offset, supply, retries, result, held>>

\* Mutant: the retries are not counted.
Retry_Uncounted ==
    /\ pc = "decide"
    /\ result = "BAD_AND_CAN_RETRY"
    /\ offset' = 0 /\ result' = "BAD_AND_CAN_NOT_RETRY"
    /\ pc' = "group"
    /\ UNCHANGED <<skip, retries, supply, held>>

Retry ==
    /\ pc = "decide"
    /\ result = "BAD_AND_CAN_RETRY"
    /\ retries # 0
    /\ retries' = retries - 1
    /\ offset' = 0 /\ result' = "BAD_AND_CAN_NOT_RETRY"
    /\ pc' = "group"
    /\ UNCHANGED <<skip, supply, held>>

Terminated == pc \in {"done", "error"} /\ UNCHANGED readVars

ReadNext == Read \/ ReadThrows \/ PassOver \/ GroupRead \/ GiveUp \/ Retry \/ Terminated

ReadSpec == ReadInit /\ [][ReadNext]_readVars /\ WF_readVars(ReadNext)

-----------------------------------------------------------------------------
(* Properties.                                                               *)

\* A good read is never invented, lost or hidden: after any number of reads,
\* whatever the order of the copies in memory, a sector is OK exactly when
\* its good copies agree, and in conflict exactly when they do not.
MergeHonest ==
    \A k \in DOMAIN sectors :
        LET good == decoded[k] \cap Good
        IN  /\ sectors[k] \in Good <=> Cardinality(good) = 1
            /\ sectors[k] \in Good => sectors[k] \in good
            /\ sectors[k] \in Conflict <=> Cardinality(good) > 1

\* What trackFlux.sectors says of the sectors read so far: one version of each,
\* of the kind the copies come to.
SectorsTrue == ReadTypeOK /\ MergeHonest

\* A track taken for good has every sector of its layout, all OK.  (Reading
\* on after a good read, from a file, can bring a conflict with no read left
\* to clear it; hence the condition.)
GoodReadIsClean ==
    (/\ pc = "done" /\ result = "GOOD_READ"
     /\ skip \/ \A o \in Offsets : supply[o] = Unlimited)
    => Wanted \subseteq DOMAIN sectors /\ NoBadSectors(sectors)

\* A track is given up only after every retry, or when no physical track of
\* its group has a read left.
NoEarlyGivingUp ==
    (pc = "done" /\ result # "GOOD_READ")
    => retries = 0 \/ \A o \in Offsets : supply[o] = 0

\* Reading a track ends, also from a drive that never runs out of reads.
ReadEnds == <>(pc \in {"done", "error"})
=============================================================================
