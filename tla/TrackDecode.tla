---------------------------- MODULE TrackDecode ----------------------------
(***************************************************************************)
(* Decoding one track: decodeToSectors() with the decoder of a format, over  *)
(* a track of records.  The track is either one that the format's encoder    *)
(* wrote, or records that were damaged, lost, overwritten by those of other  *)
(* tracks or never completed, in any order.                                  *)
(*                                                                           *)
(* A record that was lost so far that the pattern search does not stop at    *)
(* it is not in `disk'.                                                      *)
(***************************************************************************)
EXTENDS TrackFormats, SequencesExt

CONSTANTS
    Formats,    \* the formats looked at
    MaxRecords, \* bound: the records of a damaged track
    MaxWhole,   \* bound: the same, for the formats with one record a sector
    MaxSectors, \* bound: the sectors of a written track
    MxSectors,  \* MX: the sectors of a track (11 in the code)
    LaidOut,    \* the tracks for which the configuration has a layout
    Homes,      \* the tracks that are written
    Here,       \* the track that is damaged
    Strays,     \* <<t, n>>: the headers on it besides its own first
    WholeStrays \* the same, for the formats with one record a sector

\* A track has seven bits in the headers that have no more, a sector five
\* (Zilog).  A Macintosh header has the low six bits of its track: one of a
\* track 64 away is taken for this one's.
ASSUME DecodeAssumption ==
    /\ Formats \subseteq SplitFormats \cup WholeFormats
    /\ MaxRecords \in Nat /\ MaxWhole \in Nat /\ MxSectors \in Nat
    /\ MaxSectors \in 0 .. 32
    /\ LaidOut \subseteq 0 .. 127
    /\ Homes \subseteq [t : LaidOut, s : 0 .. 1]
    /\ Here \in [t : LaidOut, s : {0}]
    /\ Strays \subseteq (0 .. 127) \X Nat
    /\ WholeStrays \subseteq (0 .. 127) \X (0 .. 31)
    /\ \A q \in Strays : q[1] % 64 = Here.t % 64 => q[1] = Here.t

VARIABLES
    fmt,      \* the format
    home,     \* trackInfo: the track that is decoded
    disk,     \* the records on it
    asked,    \* the sectors it was written from, << >> for a damaged track
    at,       \* where the reader is: the next record
    pc,       \* header, data: in the outer or the inner loop; done; thrown
    sector,   \* _sector
    sectors,  \* _trackdata->sectors
    mem       \* what the decoder keeps: MX's counter, the checksum in use

vars == <<fmt, home, disk, asked, at, pc, sector, sectors, mem>>

-----------------------------------------------------------------------------
(* The tracks.                                                              *)

Statuses == {"OK", "BAD_CHECKSUM", "MISSING"}

\* These formats have no second side.
OneSided == {"aeslanier", "c64", "f85", "fb100", "zilogmcz"}

\* Sectors to write; the body is the number it belongs to.
Asked(h, st) ==
    [i \in 1 .. MaxSectors |->
        [t |-> h.t, s |-> h.s, n |-> i - 1, status |-> st[i],
         body |-> IF st[i] = "MISSING" THEN NoBody ELSE i - 1]]

OnDisk(f, xs) == FlattenSeq([i \in DOMAIN xs |-> Written(f, xs[i], i)])

\* The records of sector n of a track as they should be, as raw material.
Proper(f, t, s, n) ==
    Written(f, [t |-> t, s |-> s, n |-> n, body |-> n, status |-> "OK"], n + 1)

\* A header that has no check of its own is only right or wrong with its data.
Damaged(f, r) ==
    {r} \cup (IF f \in {"mx", "northstar", "zilogmcz"} THEN {} ELSE {[r EXCEPT !.hsum = "bad"]})

SplitMaterial(f) ==
    Damaged(f, Proper(f, Here.t, 0, 0)[1])
    \cup {Proper(f, q[1], 0, q[2])[1] : q \in Strays}
    \cup {DataRecord(n, "good") : n \in 0 .. 1} \cup {DataRecord(1, "bad")}
    \cup (IF f = "agat" THEN {DataRecord(0, "torn")} ELSE {})
    \cup (IF f = "ibm" THEN {Junk} ELSE {})

BodySums(f) ==
    IF f = "micropolis" THEN SUBSET {"MICROPOLIS", "MZOS"} ELSE {"good", "bad"}

\* Northstar reads two revolutions, with the record up to 9 ms late.
Times(f, n) == IF f = "northstar" THEN {20 * n + 1, 20 * n + 9, 200 + 20 * n + 9} ELSE {0}

\* A record with its data and its place as they may be found.
FoundWith(r, d, a) == [r EXCEPT !.dsum = d, !.at = a]

WholeMaterial(f) ==
    UNION {{FoundWith(r, d, a) :
              r \in Damaged(f, Proper(f, q[1], 0, q[2])[1]), d \in BodySums(f), a \in Times(f, q[2])}
           : q \in WholeStrays \cup {<<Here.t, 0>>}}

Material(f) == IF f \in SplitFormats THEN SplitMaterial(f) ELSE WholeMaterial(f)

Init ==
    /\ fmt \in Formats
    /\ \/ /\ \E h \in Homes, st \in [1 .. MaxSectors -> Statuses] :
              /\ fmt \in OneSided => h.s = 0
              /\ fmt \notin EncodedFormats => \A i \in DOMAIN st : st[i] = "OK"
              /\ home = h
              /\ asked = Asked(h, st)
          /\ disk = OnDisk(fmt, asked)
          /\ pc = IF \E i \in DOMAIN asked : Refused(fmt, asked[i]) THEN "thrown" ELSE "header"
       \/ /\ home = Here
          /\ asked = << >>
          /\ disk \in BoundedSeq(Material(fmt),
                                 IF fmt \in SplitFormats THEN MaxRecords ELSE MaxWhole)
          /\ pc = "header"
    /\ at = 1
    /\ sector = NewSector(home)
    /\ sectors = << >>
    /\ mem = [count |-> 0, sums |-> "AUTO"]

-----------------------------------------------------------------------------
(* decodeToSectors().                                                       *)

\* advanceToNextRecord() finds the end of the flux, or says it is done.
NoMore == at > Len(disk) \/ (fmt = "mx" /\ mem.count = MxSectors)

\* What a decoder remembers after a record.
Remembers(r) ==
    [count |-> IF fmt = "mx" THEN mem.count + 1 ELSE mem.count,
     sums |-> IF fmt = "micropolis" /\ MicropolisTaken(r, home)
              THEN MicropolisSums(mem, r) ELSE mem.sums]

\* The layout of the sector's track is looked up, which throws if the
\* configuration has none for it, and the sector is kept.
Push(sec) ==
    IF sec.t \in LaidOut
    THEN sectors' = Append(sectors, sec) /\ pc' = "header"
    ELSE UNCHANGED sectors /\ pc' = "thrown"

\* Mutant: the last sector is used again, newSector() is not called.
ReadHeader_LastSector ==
    /\ pc = "header"
    /\ ~NoMore
    /\ LET r == disk[at]
           new == sector
           sec == IF fmt \in SplitFormats
                  THEN DecodeSectorRecord(fmt, new, r, home)
                  ELSE DecodeWholeRecord(fmt, new, r, mem, home)
       IN  /\ sector' = sec
           /\ at' = at + 1
           /\ mem' = Remembers(r)
           /\ CASE sec.status = "DATA_MISSING" -> pc' = "data" /\ UNCHANGED sectors
                [] sec.status = "MISSING" -> UNCHANGED <<pc, sectors>>
                [] OTHER -> Push(sec)
    /\ UNCHANGED <<fmt, home, disk, asked>>

ReadHeader ==
    /\ pc = "header"
    /\ ~NoMore
    /\ LET r == disk[at]
           new == NewSector(home)
           sec == IF fmt \in SplitFormats
                  THEN DecodeSectorRecord(fmt, new, r, home)
                  ELSE DecodeWholeRecord(fmt, new, r, mem, home)
       IN  /\ sector' = sec
           /\ at' = at + 1
           /\ mem' = Remembers(r)
           /\ CASE sec.status = "DATA_MISSING" -> pc' = "data" /\ UNCHANGED sectors
                [] sec.status = "MISSING" -> UNCHANGED <<pc, sectors>>
                [] OTHER -> Push(sec)
    /\ UNCHANGED <<fmt, home, disk, asked>>

\* Mutant: the reader does not get past a record without data.
ReadData_Stuck ==
    /\ pc = "data"
    /\ ~NoMore
    /\ LET sec == DecodeDataRecord(fmt, sector, disk[at])
       IN  /\ sector' = sec
           /\ IF sec.status = "DATA_MISSING"
              THEN UNCHANGED <<pc, sectors, at>>
              ELSE Push(sec) /\ at' = at + 1
    /\ UNCHANGED <<fmt, home, disk, asked, mem>>

\* The inner loop goes on until a record brings the data, whatever lies
\* in between.
ReadData ==
    /\ pc = "data"
    /\ ~NoMore
    /\ LET sec == DecodeDataRecord(fmt, sector, disk[at])
       IN  /\ sector' = sec
           /\ IF sec.status = "DATA_MISSING"
              THEN UNCHANGED <<pc, sectors>>
              ELSE Push(sec)
    /\ at' = at + 1
    /\ UNCHANGED <<fmt, home, disk, asked, mem>>

\* The flux ends before the data came: the sector is kept without.
DataNeverCame ==
    /\ pc = "data"
    /\ NoMore
    /\ Push(sector)
    /\ UNCHANGED <<fmt, home, disk, asked, at, sector, mem>>

TrackEnds ==
    /\ pc = "header"
    /\ NoMore
    /\ pc' = "done"
    /\ sector' = NewSector(home)
    /\ UNCHANGED <<fmt, home, disk, asked, at, sectors, mem>>

Next == ReadHeader \/ ReadData \/ DataNeverCame \/ TrackEnds

Spec == Init /\ [][Next]_vars /\ WF_vars(Next)

-----------------------------------------------------------------------------
(* Properties.                                                              *)

Sector == [t : Nat, s : 0 .. 1, n : Nat, body : Nat \cup {NoBody, Zeros},
           status : {"OK", "BAD_CHECKSUM", "MISSING", "DATA_MISSING"}]

\* The reader stays on the track, a sector on its way to its data is known to
\* lack it, and what was given out is never a sector that was not found.
TypeOK ==
    /\ at \in 1 .. Len(disk) + 1
    /\ pc \in {"header", "data", "done", "thrown"}
    /\ sector \in Sector
    /\ pc = "data" => sector.status = "DATA_MISSING"
    /\ \A k \in DOMAIN sectors : sectors[k] \in Sector /\ sectors[k].status # "MISSING"
    /\ mem.count \in 0 .. MxSectors
    /\ mem.sums \in {"AUTO", "MICROPOLIS", "MZOS"}

IsHeader(i) == disk[i].kind \in {"head", "whole"}
IsData(i) == disk[i].kind \in {"data", "whole"}

\* A record has the header that the format writes for sector n of side s of
\* track t, undamaged as far as the format can tell.
IsHeaderOf(f, r, t, s, n) ==
    LET p == Proper(f, t, s, n)[1] IN
    /\ r.kind = p.kind
    /\ r.sector = p.sector
    /\ r.track = p.track \/ (f = "ibm" /\ IgnoreTrack)
    /\ r.side = p.side \/ (f = "ibm" /\ IgnoreSide)
    /\ r.hsum = "good" \/ f = "brother"

Names(i, t, s, n) == IsHeader(i) /\ IsHeaderOf(fmt, disk[i], t, s, n)

\* Northstar and MX have no numbers on the disk.
Nameless == {"northstar", "mx"}

SumRight(i) ==
    IF fmt = "micropolis" THEN disk[i].dsum # {} ELSE disk[i].dsum = "good"

\* Nothing is made up: a sector that is OK has an undamaged header that names
\* it, and its body is that of the first data record after it, whose checksum
\* is right (Decoder::decodeToSectors and the decoders); whose data that is,
\* the record does not say.  On a Micropolis disk all of them are right by the
\* same checksum.
OkIsSound ==
    /\ \A k \in DOMAIN sectors : LET x == sectors[k] IN
        x.status = "OK" =>
            \E i, j \in DOMAIN disk :
                /\ i <= j
                /\ fmt \notin Nameless => Names(i, x.t, x.s, x.n)
                /\ IsData(j) /\ SumRight(j) /\ disk[j].body = x.body
                /\ fmt \in WholeFormats => i = j
                /\ \A m \in i .. j - 1 : ~(IsData(m) /\ disk[m].dsum # "torn")
    /\ fmt = "micropolis" =>
        \E sum \in {"MICROPOLIS", "MZOS"} :
            \A k \in DOMAIN sectors :
                sectors[k].status = "OK" =>
                    \E i \in DOMAIN disk : disk[i].body = sectors[k].body /\ sum \in disk[i].dsum

\* What Decoder::decodeToSectors gives out: sectors that were found, and as good
\* only those that are.
NothingMadeUp == TypeOK /\ OkIsSound

\* Each header that a decoder may accept has its data right after it.
Framed ==
    fmt \in SplitFormats =>
        \A i \in DOMAIN disk :
            disk[i].kind = "head" /\ (disk[i].hsum = "good" \/ fmt = "brother") =>
                /\ i < Len(disk)
                /\ disk[i + 1].kind = "data"
                /\ disk[i + 1].dsum # "torn"

\* The last track that a decoder takes a header for.
LastTrack(f) ==
    IF f = "micropolis" THEN 76
    ELSE IF f = "brother" THEN 79
    ELSE IF f = "zilogmcz" THEN 80
    ELSE IF f = "victor9k" THEN 85
    ELSE 127

\* The tracks of which the headers can be relied on.
Reliable == Framed /\ fmt \notin Nameless /\ home.t <= LastTrack(fmt)

\* The records that have the header of sector n of this track, and body b.
There(n, b) ==
    {i \in DOMAIN disk :
        /\ Names(i, home.t, home.s, n)
        /\ (IF fmt \in SplitFormats THEN disk[i + 1] ELSE disk[i]).body = b}

GivenOut(n, b) ==
    {k \in DOMAIN sectors :
        sectors[k].n = n /\ sectors[k].t = home.t /\ sectors[k].body = b}

\* On a track on which no data record was lost, every undamaged sector of the
\* track is given out with the data of its own record, once for each time it
\* is there (which is how readAndDecodeTrack() comes to see conflicts), and
\* data whose header was lost is not given out at all.
EachFound ==
    pc = "done" /\ Reliable =>
        \A n \in (0 .. 1) \ IgnoreSectors : \A b \in 0 .. 1 :
            Cardinality(GivenOut(n, b)) = Cardinality(There(n, b))

\* The sectors of a track that a decoder tells apart.
SectorsOf(f) ==
    IF f \in {"brother", "macintosh"} THEN 12
    ELSE IF f = "fb100" THEN 2
    ELSE IF f = "micropolis" THEN 16
    ELSE IF f = "mx" THEN MxSectors
    ELSE IF f = "northstar" THEN 10
    ELSE IF f = "victor9k" THEN 21
    ELSE 32

\* The track is one that the decoder takes all headers of.
Fits ==
    /\ home.t <= LastTrack(fmt)
    /\ MaxSectors <= SectorsOf(fmt)
    /\ fmt = "ibm" =>
         /\ ~ (IgnoreSide /\ InvertSide = 1)
         /\ IgnoreSectors \cap (0 .. MaxSectors - 1) = {}

\* What an encoder writes its decoder reads: each good sector comes back as it
\* was, none comes back twice or under a number that was not written.
RoundTrip ==
    pc = "done" /\ asked # << >> /\ Fits =>
        /\ \A i \in DOMAIN asked :
            asked[i].status = "OK" => \E k \in DOMAIN sectors : sectors[k] = asked[i]
        /\ \A k \in DOMAIN sectors :
            /\ \E i \in DOMAIN asked :
                asked[i].n = sectors[k].n /\ asked[i].t = sectors[k].t /\ asked[i].s = sectors[k].s
            /\ \A l \in DOMAIN sectors : sectors[l].n = sectors[k].n => l = k

\* Decoding a track comes to an end, whatever is on it.
DecodeEnds == <>(pc \in {"done", "thrown"})

\* The data of sector n is lost: after its header come the header of the other
\* sector of the track and that one's data.
DataLost(i, n) ==
    /\ Names(i, home.t, home.s, n)
    /\ i + 2 <= Len(disk)
    /\ Names(i + 1, home.t, home.s, 1 - n)
    /\ disk[i + 2] = DataRecord(1 - n, "good")

\* doc/problems.md:54: a sector that was found but contained no data is shown
\* as such; here one whose data is lost, so that the next sector follows.
NoDataShown ==
    pc = "done" /\ asked = << >> =>
        \A i \in DOMAIN disk : \A n \in 0 .. 1 :
            DataLost(i, n) =>
                \E k \in DOMAIN sectors :
                    sectors[k].n = n /\ sectors[k].status = "DATA_MISSING"
=============================================================================
