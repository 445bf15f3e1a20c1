---------------------------- MODULE TrackFormats ----------------------------
(***************************************************************************)
(* The disk formats of src/arch, as what they do with the records of a     *)
(* track: which header a sector is written under (the encoders), and what   *)
(* a decoder makes of a record that its pattern search has stopped at.      *)
(*                                                                          *)
(* A record is                                                              *)
(*   head:  the bytes of a header, and whether its checksum or end mark     *)
(*          is right;                                                       *)
(*   data:  a body, and whether its checksum is right, wrong or the record  *)
(*          is torn (its end mark is not there);                            *)
(*   whole: both at once, for formats without separate records;             *)
(*   junk:  a sync mark with no known record type after it.                 *)
(* The body stands for the bytes of a sector: the number of the sector it   *)
(* was written for, or one of the two below.  A sector is what a decoder    *)
(* gives out.                                                               *)
(***************************************************************************)
EXTENDS Integers, Sequences

CONSTANTS
    InvertSide,     \* IBM: invert_side_byte, in encoder and decoder
    IgnoreTrack,    \* IBM: ignore_track_byte
    IgnoreSide,     \* IBM: ignore_side_byte
    IgnoreSectors   \* IBM: the sectors in ignore_sector

ASSUME OptionsAssumption ==
    /\ InvertSide \in 0 .. 1
    /\ IgnoreTrack \in BOOLEAN
    /\ IgnoreSide \in BOOLEAN
    /\ IgnoreSectors \subseteq Nat

SplitFormats == {"agat", "apple2", "brother", "c64", "f85", "ibm", "macintosh",
                 "tids990", "victor9k"}
WholeFormats == {"aeslanier", "amiga", "fb100", "micropolis", "mx",
                 "northstar", "zilogmcz"}
EncodedFormats == {"amiga", "apple2", "brother", "c64", "ibm", "macintosh",
                   "micropolis", "northstar", "tids990", "victor9k"}

HeaderRecord(t, s, n, sum) ==
    [kind |-> "head", track |-> t, side |-> s, sector |-> n, hsum |-> sum]
DataRecord(body, sum) == [kind |-> "data", body |-> body, dsum |-> sum]
WholeRecord(t, s, n, sum, body, dsum, at) ==
    [kind |-> "whole", track |-> t, side |-> s, sector |-> n, hsum |-> sum,
     body |-> body, dsum |-> dsum, at |-> at]
Junk == [kind |-> "junk"]

NoBody == -1    \* no bytes at all
Zeros == -2     \* a sector of zeros

\* Sector(trackInfo, 0) with status MISSING.
NewSector(home) ==
    [t |-> home.t, s |-> home.s, n |-> 0, body |-> NoBody, status |-> "MISSING"]

Checked(sum) == IF sum = "good" THEN "OK" ELSE "BAD_CHECKSUM"

Xor1(a, b) == (a + b) % 2

-----------------------------------------------------------------------------
(* The decoders.  A header is DATA_MISSING when the data is in a record of  *)
(* its own, "unintuitive but correct"; MISSING means there is no sector.    *)

\* decodeSectorRecord() of the formats with separate records: a record of
\* another type, or a header that does not check, leaves the sector MISSING,
\* and nobody looks at the numbers of one that is.
Found(sec, t, s, n, accepted) ==
    IF accepted
    THEN [sec EXCEPT !.t = t, !.s = s, !.n = n, !.status = "DATA_MISSING"]
    ELSE sec

AgatHeader(sec, r) ==
    Found(sec, r.track \div 2, r.track % 2, r.sector, r.hsum = "good")

Apple2Header(sec, r) == Found(sec, r.track, sec.s, r.sector, r.hsum = "good")

\* There is no checksum: only the numbers are looked at.
BrotherHeader(sec, r) ==
    Found(sec, r.track, sec.s, r.sector, r.sector <= 11 /\ r.track <= 79)

C64Header(sec, r) == Found(sec, r.track - 1, 0, r.sector, r.hsum = "good")

F85Header(sec, r) == Found(sec, r.track, 0, r.sector, r.hsum = "good")

IbmHeader(sec, r, home) ==
    Found(sec, IF IgnoreTrack THEN home.t ELSE r.track,
          Xor1(IF IgnoreSide THEN home.s ELSE r.side, InvertSide), r.sector,
          r.hsum = "good" /\ r.sector \notin IgnoreSectors)

\* Headers of other tracks are turned away; the track is taken from the drive.
MacintoshHeader(sec, r, home) ==
    Found(sec, home.t, (r.side \div 32) % 2, r.sector,
          r.track = home.t % 64 /\ r.sector <= 11 /\ r.hsum = "good")

Tids990Header(sec, r) ==
    Found(sec, r.track, r.side \div 8, r.sector, r.hsum = "good")

Victor9kHeader(sec, r) ==
    LET t == r.track % 128
    IN  Found(sec, t, r.track \div 128, r.sector,
              r.sector <= 20 /\ t <= 85 /\ r.hsum = "good")

DecodeSectorRecord(fmt, sec, r, home) ==
    IF r.kind # "head" THEN sec
    ELSE CASE fmt = "agat" -> AgatHeader(sec, r)
           [] fmt = "apple2" -> Apple2Header(sec, r)
           [] fmt = "brother" -> BrotherHeader(sec, r)
           [] fmt = "c64" -> C64Header(sec, r)
           [] fmt = "f85" -> F85Header(sec, r)
           [] fmt = "ibm" -> IbmHeader(sec, r, home)
           [] fmt = "macintosh" -> MacintoshHeader(sec, r, home)
           [] fmt = "tids990" -> Tids990Header(sec, r)
           [] fmt = "victor9k" -> Victor9kHeader(sec, r)

\* decodeDataRecord(): a record that is no data record is passed over; Agat
\* also passes over one whose end mark is wrong.
AgatData(sec, r) ==
    IF r.dsum = "torn" THEN sec
    ELSE [sec EXCEPT !.body = r.body, !.status = Checked(r.dsum)]

PlainData(sec, r) == [sec EXCEPT !.body = r.body, !.status = Checked(r.dsum)]

DecodeDataRecord(fmt, sec, r) ==
    IF r.kind # "data" THEN sec
    ELSE IF fmt = "agat" THEN AgatData(sec, r) ELSE PlainData(sec, r)

-----------------------------------------------------------------------------
(* Formats with one record for a sector.  mem is what the decoder keeps     *)
(* from one sector to the next.                                             *)

Full(sec, t, s, n, r, status) ==
    [sec EXCEPT !.t = t, !.s = s, !.n = n, !.body = r.body, !.status = status]

AesLanierSector(sec, r) ==
    IF r.hsum = "good" THEN Full(sec, r.track, 0, r.sector, r, Checked(r.dsum)) ELSE sec

AmigaSector(sec, r) ==
    IF r.hsum = "good"
    THEN Full(sec, r.track \div 2, r.track % 2, r.sector, r, Checked(r.dsum))
    ELSE sec

\* The sector byte numbers the two sectors of each track through.
Fb100Sector(sec, r) ==
    IF r.hsum = "good"
    THEN Full(sec, r.sector \div 2, 0, r.sector % 2, r, Checked(r.dsum))
    ELSE sec

\* Mutant: each sector may have a checksum of its own.
MicropolisSums_EachSector(mem, r) ==
    IF "MICROPOLIS" \in r.dsum THEN "MICROPOLIS"
    ELSE IF "MZOS" \in r.dsum THEN "MZOS" ELSE "AUTO"

\* AUTO is settled by the first sector one of the checksums fits, and then
\* holds for the whole disk.
MicropolisSums(mem, r) ==
    IF mem.sums # "AUTO" THEN mem.sums
    ELSE IF "MICROPOLIS" \in r.dsum THEN "MICROPOLIS"
    ELSE IF "MZOS" \in r.dsum THEN "MZOS" ELSE "AUTO"

MicropolisUses(mem, r) ==
    IF MicropolisSums(mem, r) = "MZOS" THEN "MZOS" ELSE "MICROPOLIS"

MicropolisTaken(r, home) ==
    r.hsum = "good" /\ r.sector <= 15 /\ r.track <= 76 /\ r.track = home.t

MicropolisSector(sec, r, mem, home) ==
    IF MicropolisTaken(r, home)
    THEN Full(sec, r.track, home.s, r.sector, r,
              IF MicropolisUses(mem, r) \in r.dsum THEN "OK" ELSE "BAD_CHECKSUM")
    ELSE sec

\* Only the order of the sectors tells their number.
MxSector(sec, r, mem, home) == Full(sec, home.t, home.s, mem.count, r, Checked(r.dsum))

\* The hard sector is worked out from the time since the index, rounded to
\* the nearest 20 ms, ten sectors to a revolution.
NorthstarId(ms) == (IF ms % 20 < 10 THEN ms \div 20 ELSE (ms + 20) \div 20) % 10

NorthstarSector(sec, r, home) ==
    Full(sec, home.t, home.s, NorthstarId(r.at), r, Checked(r.dsum))

ZilogSector(sec, r) ==
    IF r.track % 128 <= 80
    THEN Full(sec, r.track % 128, 0, r.sector % 32, r, Checked(r.dsum))
    ELSE sec

DecodeWholeRecord(fmt, sec, r, mem, home) ==
    CASE fmt = "aeslanier" -> AesLanierSector(sec, r)
      [] fmt = "amiga" -> AmigaSector(sec, r)
      [] fmt = "fb100" -> Fb100Sector(sec, r)
      [] fmt = "micropolis" -> MicropolisSector(sec, r, mem, home)
      [] fmt = "mx" -> MxSector(sec, r, mem, home)
      [] fmt = "northstar" -> NorthstarSector(sec, r, home)
      [] fmt = "zilogmcz" -> ZilogSector(sec, r)

-----------------------------------------------------------------------------
(* The encoders: the records that a sector is written as, the i-th of its   *)
(* track.  A sector that was never read has no data, which some refuse.     *)

SizeChecked == {"amiga", "brother", "macintosh", "micropolis", "northstar"}

Refused(fmt, x) == fmt \in SizeChecked /\ x.status = "MISSING"

\* A sector that was never read is left out, a bad one stays bad.
Apple2Records(x) ==
    IF x.status \in {"OK", "BAD_CHECKSUM"}
    THEN << HeaderRecord(x.t, 0, x.n, "good"),
            DataRecord(x.body, IF x.status = "OK" THEN "good" ELSE "bad") >>
    ELSE << >>

AmigaRecords(x) == << WholeRecord(x.t * 2 + x.s, 0, x.n, "good", x.body, "good", 0) >>

BrotherRecords(x) == << HeaderRecord(x.t, 0, x.n, "good"), DataRecord(x.body, "good") >>

\* A sector that was never read is left out, a bad one becomes a good one.
C64Records(x) ==
    IF x.status \in {"OK", "BAD_CHECKSUM"}
    THEN << HeaderRecord(x.t + 1, 0, x.n, "good"), DataRecord(x.body, "good") >>
    ELSE << >>

\* slice() makes up for data that is not there with zeros.
IbmRecords(x) ==
    << HeaderRecord(x.t, Xor1(x.s, InvertSide), x.n, "good"),
       DataRecord(IF x.status = "MISSING" THEN Zeros ELSE x.body, "good") >>

\* Mutant: the seventh bit of the track is left in the first byte.
MacintoshRecords_WholeTrack(x) ==
    << HeaderRecord(x.t, 32 * x.s + (IF x.t > 63 THEN 1 ELSE 0), x.n, "good"),
       DataRecord(x.body, "good") >>

MacintoshRecords(x) ==
    << HeaderRecord(x.t % 64, 32 * x.s + (IF x.t > 63 THEN 1 ELSE 0), x.n, "good"),
       DataRecord(x.body, "good") >>

MicropolisRecords(x) ==
    << WholeRecord(x.t, 0, x.n, "good", x.body, {"MICROPOLIS"}, 0) >>

\* The place on the track is all that numbers it.
NorthstarRecords(x, i) ==
    << WholeRecord(0, 0, 0, "good", x.body, "good", 20 * (i - 1) + 1) >>

\* The record is as long as the data, which the decoder does not expect.
AsLongAs(x) == DataRecord(x.body, IF x.status = "MISSING" THEN "bad" ELSE "good")

Tids990Records(x) == << HeaderRecord(x.t, x.s * 8, x.n, "good"), AsLongAs(x) >>

Victor9kRecords(x) == << HeaderRecord(x.t + 128 * x.s, 0, x.n, "good"), AsLongAs(x) >>

Encode(fmt, x, i) ==
    CASE fmt = "amiga" -> AmigaRecords(x)
      [] fmt = "apple2" -> Apple2Records(x)
      [] fmt = "brother" -> BrotherRecords(x)
      [] fmt = "c64" -> C64Records(x)
      [] fmt = "ibm" -> IbmRecords(x)
      [] fmt = "macintosh" -> MacintoshRecords(x)
      [] fmt = "micropolis" -> MicropolisRecords(x)
      [] fmt = "northstar" -> NorthstarRecords(x, i)
      [] fmt = "tids990" -> Tids990Records(x)
      [] fmt = "victor9k" -> Victor9kRecords(x)

-----------------------------------------------------------------------------
(* What the machines themselves write, for the formats without an encoder.  *)

Foreign(fmt, x, i) ==
    CASE fmt = "agat" -> << HeaderRecord(x.t * 2 + x.s, 0, x.n, "good"), DataRecord(x.body, "good") >>
      [] fmt = "f85" -> << HeaderRecord(x.t, 0, x.n, "good"), DataRecord(x.body, "good") >>
      [] fmt = "aeslanier" -> << WholeRecord(x.t, 0, x.n, "good", x.body, "good", 0) >>
      [] fmt = "fb100" -> << WholeRecord(0, 0, 2 * x.t + x.n, "good", x.body, "good", 0) >>
      [] fmt = "mx" -> << WholeRecord(0, 0, 0, "good", x.body, "good", 0) >>
      [] fmt = "zilogmcz" -> << WholeRecord(x.t, 0, x.n, "good", x.body, "good", 0) >>

Written(fmt, x, i) ==
    IF fmt \in EncodedFormats THEN Encode(fmt, x, i) ELSE Foreign(fmt, x, i)
=============================================================================
