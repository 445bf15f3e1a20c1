------------------------ MODULE TrackDecode_proofs ------------------------
(***************************************************************************)
(* Proofs about TrackDecode, for any options of the formats, tracks written *)
(* with any sectors and damaged tracks of any number of records.           *)
(*                                                                         *)
(* What is on a track comes from the encoders: each header has the bytes    *)
(* that its format gives some sector.  A decoder takes them apart again,    *)
(* and finds that sector; the loop over the track keeps it together with    *)
(* its data.                                                                *)
(***************************************************************************)
EXTENDS TrackDecode, FiniteSetTheorems, NaturalsInduction, WellFoundedInduction, TLAPS

\* The numbers that a header has room for in every format.
Tracks == 0 .. 127
Sides == 0 .. 1
AllFormats == SplitFormats \cup WholeFormats
Bodies == Nat \cup {NoBody, Zeros}
Sums == {"good", "bad"}

\* The bytes that the headers of the formats have for a sector.
TrackByte(f, t, s) ==
    IF f \in {"agat", "amiga"} THEN t * 2 + s
    ELSE IF f = "c64" THEN t + 1
    ELSE IF f = "macintosh" THEN t % 64
    ELSE IF f = "victor9k" THEN t + 128 * s
    ELSE IF f \in {"fb100", "mx", "northstar"} THEN 0
    ELSE t

SideByte(f, t, s) ==
    IF f = "ibm" THEN Xor1(s, InvertSide)
    ELSE IF f = "macintosh" THEN 32 * s + (IF t > 63 THEN 1 ELSE 0)
    ELSE IF f = "tids990" THEN s * 8
    ELSE 0

SectorByte(f, t, n) ==
    IF f = "fb100" THEN 2 * t + n
    ELSE IF f \in {"mx", "northstar"} THEN 0
    ELSE n

\* Micropolis: the checksums by which the record is right.
DataSums(f) == IF f = "micropolis" THEN SUBSET {"MICROPOLIS", "MZOS"} ELSE Sums

\* The records a format has for sector n of side s of track t.
SplitRecord(f, t, s, n, sum) == HeaderRecord(TrackByte(f, t, s), SideByte(f, t, s), n, sum)

WholeOne(f, t, s, n, sum, body, dsum, when) ==
    WholeRecord(TrackByte(f, t, s), SideByte(f, t, s), SectorByte(f, t, n),
                sum, body, dsum, when)

-----------------------------------------------------------------------------
(* What a sector is written as.                                             *)

LEMMA WrittenBy ==
    ASSUME NEW x, NEW i
    PROVE  /\ Written("agat", x, i)
              = << HeaderRecord(x.t * 2 + x.s, 0, x.n, "good"), DataRecord(x.body, "good") >>
           /\ Written("apple2", x, i) = Apple2Records(x)
           /\ Written("brother", x, i) = BrotherRecords(x)
           /\ Written("c64", x, i) = C64Records(x)
           /\ Written("f85", x, i)
              = << HeaderRecord(x.t, 0, x.n, "good"), DataRecord(x.body, "good") >>
           /\ Written("ibm", x, i) = IbmRecords(x)
           /\ Written("macintosh", x, i) = MacintoshRecords(x)
           /\ Written("tids990", x, i) = Tids990Records(x)
           /\ Written("victor9k", x, i) = Victor9kRecords(x)
           /\ Written("aeslanier", x, i)
              = << WholeRecord(x.t, 0, x.n, "good", x.body, "good", 0) >>
           /\ Written("amiga", x, i) = AmigaRecords(x)
           /\ Written("fb100", x, i)
              = << WholeRecord(0, 0, 2 * x.t + x.n, "good", x.body, "good", 0) >>
           /\ Written("micropolis", x, i) = MicropolisRecords(x)
           /\ Written("mx", x, i) = << WholeRecord(0, 0, 0, "good", x.body, "good", 0) >>
           /\ Written("northstar", x, i) = NorthstarRecords(x, i)
           /\ Written("zilogmcz", x, i)
              = << WholeRecord(x.t, 0, x.n, "good", x.body, "good", 0) >>
BY DEF Written, Encode, Foreign, EncodedFormats

\* A sector that can be written.
Writable == [t : Nat, s : Sides, n : Nat, body : Bodies,
             status : {"OK", "BAD_CHECKSUM", "MISSING"}]

\* The formats with separate records write a header and the data, or nothing.
LEMMA SplitWritten ==
    ASSUME NEW f \in SplitFormats, NEW x \in Writable, NEW i
    PROVE  \/ Written(f, x, i) = << >> /\ x.status # "OK"
           \/ \E body \in Bodies, sum \in Sums :
                /\ Written(f, x, i)
                   = << SplitRecord(f, x.t, x.s, x.n, "good"), DataRecord(body, sum) >>
                /\ x.status = "OK" => body = x.body /\ sum = "good"
<1> USE DEF SplitRecord, TrackByte, SideByte, Bodies, Sums, Writable
<1>1. CASE f = "agat" \/ f = "f85"
  <2>1. Written(f, x, i)
        = << SplitRecord(f, x.t, x.s, x.n, "good"), DataRecord(x.body, "good") >>
    BY <1>1, WrittenBy
  <2>2. x.body \in Bodies /\ "good" \in Sums
    OBVIOUS
  <2> HIDE DEF SplitRecord, Bodies, Sums
  <2> QED  BY <2>1, <2>2
<1>2. CASE f = "apple2"
  <2>1. CASE x.status = "MISSING"
    BY <1>2, <2>1, WrittenBy DEF Apple2Records
  <2>2. CASE x.status # "MISSING"
    <3> DEFINE right == IF x.status = "OK" THEN "good" ELSE "bad"
    <3>1. Written(f, x, i)
          = << SplitRecord(f, x.t, x.s, x.n, "good"), DataRecord(x.body, right) >>
      BY <1>2, <2>2, WrittenBy DEF Apple2Records
    <3>2. x.body \in Bodies /\ right \in Sums /\ (x.status = "OK" => right = "good")
      OBVIOUS
    <3> HIDE DEF right, SplitRecord, Bodies, Sums
    <3> QED  BY <3>1, <3>2
  <2> QED  BY <2>1, <2>2
<1>3. CASE f = "brother"
  <2>1. Written(f, x, i)
        = << SplitRecord(f, x.t, x.s, x.n, "good"), DataRecord(x.body, "good") >>
    BY <1>3, WrittenBy DEF BrotherRecords
  <2>2. x.body \in Bodies /\ "good" \in Sums
    OBVIOUS
  <2> HIDE DEF SplitRecord, Bodies, Sums
  <2> QED  BY <2>1, <2>2
<1>4. CASE f = "c64"
  BY <1>4, WrittenBy DEF C64Records
<1>5. CASE f = "ibm"
  <2> DEFINE bytes == IF x.status = "MISSING" THEN Zeros ELSE x.body
  <2>1. Written(f, x, i)
        = << SplitRecord(f, x.t, x.s, x.n, "good"), DataRecord(bytes, "good") >>
    BY <1>5, WrittenBy DEF IbmRecords
  <2>2. bytes \in Bodies /\ "good" \in Sums /\ (x.status = "OK" => bytes = x.body)
    OBVIOUS
  <2> HIDE DEF bytes, SplitRecord, Bodies, Sums
  <2> QED  BY <2>1, <2>2
<1>6. CASE f = "macintosh"
  <2>1. Written(f, x, i)
        = << SplitRecord(f, x.t, x.s, x.n, "good"), DataRecord(x.body, "good") >>
    BY <1>6, WrittenBy DEF MacintoshRecords
  <2>2. x.body \in Bodies /\ "good" \in Sums
    OBVIOUS
  <2> HIDE DEF SplitRecord, Bodies, Sums
  <2> QED  BY <2>1, <2>2
<1>7. CASE f \in {"tids990", "victor9k"}
  <2> DEFINE right == IF x.status = "MISSING" THEN "bad" ELSE "good"
  <2>1. Written(f, x, i)
        = << SplitRecord(f, x.t, x.s, x.n, "good"), DataRecord(x.body, right) >>
    BY <1>7, WrittenBy DEF Tids990Records, Victor9kRecords, AsLongAs
  <2>2. x.body \in Bodies /\ right \in Sums /\ (x.status = "OK" => right = "good")
    OBVIOUS
  <2> HIDE DEF right, SplitRecord, Bodies, Sums
  <2> QED  BY <2>1, <2>2
<1> QED  BY <1>1, <1>2, <1>3, <1>4, <1>5, <1>6, <1>7 DEF SplitFormats

\* What a record that is a sector is written with.
WrittenSum(f) == IF f = "micropolis" THEN {"MICROPOLIS"} ELSE "good"
WrittenWhen(f, i) == IF f = "northstar" THEN 20 * (i - 1) + 1 ELSE 0

LEMMA WholeWrittenAs ==
    ASSUME NEW f \in WholeFormats, NEW x, NEW i
    PROVE  Written(f, x, i)
           = << WholeOne(f, x.t, x.s, x.n, "good", x.body, WrittenSum(f), WrittenWhen(f, i)) >>
<1> USE DEF WholeOne, TrackByte, SideByte, SectorByte, WrittenSum, WrittenWhen
<1>1. CASE f = "aeslanier" \/ f = "zilogmcz" \/ f = "fb100" \/ f = "mx"
  BY <1>1, WrittenBy
<1>2. CASE f = "amiga"
  BY <1>2, WrittenBy DEF AmigaRecords
<1>3. CASE f = "micropolis"
  BY <1>3, WrittenBy DEF MicropolisRecords
<1>4. CASE f = "northstar"
  BY <1>4, WrittenBy DEF NorthstarRecords
<1> QED  BY <1>1, <1>2, <1>3, <1>4 DEF WholeFormats

LEMMA WholeWritten ==
    ASSUME NEW f \in WholeFormats, NEW x \in Writable, NEW i \in Nat \ {0}
    PROVE  \E dsum \in DataSums(f), when \in Nat :
             Written(f, x, i) = << WholeOne(f, x.t, x.s, x.n, "good", x.body, dsum, when) >>
<1>1. 20 * (i - 1) + 1 \in Nat
  OBVIOUS
<1>2. WrittenSum(f) \in DataSums(f) /\ WrittenWhen(f, i) \in Nat
  BY <1>1 DEF WrittenSum, WrittenWhen, DataSums, Sums
<1> QED  BY <1>2, WholeWrittenAs

\* The header of a sector as it should be.
LEMMA ProperHeader ==
    ASSUME NEW f \in AllFormats, NEW t \in Nat, NEW s \in Sides, NEW n \in Nat
    PROVE  /\ f \in SplitFormats =>
                Proper(f, t, s, n)[1] = SplitRecord(f, t, s, n, "good")
           /\ f \in WholeFormats =>
                \E dsum \in DataSums(f), when \in Nat :
                  Proper(f, t, s, n)[1] = WholeOne(f, t, s, n, "good", n, dsum, when)
<1> DEFINE x == [t |-> t, s |-> s, n |-> n, body |-> n, status |-> "OK"]
<1>1. x \in Writable /\ n + 1 \in Nat \ {0}
  BY DEF Writable, Bodies
<1>2. x.t = t /\ x.s = s /\ x.n = n /\ x.body = n /\ x.status = "OK"
  OBVIOUS
<1>3. Proper(f, t, s, n) = Written(f, x, n + 1)
  BY DEF Proper
<1> HIDE DEF x
<1>4. CASE f \in SplitFormats
  <2>1. f \notin WholeFormats
    BY <1>4 DEF SplitFormats, WholeFormats
  <2> QED  BY <1>1, <1>2, <1>3, <1>4, <2>1, SplitWritten
<1>5. CASE f \in WholeFormats
  <2>1. f \notin SplitFormats
    BY <1>5 DEF SplitFormats, WholeFormats
  <2> QED  BY <1>1, <1>2, <1>3, <1>5, <2>1, WholeWritten
<1> QED  BY <1>4, <1>5 DEF AllFormats

-----------------------------------------------------------------------------
(* What the decoders make of a header.                                       *)

\* A sector whose header may be on a track h.
Origin(f, h, t, s, n) ==
    /\ t \in Tracks /\ s \in Sides /\ s = h.s /\ n \in Nat
    /\ f = "macintosh" => (t % 64 = h.t % 64 => t = h.t)
    /\ f = "zilogmcz" => n <= 31

LEMMA HeaderBytes ==
    ASSUME NEW f \in AllFormats, NEW t \in Nat, NEW s \in Sides, NEW n \in Nat, NEW r
    PROVE  IsHeaderOf(f, r, t, s, n)
           <=> /\ r.kind = IF f \in SplitFormats THEN "head" ELSE "whole"
               /\ r.sector = SectorByte(f, t, n)
               /\ r.track = TrackByte(f, t, s) \/ (f = "ibm" /\ IgnoreTrack)
               /\ r.side = SideByte(f, t, s) \/ (f = "ibm" /\ IgnoreSide)
               /\ r.hsum = "good" \/ f = "brother"
<1> DEFINE p == Proper(f, t, s, n)[1]
<1>1. /\ p.kind = IF f \in SplitFormats THEN "head" ELSE "whole"
      /\ p.sector = SectorByte(f, t, n)
      /\ p.track = TrackByte(f, t, s) /\ p.side = SideByte(f, t, s)
  <2>1. CASE f \in SplitFormats
    <3>1. Proper(f, t, s, n)[1] = SplitRecord(f, t, s, n, "good")
      BY <2>1, ProperHeader
    <3>2. SectorByte(f, t, n) = n
      BY <2>1 DEF SectorByte, SplitFormats
    <3> QED  BY <2>1, <3>1, <3>2 DEF SplitRecord, HeaderRecord
  <2>2. CASE f \notin SplitFormats
    <3>1. f \in WholeFormats
      BY <2>2 DEF AllFormats
    <3>2. PICK d \in DataSums(f), w \in Nat :
             Proper(f, t, s, n)[1] = WholeOne(f, t, s, n, "good", n, d, w)
      BY <3>1, ProperHeader
    <3> QED  BY <2>2, <3>2 DEF WholeOne, WholeRecord
  <2> QED  BY <2>1, <2>2
<1> HIDE DEF p
<1>2. IsHeaderOf(f, r, t, s, n)
      <=> /\ r.kind = p.kind
          /\ r.sector = p.sector
          /\ r.track = p.track \/ (f = "ibm" /\ IgnoreTrack)
          /\ r.side = p.side \/ (f = "ibm" /\ IgnoreSide)
          /\ r.hsum = "good" \/ f = "brother"
  BY DEF IsHeaderOf, p
<1> QED  BY <1>1, <1>2

\* The tracks that are decoded.
Homely == [t : Tracks, s : Sides]

\* The decoder of r takes sector n for side s of track t, if it takes it.
Takes(f, new, r, h, t, s, accepted) ==
    /\ DecodeSectorRecord(f, new, r, h) = Found(new, t, s, r.sector, accepted)
    /\ accepted =>
         /\ t \in Tracks /\ s \in Sides
         /\ r.track = TrackByte(f, t, s) \/ (f = "ibm" /\ IgnoreTrack)
         /\ r.side = SideByte(f, t, s) \/ (f = "ibm" /\ IgnoreSide)
         /\ r.hsum = "good" \/ f = "brother"

LEMMA SplitTakes ==
    ASSUME NEW f \in SplitFormats, NEW h \in Homely, NEW t, NEW s, NEW n, Origin(f, h, t, s, n),
           NEW r, r.kind = "head", r.sector = n,
           r.track = TrackByte(f, t, s), r.side = SideByte(f, t, s),
           NEW new, new.s = h.s
    PROVE  \E tt, ss, accepted : Takes(f, new, r, h, tt, ss, accepted)
<1> DEFINE good == r.hsum = "good"
<1>1. t \in 0 .. 127 /\ s \in 0 .. 1 /\ n \in Nat /\ h.t \in 0 .. 127 /\ h.s \in 0 .. 1
  BY DEF Origin, Tracks, Sides, Homely
<1> USE DEF Takes, DecodeSectorRecord, TrackByte, SideByte, Tracks, Sides
<1>2. CASE f = "agat"
  <2>1. (t * 2 + s) \div 2 = t /\ (t * 2 + s) % 2 = s
    BY <1>1
  <2> QED  BY <1>1, <1>2, <2>1 DEF AgatHeader
<1>3. CASE f = "apple2"
  <2>1. Takes(f, new, r, h, r.track, new.s, good)
    BY <1>1, <1>3 DEF Apple2Header
  <2> HIDE DEF Takes, good
  <2> QED  BY <2>1
<1>4. CASE f = "brother"
  <2>1. Takes(f, new, r, h, r.track, new.s, r.sector <= 11 /\ r.track <= 79)
    BY <1>1, <1>4 DEF BrotherHeader
  <2> HIDE DEF Takes, good
  <2> QED  BY <2>1
<1>5. CASE f = "c64"
  <2>1. Takes(f, new, r, h, r.track - 1, 0, good)
    BY <1>1, <1>5 DEF C64Header
  <2> HIDE DEF Takes, good
  <2> QED  BY <2>1
<1>6. CASE f = "f85"
  <2>1. Takes(f, new, r, h, r.track, 0, good)
    BY <1>1, <1>6 DEF F85Header
  <2> HIDE DEF Takes, good
  <2> QED  BY <2>1
<1>7. CASE f = "ibm"
  <2> DEFINE tt == IF IgnoreTrack THEN h.t ELSE r.track
             ss == Xor1(IF IgnoreSide THEN h.s ELSE r.side, InvertSide)
             wanted == good /\ r.sector \notin IgnoreSectors
  <2>1. Takes(f, new, r, h, tt, ss, wanted)
    BY <1>1, <1>7, OptionsAssumption DEF IbmHeader, Xor1
  <2> HIDE DEF Takes, tt, ss, wanted
  <2> QED  BY <2>1
<1>8. CASE f = "macintosh"
  <2> DEFINE ss == (r.side \div 32) % 2
  <2>1. (r.side \div 32) % 2 = s
    BY <1>1, <1>8
  <2>2. Takes(f, new, r, h, h.t, ss, r.track = h.t % 64 /\ r.sector <= 11 /\ good)
    BY <1>1, <1>8, <2>1 DEF MacintoshHeader, Origin
  <2> HIDE DEF Takes, good
  <2> QED  BY <2>2
<1>9. CASE f = "tids990"
  <2>1. Takes(f, new, r, h, r.track, r.side \div 8, good)
    BY <1>1, <1>9 DEF Tids990Header
  <2> HIDE DEF Takes, good
  <2> QED  BY <2>1
<1>10. CASE f = "victor9k"
  <2>1. r.track % 128 = t /\ r.track \div 128 = s
    BY <1>1, <1>10
  <2>2. Takes(f, new, r, h, t, s, r.sector <= 20 /\ t <= 85 /\ good)
    BY <1>1, <1>10, <2>1 DEF Victor9kHeader
  <2> HIDE DEF Takes, good
  <2> QED  BY <2>2
<1> QED  BY <1>2, <1>3, <1>4, <1>5, <1>6, <1>7, <1>8, <1>9, <1>10 DEF SplitFormats
\* A header leaves the new sector as it is, or finds the one it names.
LEMMA SplitFinds ==
    ASSUME NEW f \in SplitFormats, NEW h \in Homely, NEW t, NEW s, NEW n, Origin(f, h, t, s, n),
           NEW sum
    PROVE  LET r == SplitRecord(f, t, s, n, sum)
               sec == DecodeSectorRecord(f, NewSector(h), r, h)
           IN  \/ sec = NewSector(h)
               \/ /\ sec \in Sector
                  /\ sec.status = "DATA_MISSING"
                  /\ IsHeaderOf(f, r, sec.t, sec.s, sec.n)
<1> DEFINE r == SplitRecord(f, t, s, n, sum)
           new == NewSector(h)
           sec == DecodeSectorRecord(f, new, r, h)
<1>1. /\ r.kind = "head" /\ r.sector = n
      /\ r.track = TrackByte(f, t, s) /\ r.side = SideByte(f, t, s)
  BY DEF SplitRecord, HeaderRecord
<1>2. new.s = h.s
  BY DEF NewSector
<1>3. n \in Nat
  BY DEF Origin
<1> HIDE DEF r, new
<1>4. PICK tt, ss, accepted : Takes(f, new, r, h, tt, ss, accepted)
  BY <1>1, <1>2, SplitTakes
<1>5. CASE ~ accepted
  <2>1. sec = new
    BY <1>4, <1>5 DEF Takes, Found
  <2> QED  BY <2>1 DEF r, new
<1>6. CASE accepted
  <2>1. sec = [new EXCEPT !.t = tt, !.s = ss, !.n = n, !.status = "DATA_MISSING"]
    BY <1>1, <1>4, <1>6 DEF Takes, Found
  <2>2. new = [t |-> h.t, s |-> h.s, n |-> 0, body |-> NoBody, status |-> "MISSING"]
    BY DEF new, NewSector
  <2>3. sec = [t |-> tt, s |-> ss, n |-> n, body |-> NoBody, status |-> "DATA_MISSING"]
    BY <2>1, <2>2
  <2>4. tt \in Tracks /\ ss \in Sides
    BY <1>4, <1>6 DEF Takes
  <2>5. IsHeaderOf(f, r, tt, ss, n)
    <3>1. SectorByte(f, tt, n) = n
      BY DEF SectorByte, SplitFormats
    <3> QED  BY <1>1, <1>3, <1>4, <1>6, <2>4, <3>1, HeaderBytes DEF Takes, AllFormats, Tracks
  <2> HIDE DEF sec
  <2>6. /\ sec \in Sector /\ sec.status = "DATA_MISSING"
        /\ sec.t = tt /\ sec.s = ss /\ sec.n = n
    BY <1>3, <2>3, <2>4 DEF Sector, Tracks, Sides
  <2> QED  BY <2>5, <2>6 DEF sec, r, new
<1> QED  BY <1>5, <1>6

-----------------------------------------------------------------------------
(* Formats with one record for a sector.                                     *)

\* The decoder of r keeps the sector as it was, or makes it sector n of side s
\* of track t, as good as the record.
Makes(f, new, r, m, h, t, s, n, accepted, right) ==
    /\ DecodeWholeRecord(f, new, r, m, h)
       = IF accepted THEN Full(new, t, s, n, r, IF right THEN "OK" ELSE "BAD_CHECKSUM")
         ELSE new
    /\ accepted =>
         /\ t \in Nat /\ s \in Sides /\ n \in Nat
         /\ f \notin Nameless =>
              /\ r.track = TrackByte(f, t, s)
              /\ r.side = SideByte(f, t, s)
              /\ r.sector = SectorByte(f, t, n)
              /\ r.hsum = "good"
    /\ f # "micropolis" /\ right => r.dsum = "good"
    /\ f = "micropolis" /\ right => MicropolisUses(m, r) \in r.dsum

LEMMA WholeMakes ==
    ASSUME NEW f \in WholeFormats, NEW h \in Homely, NEW t, NEW s, NEW n, Origin(f, h, t, s, n),
           NEW r, r.kind = "whole", r.hsum = "good" \/ f \notin {"mx", "northstar", "zilogmcz"},
           r.sector = SectorByte(f, t, n), r.at \in Nat,
           r.track = TrackByte(f, t, s), r.side = SideByte(f, t, s),
           NEW m, m.count \in Nat, NEW new
    PROVE  \E tt, ss, nn, accepted, right :
             Makes(f, new, r, m, h, tt, ss, nn, accepted, right)
<1>1. t \in 0 .. 127 /\ s \in 0 .. 1 /\ n \in Nat /\ h.t \in 0 .. 127 /\ h.s \in 0 .. 1
  BY DEF Origin, Tracks, Sides, Homely
<1> DEFINE right == r.dsum = "good"
           good == r.hsum = "good"
<1> USE DEF Makes, DecodeWholeRecord, TrackByte, SideByte, SectorByte, Tracks, Sides, Nameless,
        Checked
<1>2. CASE f = "aeslanier"
  <2>1. Makes(f, new, r, m, h, r.track, 0, r.sector, good, right)
    BY <1>1, <1>2 DEF AesLanierSector
  <2> QED  BY <2>1
<1>3. CASE f = "amiga"
  <2>1. (t * 2 + s) \div 2 = t /\ (t * 2 + s) % 2 = s
    BY <1>1
  <2>2. Makes(f, new, r, m, h, t, s, r.sector, good, right)
    BY <1>1, <1>3, <2>1 DEF AmigaSector
  <2> QED  BY <2>2
<1>4. CASE f = "fb100"
  <2>1. /\ r.sector \in Nat
        /\ r.sector \div 2 \in Nat /\ r.sector % 2 \in Nat
        /\ 2 * (r.sector \div 2) + (r.sector % 2) = r.sector
    BY <1>1, <1>4
  <2>2. Makes(f, new, r, m, h, r.sector \div 2, 0, r.sector % 2, good, right)
    BY <1>1, <1>4, <2>1 DEF Fb100Sector
  <2> QED  BY <2>2
<1>5. CASE f = "micropolis"
  <2> DEFINE sure == MicropolisUses(m, r) \in r.dsum
             taken == MicropolisTaken(r, h)
  <2>1. Makes(f, new, r, m, h, r.track, h.s, r.sector, taken, sure)
    BY <1>1, <1>5 DEF MicropolisSector, MicropolisTaken
  <2> HIDE DEF sure, taken, Makes
  <2> QED  BY <2>1
<1>6. CASE f = "mx"
  <2>1. Makes(f, new, r, m, h, h.t, h.s, m.count, TRUE, right)
    BY <1>1, <1>6 DEF MxSector
  <2> QED  BY <2>1
<1>7. CASE f = "northstar"
  <2>1. NorthstarId(r.at) \in Nat
    BY DEF NorthstarId
  <2>2. Makes(f, new, r, m, h, h.t, h.s, NorthstarId(r.at), TRUE, right)
    BY <1>1, <1>7, <2>1 DEF NorthstarSector
  <2> QED  BY <2>2
<1>8. CASE f = "zilogmcz"
  <2>1. r.track % 128 = r.track /\ r.sector % 32 = r.sector
    BY <1>1, <1>8 DEF Origin
  <2>2. Makes(f, new, r, m, h, r.track, 0, r.sector, r.track <= 80, right)
    BY <1>1, <1>8, <2>1 DEF ZilogSector
  <2> QED  BY <2>2
<1> QED  BY <1>2, <1>3, <1>4, <1>5, <1>6, <1>7, <1>8 DEF WholeFormats
LEMMA WholeFinds ==
    ASSUME NEW f \in WholeFormats, NEW h \in Homely, NEW t, NEW s, NEW n, Origin(f, h, t, s, n),
           NEW sum \in Sums, sum = "good" \/ f \notin {"mx", "northstar", "zilogmcz"},
           NEW body \in Bodies, NEW dsum, NEW when \in Nat,
           NEW m, m.count \in Nat
    PROVE  LET r == WholeOne(f, t, s, n, sum, body, dsum, when)
               sec == DecodeWholeRecord(f, NewSector(h), r, m, h)
           IN  \/ sec = NewSector(h)
               \/ /\ sec \in Sector
                  /\ sec.status \in {"OK", "BAD_CHECKSUM"}
                  /\ sec.body = body
                  /\ f \notin Nameless => IsHeaderOf(f, r, sec.t, sec.s, sec.n)
                  /\ sec.status = "OK" =>
                       IF f = "micropolis" THEN MicropolisUses(m, r) \in dsum
                       ELSE dsum = "good"
<1> DEFINE r == WholeOne(f, t, s, n, sum, body, dsum, when)
           new == NewSector(h)
           sec == DecodeWholeRecord(f, new, r, m, h)
<1>1. /\ r.kind = "whole" /\ r.hsum = sum /\ r.body = body /\ r.dsum = dsum /\ r.at = when
      /\ r.track = TrackByte(f, t, s) /\ r.side = SideByte(f, t, s)
      /\ r.sector = SectorByte(f, t, n)
  BY DEF WholeOne, WholeRecord
<1> HIDE DEF r, new
<1>2. PICK tt, ss, nn, accepted, right : Makes(f, new, r, m, h, tt, ss, nn, accepted, right)
  BY <1>1, WholeMakes
<1>3. CASE ~ accepted
  <2>1. sec = new
    BY <1>2, <1>3 DEF Makes
  <2> QED  BY <2>1 DEF r, new
<1>4. CASE accepted
  <2>1. sec = Full(new, tt, ss, nn, r, IF right THEN "OK" ELSE "BAD_CHECKSUM")
    BY <1>2, <1>4 DEF Makes
  <2>2. new = [t |-> h.t, s |-> h.s, n |-> 0, body |-> NoBody, status |-> "MISSING"]
    BY DEF new, NewSector
  <2>3. sec = [t |-> tt, s |-> ss, n |-> nn, body |-> body,
               status |-> IF right THEN "OK" ELSE "BAD_CHECKSUM"]
    BY <1>1, <2>1, <2>2 DEF Full
  <2>4. tt \in Nat /\ ss \in Sides /\ nn \in Nat
    BY <1>2, <1>4 DEF Makes
  <2> HIDE DEF sec
  <2>5. /\ sec \in Sector /\ sec.status \in {"OK", "BAD_CHECKSUM"} /\ sec.body = body
        /\ sec.t = tt /\ sec.s = ss /\ sec.n = nn
        /\ sec.status = "OK" => right
    BY <2>3, <2>4 DEF Sector, Sides, Bodies
  <2>6. right => IF f = "micropolis" THEN MicropolisUses(m, r) \in dsum ELSE dsum = "good"
    BY <1>1, <1>2 DEF Makes
  <2>7. ASSUME f \notin Nameless PROVE IsHeaderOf(f, r, tt, ss, nn)
    <3>1. /\ r.track = TrackByte(f, tt, ss) /\ r.side = SideByte(f, tt, ss)
          /\ r.sector = SectorByte(f, tt, nn) /\ r.hsum = "good"
      BY <1>2, <1>4, <2>7 DEF Makes
    <3>2. f \in AllFormats /\ f \notin SplitFormats
      BY DEF AllFormats, SplitFormats, WholeFormats
    <3> QED  BY <1>1, <2>4, <3>1, <3>2, HeaderBytes
  <2> QED  BY <2>5, <2>6, <2>7 DEF sec, r, new
<1> QED  BY <1>3, <1>4

\* What a record of its own brings the sector.
LEMMA DataBrings ==
    ASSUME NEW f \in SplitFormats, NEW sec \in Sector, sec.status = "DATA_MISSING", NEW r,
           r.kind = "data" => r.body \in Bodies
    PROVE  LET got == DecodeDataRecord(f, sec, r) IN
           \/ got = sec /\ ~ (r.kind = "data" /\ r.dsum # "torn")
           \/ /\ r.kind = "data"
              /\ got \in Sector
              /\ got.status \in {"OK", "BAD_CHECKSUM"}
              /\ got.status = "OK" => r.dsum = "good"
              /\ got.t = sec.t /\ got.s = sec.s /\ got.n = sec.n /\ got.body = r.body
<1> DEFINE got == DecodeDataRecord(f, sec, r)
<1>1. CASE r.kind # "data" \/ (f = "agat" /\ r.dsum = "torn")
  BY <1>1 DEF DecodeDataRecord, AgatData
<1>2. CASE r.kind = "data" /\ ~ (f = "agat" /\ r.dsum = "torn")
  <2>1. got = [sec EXCEPT !.body = r.body, !.status = Checked(r.dsum)]
    BY <1>2 DEF DecodeDataRecord, AgatData, PlainData
  <2>2. sec = [t |-> sec.t, s |-> sec.s, n |-> sec.n, body |-> sec.body, status |-> sec.status]
        /\ sec.t \in Nat /\ sec.s \in 0 .. 1 /\ sec.n \in Nat
    BY DEF Sector
  <2>3. got = [t |-> sec.t, s |-> sec.s, n |-> sec.n, body |-> r.body, status |-> Checked(r.dsum)]
    BY <2>1, <2>2
  <2>4. Checked(r.dsum) \in {"OK", "BAD_CHECKSUM"} /\ (Checked(r.dsum) = "OK" => r.dsum = "good")
    BY DEF Checked
  <2>5. r.body \in Bodies
    BY <1>2
  <2> HIDE DEF got
  <2>6. got \in Sector
    BY <2>2, <2>3, <2>4, <2>5 DEF Sector, Bodies
  <2>7. got.t = sec.t /\ got.s = sec.s /\ got.n = sec.n /\ got.body = r.body
        /\ got.status = Checked(r.dsum)
    BY <2>3
  <2> QED  BY <1>2, <2>4, <2>6, <2>7 DEF got
<1> QED  BY <1>1, <1>2
-----------------------------------------------------------------------------
(* What is on a track.                                                       *)

\* The records on a track h.
Origins(f, h) ==
    {q \in Tracks \X Sides \X Nat : Origin(f, h, q[1], q[2], q[3])}

HeaderSums(f) == IF f \in {"mx", "northstar", "zilogmcz"} THEN {"good"} ELSE Sums

HeaderRecords(f, h) ==
    {SplitRecord(f, q[1], q[2], q[3], sum) : q \in Origins(f, h), sum \in Sums}

DataRecords == {DataRecord(body, sum) : body \in Bodies, sum \in Sums \cup {"torn"}}

WholeRecords(f, h) ==
    {WholeOne(f, q[1], q[2], q[3], sum, body, dsum, when) :
        q \in Origins(f, h), sum \in HeaderSums(f), body \in Bodies,
        dsum \in DataSums(f), when \in Nat}

Records(f, h) ==
    IF f \in SplitFormats THEN HeaderRecords(f, h) \cup DataRecords \cup {Junk}
    ELSE WholeRecords(f, h)

LEMMA LeastOf ==
    ASSUME NEW S \in SUBSET Nat, S # {}
    PROVE  \E m \in S : \A n \in S : m <= n
<1>1. PICK m \in S : \A n \in S : ~ (<<n, m>> \in OpToRel(<, Nat))
  BY NatLessThanWellFounded, WFMin
<1>2. ASSUME NEW n \in S PROVE m <= n
  <2>1. ~ (n < m)
    BY <1>1 DEF OpToRel
  <2> QED  BY <2>1
<1> QED  BY <1>2

\* What sequences come to, one after the other: g has the first of them joined.
Grown(g, N, ss) ==
    \A i \in 1 .. N : g[i] = IF i = 1 THEN ss[i] ELSE g[i - 1] \o ss[i]

LEMMA FlattenIs ==
    ASSUME NEW S, NEW N \in Nat \ {0}, NEW ss \in [1 .. N -> Seq(S)]
    PROVE  \E g \in [1 .. N -> Seq(S)] : Grown(g, N, ss) /\ FlattenSeq(ss) = g[N]
<1> DEFINE E(f) == f = [i \in 1 .. N |-> IF i = 1 THEN ss[i] ELSE f[i - 1] \o ss[i]]
           F == CHOOSE f : E(f)
<1>0. ss \in Seq(Seq(S)) /\ Len(ss) = N
  OBVIOUS
<1>1. FlattenSeq(ss) = F[N]
  BY <1>0 DEF FlattenSeq
<1> DEFINE Flat(n, g) ==
      \A i \in 1 .. n : g[i] = IF i = 1 THEN ss[i] ELSE g[i - 1] \o ss[i]
    B == {n \in 1 .. N : ~ \E g \in [1 .. n -> Seq(S)] : Flat(n, g)}
<1>2. B = {}
  <2>1. SUFFICES ASSUME B # {} PROVE FALSE
    OBVIOUS
  <2>2. B \in SUBSET Nat
    OBVIOUS
  <2>3. PICK m \in B : \A n \in B : m <= n
    <3> HIDE DEF B
    <3> QED  BY <2>1, <2>2, LeastOf
  <2>4. m \in 1 .. N /\ ~ \E g \in [1 .. m -> Seq(S)] : Flat(m, g)
    OBVIOUS
  <2>5. CASE m = 1
    <3> DEFINE g == [i \in 1 .. 1 |-> ss[1]]
    <3>1. g \in [1 .. 1 -> Seq(S)] /\ Flat(1, g)
      OBVIOUS
    <3> QED  BY <2>4, <2>5, <3>1
  <2>6. CASE m # 1
    <3>1. m - 1 \in 1 .. N
      BY <2>4, <2>6
    <3>2. m - 1 \notin B
      <4> HIDE DEF B
      <4> QED  BY <2>3, <2>4
    <3>3. PICK h \in [1 .. m - 1 -> Seq(S)] : Flat(m - 1, h)
      BY <3>1, <3>2
    <3> DEFINE g == [i \in 1 .. m |-> IF i = m THEN h[m - 1] \o ss[m] ELSE h[i]]
    <3>4. h[m - 1] \in Seq(S) /\ ss[m] \in Seq(S)
      BY <2>4, <3>1
    <3>5. g \in [1 .. m -> Seq(S)]
      BY <2>4, <3>4
    <3>6. ASSUME NEW i \in 1 .. m
          PROVE  g[i] = IF i = 1 THEN ss[i] ELSE g[i - 1] \o ss[i]
      <4>1. CASE i = m
        <5>1. m - 1 \in 1 .. m /\ m - 1 # m
          BY <2>4, <2>6
        <5>2. g[m - 1] = h[m - 1]
          BY <5>1
        <5>3. g[m] = h[m - 1] \o ss[m]
          BY <2>4
        <5> HIDE DEF g
        <5> QED  BY <2>6, <4>1, <5>2, <5>3
      <4>2. CASE i # m
        <5>1. i \in 1 .. m - 1 /\ g[i] = h[i]
          BY <2>4, <4>2
        <5>2. i # 1 => i - 1 \in 1 .. m /\ i - 1 # m
          BY <2>4, <4>2
        <5>3. i # 1 => g[i - 1] = h[i - 1]
          BY <5>2
        <5>4. h[i] = IF i = 1 THEN ss[i] ELSE h[i - 1] \o ss[i]
          BY <3>3, <5>1
        <5> HIDE DEF g
        <5> QED  BY <5>1, <5>3, <5>4
      <4> QED  BY <4>1, <4>2
    <3>7. Flat(m, g)
      BY <3>6
    <3> HIDE DEF g, Flat
    <3> QED  BY <2>4, <3>5, <3>7
  <2> QED  BY <2>5, <2>6
<1>3. N \in 1 .. N /\ N \notin B
  <2> HIDE DEF B
  <2> QED  BY <1>2
<1>4. PICK g \in [1 .. N -> Seq(S)] : Flat(N, g)
  BY <1>3
<1>5. E(g)
  BY <1>4
<1>6. E(F)
  <2> HIDE DEF E
  <2> QED  BY <1>5, Zenon
<1>7. \A i \in 1 .. N : F[i] = IF i = 1 THEN ss[i] ELSE F[i - 1] \o ss[i]
  <2> HIDE DEF F
  <2> QED  BY <1>6
<1> HIDE DEF E, F
<1> DEFINE C == {n \in 1 .. N : F[n] \notin Seq(S)}
<1>8. C = {}
  <2>1. SUFFICES ASSUME C # {} PROVE FALSE
    OBVIOUS
  <2>2. C \in SUBSET Nat
    OBVIOUS
  <2>3. PICK m \in C : \A n \in C : m <= n
    <3> HIDE DEF C
    <3> QED  BY <2>1, <2>2, LeastOf
  <2>4. m \in 1 .. N /\ F[m] \notin Seq(S) /\ ss[m] \in Seq(S)
    OBVIOUS
  <2>5. CASE m = 1
    BY <1>7, <2>4, <2>5
  <2>6. CASE m # 1
    <3>1. m - 1 \in 1 .. N
      BY <2>4, <2>6
    <3>2. m - 1 \notin C
      <4> HIDE DEF C
      <4> QED  BY <2>3, <2>4
    <3>3. F[m - 1] \in Seq(S)
      BY <3>1, <3>2
    <3>4. F[m] = F[m - 1] \o ss[m]
      BY <1>7, <2>4, <2>6
    <3> QED  BY <2>4, <3>3, <3>4
  <2> QED  BY <2>5, <2>6
<1>9. F \in [1 .. N -> Seq(S)]
  <2>1. \A n \in 1 .. N : F[n] \in Seq(S)
    BY <1>8
  <2>2. F = [i \in 1 .. N |-> IF i = 1 THEN ss[i] ELSE F[i - 1] \o ss[i]]
    BY <1>6 DEF E
  <2> DEFINE G == [i \in 1 .. N |-> IF i = 1 THEN ss[i] ELSE F[i - 1] \o ss[i]]
  <2>3. F = G /\ DOMAIN G = 1 .. N /\ G = [i \in 1 .. N |-> G[i]]
    BY <2>2
  <2> HIDE DEF G
  <2> QED  BY <2>1, <2>3
<1>10. Grown(F, N, ss)
  BY <1>7 DEF Grown
<1> QED  BY <1>1, <1>9, <1>10

LEMMA FlattenType ==
    ASSUME NEW S, NEW N \in Nat, NEW ss \in [1 .. N -> Seq(S)]
    PROVE  FlattenSeq(ss) \in Seq(S)
<1>1. CASE N = 0
  <2>1. ss \in Seq(Seq(S)) /\ Len(ss) = N
    OBVIOUS
  <2> QED  BY <1>1, <2>1 DEF FlattenSeq
<1>2. CASE N # 0
  <2>1. N \in 1 .. N /\ N \in Nat \ {0}
    BY <1>2
  <2>2. PICK g \in [1 .. N -> Seq(S)] : FlattenSeq(ss) = g[N]
    BY <2>1, FlattenIs
  <2> QED  BY <2>1, <2>2
<1> QED  BY <1>1, <1>2

LEMMA FormatsApart == SplitFormats \cap WholeFormats = {} /\ Formats \subseteq AllFormats
BY DecodeAssumption DEF SplitFormats, WholeFormats, AllFormats

\* Where a record is from.
LEMMA HeaderIn ==
    ASSUME NEW f \in SplitFormats, NEW h, NEW t, NEW s, NEW n, Origin(f, h, t, s, n),
           NEW sum \in Sums
    PROVE  SplitRecord(f, t, s, n, sum) \in Records(f, h)
<1> DEFINE q == <<t, s, n>>
<1>1. q \in Origins(f, h)
  BY DEF Origins, Origin
<1>2. q[1] = t /\ q[2] = s /\ q[3] = n
  OBVIOUS
<1> HIDE DEF q
<1>3. SplitRecord(f, t, s, n, sum) \in HeaderRecords(f, h)
  BY <1>1, <1>2 DEF HeaderRecords
<1> QED  BY <1>3 DEF Records

LEMMA DataIn ==
    ASSUME NEW f \in SplitFormats, NEW h, NEW body \in Bodies, NEW sum \in Sums \cup {"torn"}
    PROVE  DataRecord(body, sum) \in Records(f, h) /\ Junk \in Records(f, h)
<1>1. DataRecord(body, sum) \in DataRecords
  BY DEF DataRecords
<1> QED  BY <1>1 DEF Records

LEMMA WholeIn ==
    ASSUME NEW f \in WholeFormats, NEW h, NEW t, NEW s, NEW n, Origin(f, h, t, s, n),
           NEW sum \in HeaderSums(f), NEW body \in Bodies, NEW dsum \in DataSums(f),
           NEW when \in Nat
    PROVE  WholeOne(f, t, s, n, sum, body, dsum, when) \in Records(f, h)
<1> DEFINE q == <<t, s, n>>
<1>1. q \in Origins(f, h)
  BY DEF Origins, Origin
<1>2. q[1] = t /\ q[2] = s /\ q[3] = n
  OBVIOUS
<1> HIDE DEF q
<1>3. WholeOne(f, t, s, n, sum, body, dsum, when) \in WholeRecords(f, h)
  BY <1>1, <1>2 DEF WholeRecords
<1> QED  BY <1>3, FormatsApart DEF Records

LEMMA HomelyIs ==
    ASSUME NEW h \in Homely
    PROVE  h.t \in Nat /\ h.t \in 0 .. 127 /\ h.s \in Sides
BY DEF Homely, Tracks

LEMMA WrittenIn ==
    ASSUME NEW f \in AllFormats, NEW h \in Homely, NEW x \in Writable, NEW i \in Nat \ {0},
           x.t = h.t, x.s = h.s, x.n <= 31
    PROVE  Written(f, x, i) \in Seq(Records(f, h))
<1>1. Origin(f, h, x.t, x.s, x.n)
  BY DEF Origin, Homely, Writable
<1>2. CASE f \in SplitFormats
  <2>1. CASE Written(f, x, i) = << >>
    BY <2>1
  <2>2. CASE Written(f, x, i) # << >>
    <3>1. PICK body \in Bodies, sum \in Sums :
            Written(f, x, i)
            = << SplitRecord(f, x.t, x.s, x.n, "good"), DataRecord(body, sum) >>
      BY <1>2, <2>2, SplitWritten
    <3>2. SplitRecord(f, x.t, x.s, x.n, "good") \in Records(f, h)
      BY <1>1, <1>2, HeaderIn DEF Sums
    <3>3. DataRecord(body, sum) \in Records(f, h)
      BY <1>2, DataIn
    <3> QED  BY <3>1, <3>2, <3>3
  <2> QED  BY <2>1, <2>2
<1>3. CASE f \in WholeFormats
  <2>1. PICK dsum \in DataSums(f), when \in Nat :
          Written(f, x, i) = << WholeOne(f, x.t, x.s, x.n, "good", x.body, dsum, when) >>
    BY <1>3, WholeWritten
  <2>2. "good" \in HeaderSums(f) /\ x.body \in Bodies
    BY DEF HeaderSums, Sums, Writable
  <2>3. WholeOne(f, x.t, x.s, x.n, "good", x.body, dsum, when) \in Records(f, h)
    BY <1>1, <1>3, <2>2, WholeIn
  <2> QED  BY <2>1, <2>3
<1> QED  BY <1>2, <1>3 DEF AllFormats

LEMMA OnDiskIn ==
    ASSUME NEW f \in AllFormats, NEW h \in Homely, NEW st \in [1 .. MaxSectors -> Statuses]
    PROVE  OnDisk(f, Asked(h, st)) \in Seq(Records(f, h))
<1> DEFINE xs == Asked(h, st)
           ss == [i \in 1 .. MaxSectors |-> Written(f, xs[i], i)]
<1>1. MaxSectors \in Nat /\ MaxSectors <= 32
  BY DecodeAssumption
<1>2. DOMAIN xs = 1 .. MaxSectors
  BY DEF Asked
<1>3. ASSUME NEW i \in 1 .. MaxSectors
      PROVE  Written(f, xs[i], i) \in Seq(Records(f, h))
  <2> DEFINE body == IF st[i] = "MISSING" THEN NoBody ELSE i - 1
  <2>1. xs[i] = [t |-> h.t, s |-> h.s, n |-> i - 1, status |-> st[i], body |-> body]
    BY DEF Asked
  <2>2. body \in Bodies /\ i - 1 \in Nat /\ i - 1 <= 31 /\ i \in Nat \ {0}
    BY <1>1 DEF Bodies
  <2>3. /\ st[i] \in {"OK", "BAD_CHECKSUM", "MISSING"}
        /\ h.t \in Nat /\ h.s \in Sides
    <3>1. st[i] \in Statuses
      OBVIOUS
    <3>2. h.t \in Nat /\ h.s \in Sides
      BY HomelyIs
    <3>4. st[i] \in {"OK", "BAD_CHECKSUM", "MISSING"}
      BY <3>1 DEF Statuses
    <3> QED  BY <3>2, <3>4
  <2> HIDE DEF xs, body
  <2>4. xs[i] \in Writable
    BY <2>1, <2>2, <2>3 DEF Writable
  <2>5. xs[i].t = h.t /\ xs[i].s = h.s /\ xs[i].n = i - 1
    BY <2>1
  <2> QED  BY <2>2, <2>4, <2>5, WrittenIn
<1>4. OnDisk(f, xs) = FlattenSeq(ss)
  BY <1>2 DEF OnDisk
<1> HIDE DEF xs
<1>5. ss \in [1 .. MaxSectors -> Seq(Records(f, h))]
  BY <1>3
<1> HIDE DEF ss
<1>6. FlattenSeq(ss) \in Seq(Records(f, h))
  BY <1>1, <1>5, FlattenType
<1> QED  BY <1>4, <1>6 DEF xs

LEMMA StraysFrom ==
    ASSUME NEW f \in AllFormats, NEW q,
           IF f \in SplitFormats THEN q \in Strays \cup {<<Here.t, 0>>}
           ELSE q \in WholeStrays \cup {<<Here.t, 0>>}
    PROVE  Origin(f, Here, q[1], 0, q[2])
<1>1. Here.t \in 0 .. 127 /\ Here.s = 0
  BY DecodeAssumption
<1>2. CASE q = <<Here.t, 0>>
  BY <1>1, <1>2 DEF Origin, Tracks, Sides
<1>3. CASE q # <<Here.t, 0>> /\ f \in SplitFormats
  <2>1. q \in Strays /\ q[1] \in 0 .. 127 /\ q[2] \in Nat
    BY <1>3, DecodeAssumption
  <2>2. q[1] % 64 = Here.t % 64 => q[1] = Here.t
    BY <2>1, DecodeAssumption
  <2>3. f # "zilogmcz"
    BY <1>3 DEF SplitFormats
  <2> QED  BY <1>1, <2>1, <2>2, <2>3 DEF Origin, Tracks, Sides
<1>4. CASE q # <<Here.t, 0>> /\ f \notin SplitFormats
  <2>1. q \in WholeStrays /\ q[1] \in 0 .. 127 /\ q[2] \in 0 .. 31
    BY <1>4, DecodeAssumption
  <2>2. f # "macintosh"
    BY <1>4 DEF SplitFormats
  <2> QED  BY <1>1, <2>1, <2>2 DEF Origin, Tracks, Sides
<1> QED  BY <1>2, <1>3, <1>4

LEMMA MaterialIn ==
    ASSUME NEW f \in AllFormats
    PROVE  Material(f) \subseteq Records(f, Here)
<1> SUFFICES ASSUME NEW r \in Material(f) PROVE r \in Records(f, Here)
  OBVIOUS
<1>1. CASE f \in SplitFormats
  <2>1. ASSUME NEW q \in Strays \cup {<<Here.t, 0>>}
        PROVE  /\ Proper(f, q[1], 0, q[2])[1] \in Records(f, Here)
               /\ [Proper(f, q[1], 0, q[2])[1] EXCEPT !.hsum = "bad"] \in Records(f, Here)
    <3> DEFINE p == Proper(f, q[1], 0, q[2])[1]
    <3>1. Origin(f, Here, q[1], 0, q[2])
      BY <1>1, <2>1, StraysFrom
    <3>2. q[1] \in Nat /\ q[2] \in Nat /\ 0 \in Sides
      BY <3>1 DEF Origin, Tracks, Sides
    <3>3. Proper(f, q[1], 0, q[2])[1] = SplitRecord(f, q[1], 0, q[2], "good")
      BY <1>1, <3>2, ProperHeader
    <3>4. [p EXCEPT !.hsum = "bad"] = SplitRecord(f, q[1], 0, q[2], "bad")
      BY <3>3 DEF SplitRecord, HeaderRecord
    <3> HIDE DEF p
    <3>5. p \in Records(f, Here) /\ [p EXCEPT !.hsum = "bad"] \in Records(f, Here)
      BY <1>1, <3>1, <3>3, <3>4, HeaderIn DEF Sums, p
    <3> QED  BY <3>5 DEF p
  <2>2. r \in SplitMaterial(f)
    BY <1>1 DEF Material
  <2>3. CASE r \in Damaged(f, Proper(f, Here.t, 0, 0)[1])
    <3> DEFINE q == <<Here.t, 0>>
    <3>1. q \in Strays \cup {<<Here.t, 0>>} /\ q[1] = Here.t /\ q[2] = 0
      OBVIOUS
    <3> HIDE DEF q
    <3>2. r = Proper(f, q[1], 0, q[2])[1]
          \/ r = [Proper(f, q[1], 0, q[2])[1] EXCEPT !.hsum = "bad"]
      BY <2>3, <3>1 DEF Damaged
    <3> QED  BY <2>1, <3>1, <3>2
  <2>4. CASE r \in {Proper(f, q[1], 0, q[2])[1] : q \in Strays}
    BY <2>1, <2>4
  <2>5. CASE \E body \in Bodies, sum \in Sums \cup {"torn"} : r = DataRecord(body, sum)
    BY <1>1, <2>5, DataIn
  <2>6. CASE r = Junk
    <3>1. 0 \in Bodies /\ "good" \in Sums \cup {"torn"}
      BY DEF Bodies, Sums
    <3> QED  BY <1>1, <2>6, <3>1, DataIn
  <2>7. r \in {DataRecord(n, "good") : n \in 0 .. 1} \cup {DataRecord(1, "bad"), DataRecord(0, "torn")}
        => \E body \in Bodies, sum \in Sums \cup {"torn"} : r = DataRecord(body, sum)
    <3>1. /\ 0 .. 1 \subseteq Bodies /\ 0 \in 0 .. 1 /\ 1 \in 0 .. 1
          /\ {"good", "bad", "torn"} = Sums \cup {"torn"}
      BY DEF Bodies, Sums
    <3> QED  BY <3>1
  <2> QED  BY <2>2, <2>3, <2>4, <2>5, <2>6, <2>7 DEF SplitMaterial
<1>2. CASE f \in WholeFormats
  <2>1. f \notin SplitFormats
    BY <1>2, FormatsApart
  <2>9. PICK q \in WholeStrays \cup {<<Here.t, 0>>} :
          r \in {FoundWith(p, d, a) :
                    p \in Damaged(f, Proper(f, q[1], 0, q[2])[1]),
                    d \in BodySums(f), a \in Times(f, q[2])}
    BY <2>1 DEF Material, WholeMaterial
  <2>2. PICK p \in Damaged(f, Proper(f, q[1], 0, q[2])[1]),
             d \in BodySums(f), a \in Times(f, q[2]) :
          r = FoundWith(p, d, a)
    BY <2>9
  <2>3. Origin(f, Here, q[1], 0, q[2])
    BY <2>1, StraysFrom
  <2>4. q[1] \in Nat /\ q[2] \in Nat /\ 0 \in Sides /\ q[2] \in Bodies
    BY <2>3 DEF Origin, Tracks, Sides, Bodies
  <2>5. PICK dsum \in DataSums(f), when \in Nat :
          Proper(f, q[1], 0, q[2])[1] = WholeOne(f, q[1], 0, q[2], "good", q[2], dsum, when)
    BY <1>2, <2>4, ProperHeader
  <2>6. PICK sum \in HeaderSums(f) : p = WholeOne(f, q[1], 0, q[2], sum, q[2], dsum, when)
    <3>1. CASE p = Proper(f, q[1], 0, q[2])[1]
      BY <2>5, <3>1 DEF HeaderSums, Sums
    <3>2. CASE p # Proper(f, q[1], 0, q[2])[1]
      <4>1. f \notin {"mx", "northstar", "zilogmcz"}
            /\ p = [Proper(f, q[1], 0, q[2])[1] EXCEPT !.hsum = "bad"]
        BY <3>2 DEF Damaged
      <4>2. p = WholeOne(f, q[1], 0, q[2], "bad", q[2], dsum, when)
        BY <2>5, <4>1 DEF WholeOne, WholeRecord
      <4> QED  BY <4>1, <4>2 DEF HeaderSums, Sums
    <3> QED  BY <3>1, <3>2
  <2>7. r = WholeOne(f, q[1], 0, q[2], sum, q[2], d, a)
    BY <2>2, <2>6 DEF WholeOne, WholeRecord, FoundWith
  <2>8. d \in DataSums(f) /\ a \in Nat
    BY <2>4 DEF BodySums, DataSums, Sums, Times
  <2> QED  BY <1>2, <2>3, <2>4, <2>7, <2>8, WholeIn
<1> QED  BY <1>1, <1>2 DEF AllFormats
-----------------------------------------------------------------------------
(* The invariant.                                                            *)

\* The track, and what is on it.
Placed ==
    /\ fmt \in Formats
    /\ home \in [t : LaidOut, s : Sides]
    /\ disk \in Seq(Records(fmt, home))

\* A sector on its way to its data has its header behind it, and no data since.
Searching ==
    pc = "data" =>
        /\ fmt \in SplitFormats
        /\ \E i \in 1 .. at - 1 :
             /\ Names(i, sector.t, sector.s, sector.n)
             /\ \A m \in i .. at - 1 : ~ (IsData(m) /\ disk[m].dsum # "torn")

\* A sector that is OK is on the disk.
SoundSector(x) ==
    x.status = "OK" =>
        \E i, j \in DOMAIN disk :
            /\ i <= j
            /\ fmt \notin Nameless => Names(i, x.t, x.s, x.n)
            /\ IsData(j) /\ SumRight(j) /\ disk[j].body = x.body
            /\ fmt \in WholeFormats => i = j
            /\ \A m \in i .. j - 1 : ~ (IsData(m) /\ disk[m].dsum # "torn")

AllSound == \A k \in DOMAIN sectors : SoundSector(sectors[k])

\* Micropolis: those that are OK are right by the checksum that is remembered.
SummedBy(x) ==
    fmt = "micropolis" /\ x.status = "OK" =>
        /\ mem.sums # "AUTO"
        /\ \E i \in DOMAIN disk : disk[i].body = x.body /\ mem.sums \in disk[i].dsum

AllSummed == \A k \in DOMAIN sectors : SummedBy(sectors[k])

\* What was given out is a list of sectors.
Given == sectors \in Seq(Sector)

IInv == Placed /\ Given /\ TypeOK /\ Searching /\ AllSound /\ AllSummed

LEMMA InvariantSuffices == IInv => NothingMadeUp
<1> SUFFICES ASSUME IInv PROVE OkIsSound
  BY DEF IInv, NothingMadeUp
<1>1. \A k \in DOMAIN sectors : SoundSector(sectors[k])
  BY DEF IInv, AllSound
<1>2. ASSUME fmt = "micropolis"
      PROVE  \E sum \in {"MICROPOLIS", "MZOS"} :
               \A k \in DOMAIN sectors :
                 sectors[k].status = "OK" =>
                   \E i \in DOMAIN disk : disk[i].body = sectors[k].body /\ sum \in disk[i].dsum
  <2>1. \A k \in DOMAIN sectors : SummedBy(sectors[k])
    BY DEF IInv, AllSummed
  <2>2. CASE mem.sums = "AUTO"
    BY <1>2, <2>1, <2>2 DEF SummedBy
  <2>3. CASE mem.sums \in {"MICROPOLIS", "MZOS"}
    BY <1>2, <2>1, <2>3 DEF SummedBy
  <2> QED  BY <2>2, <2>3 DEF IInv, TypeOK
<1> QED  BY <1>1, <1>2 DEF OkIsSound, SoundSector

LEMMA PlacedIs ==
    ASSUME Placed
    PROVE  /\ fmt \in AllFormats /\ home \in Homely /\ home.t \in LaidOut
           /\ NewSector(home) \in Sector /\ NewSector(home).status = "MISSING"
           /\ Len(disk) \in Nat /\ DOMAIN disk = 1 .. Len(disk)
           /\ \A i \in DOMAIN disk : disk[i] \in Records(fmt, home)
<1>1. fmt \in AllFormats
  BY FormatsApart DEF Placed
<1>2. home \in Homely /\ home.t \in LaidOut
  BY DecodeAssumption DEF Placed, Homely, Tracks
<1>3. NewSector(home) \in Sector /\ NewSector(home).status = "MISSING"
  <2>1. home.t \in Nat /\ home.s \in 0 .. 1
    BY <1>2, HomelyIs DEF Sides
  <2> QED  BY <2>1 DEF NewSector, Sector
<1>4. /\ Len(disk) \in Nat /\ DOMAIN disk = 1 .. Len(disk)
      /\ \A i \in DOMAIN disk : disk[i] \in Records(fmt, home)
  BY DEF Placed
<1> QED  BY <1>1, <1>2, <1>3, <1>4

\* The records of the formats with separate ones.
LEMMA SplitKinds ==
    ASSUME NEW f \in SplitFormats, NEW h, NEW r \in Records(f, h)
    PROVE  \/ /\ r.kind = "head"
              /\ \E t, s, n : \E sum \in Sums :
                   Origin(f, h, t, s, n) /\ r = SplitRecord(f, t, s, n, sum)
           \/ r.kind = "data" /\ r.body \in Bodies
           \/ r.kind = "junk"
<1>1. CASE r \in HeaderRecords(f, h)
  <2>1. PICK q \in Origins(f, h), sum \in Sums : r = SplitRecord(f, q[1], q[2], q[3], sum)
    BY <1>1 DEF HeaderRecords
  <2>2. Origin(f, h, q[1], q[2], q[3])
    BY DEF Origins
  <2>3. r.kind = "head"
    BY <2>1 DEF SplitRecord, HeaderRecord
  <2> QED  BY <2>1, <2>2, <2>3
<1>2. CASE r \in DataRecords
  BY <1>2 DEF DataRecords, DataRecord
<1>3. CASE r = Junk
  BY <1>3 DEF Junk
<1> QED  BY <1>1, <1>2, <1>3 DEF Records

LEMMA WholeKinds ==
    ASSUME NEW f \in WholeFormats, NEW h, NEW r \in Records(f, h)
    PROVE  \E t, s, n : \E sum \in Sums, body \in Bodies, dsum \in DataSums(f), when \in Nat :
             /\ Origin(f, h, t, s, n)
             /\ sum = "good" \/ f \notin {"mx", "northstar", "zilogmcz"}
             /\ r = WholeOne(f, t, s, n, sum, body, dsum, when)
             /\ r.kind = "whole" /\ r.body = body /\ r.dsum = dsum
<1>1. r \in WholeRecords(f, h)
  BY FormatsApart DEF Records
<1>2. PICK q \in Origins(f, h), sum \in HeaderSums(f), body \in Bodies,
           dsum \in DataSums(f), when \in Nat :
        r = WholeOne(f, q[1], q[2], q[3], sum, body, dsum, when)
  BY <1>1 DEF WholeRecords
<1>3. Origin(f, h, q[1], q[2], q[3])
  BY DEF Origins
<1>4. sum \in Sums /\ (sum = "good" \/ f \notin {"mx", "northstar", "zilogmcz"})
  BY DEF HeaderSums, Sums
<1>5. r.kind = "whole" /\ r.body = body /\ r.dsum = dsum
  BY <1>2 DEF WholeOne, WholeRecord
<1> QED  BY <1>2, <1>3, <1>4, <1>5

\* What ReadHeader makes of a record.
Made(r) ==
    IF fmt \in SplitFormats THEN DecodeSectorRecord(fmt, NewSector(home), r, home)
    ELSE DecodeWholeRecord(fmt, NewSector(home), r, mem, home)

LEMMA MadeOf ==
    ASSUME Placed, mem.count \in Nat, at \in DOMAIN disk
    PROVE  LET r == disk[at]
               sec == Made(r)
           IN  \/ sec = NewSector(home)
               \/ /\ fmt \in SplitFormats
                  /\ r.kind = "head"
                  /\ sec \in Sector /\ sec.status = "DATA_MISSING"
                  /\ Names(at, sec.t, sec.s, sec.n)
               \/ /\ fmt \in WholeFormats
                  /\ r.kind = "whole"
                  /\ sec \in Sector /\ sec.status \in {"OK", "BAD_CHECKSUM"}
                  /\ sec.body = r.body
                  /\ fmt \notin Nameless => Names(at, sec.t, sec.s, sec.n)
                  /\ sec.status = "OK" =>
                       IF fmt = "micropolis" THEN MicropolisUses(mem, r) \in r.dsum
                       ELSE r.dsum = "good"
<1> DEFINE r == disk[at]
           sec == Made(r)
<1>1. fmt \in AllFormats /\ home \in Homely /\ r \in Records(fmt, home)
  BY PlacedIs
<1>2. \A t, s, n : r.kind \in {"head", "whole"} /\ IsHeaderOf(fmt, r, t, s, n) => Names(at, t, s, n)
  BY DEF Names, IsHeader
<1> HIDE DEF r
<1>3. CASE fmt \in SplitFormats
  <2>1. CASE r.kind # "head"
    BY <1>3, <2>1 DEF Made, DecodeSectorRecord, r
  <2>2. CASE r.kind = "head"
    <3>1. PICK t, s, n, sum :
            Origin(fmt, home, t, s, n) /\ r = SplitRecord(fmt, t, s, n, sum)
      BY <1>1, <1>3, <2>2, SplitKinds
    <3>2. \/ sec = NewSector(home)
          \/ /\ sec \in Sector /\ sec.status = "DATA_MISSING"
             /\ IsHeaderOf(fmt, r, sec.t, sec.s, sec.n)
      BY <1>1, <1>3, <3>1, SplitFinds DEF Made
    <3> HIDE DEF sec
    <3> QED  BY <1>2, <1>3, <2>2, <3>2 DEF sec, r
  <2> QED  BY <2>1, <2>2
<1>4. CASE fmt \in WholeFormats
  <2>1. PICK t, s, n : \E sum \in Sums, body \in Bodies, dsum \in DataSums(fmt), when \in Nat :
             /\ Origin(fmt, home, t, s, n)
             /\ sum = "good" \/ fmt \notin {"mx", "northstar", "zilogmcz"}
             /\ r = WholeOne(fmt, t, s, n, sum, body, dsum, when)
             /\ r.kind = "whole" /\ r.body = body /\ r.dsum = dsum
    BY <1>1, <1>4, WholeKinds
  <2>2. PICK sum \in Sums, body \in Bodies, dsum \in DataSums(fmt), when \in Nat :
             /\ Origin(fmt, home, t, s, n)
             /\ sum = "good" \/ fmt \notin {"mx", "northstar", "zilogmcz"}
             /\ r = WholeOne(fmt, t, s, n, sum, body, dsum, when)
             /\ r.kind = "whole" /\ r.body = body /\ r.dsum = dsum
    BY <2>1
  <2>3. sec = DecodeWholeRecord(fmt, NewSector(home), r, mem, home)
    BY <1>4, FormatsApart DEF Made
  <2> HIDE DEF sec
  <2>4. \/ sec = NewSector(home)
        \/ /\ sec \in Sector
           /\ sec.status \in {"OK", "BAD_CHECKSUM"}
           /\ sec.body = body
           /\ fmt \notin Nameless => IsHeaderOf(fmt, r, sec.t, sec.s, sec.n)
           /\ sec.status = "OK" =>
                IF fmt = "micropolis" THEN MicropolisUses(mem, r) \in dsum
                ELSE dsum = "good"
    BY <1>1, <1>4, <2>2, <2>3, WholeFinds
  <2> QED  BY <1>2, <1>4, <2>2, <2>4 DEF sec, r
<1> QED  BY <1>1, <1>3, <1>4 DEF AllFormats

LEMMA MicropolisRemembers ==
    ASSUME NEW r, fmt = "micropolis", mem.sums \in {"AUTO", "MICROPOLIS", "MZOS"},
           Made(r).status = "OK" => MicropolisUses(mem, r) \in r.dsum,
           NewSector(home).status = "MISSING"
    PROVE  /\ mem.sums # "AUTO" => Remembers(r).sums = mem.sums
           /\ Remembers(r).sums \in {"AUTO", "MICROPOLIS", "MZOS"}
           /\ Made(r).status = "OK" =>
                Remembers(r).sums # "AUTO" /\ Remembers(r).sums \in r.dsum
<1>1. Remembers(r).sums = IF MicropolisTaken(r, home) THEN MicropolisSums(mem, r) ELSE mem.sums
  BY DEF Remembers
<1>2. mem.sums # "AUTO" => MicropolisSums(mem, r) = mem.sums
  BY DEF MicropolisSums
<1>3. MicropolisSums(mem, r) \in {"AUTO", "MICROPOLIS", "MZOS"}
  BY DEF MicropolisSums
<1>4. ASSUME Made(r).status = "OK"
      PROVE  Remembers(r).sums # "AUTO" /\ Remembers(r).sums \in r.dsum
  <2>1. Made(r) = MicropolisSector(NewSector(home), r, mem, home)
    BY DEF Made, SplitFormats, DecodeWholeRecord
  <2>2. MicropolisTaken(r, home)
    BY <1>4, <2>1 DEF MicropolisSector
  <2>3. MicropolisUses(mem, r) \in r.dsum
    BY <1>4
  <2>4. MicropolisSums(mem, r) = MicropolisUses(mem, r)
        /\ MicropolisUses(mem, r) \in {"MICROPOLIS", "MZOS"}
    BY <2>3 DEF MicropolisSums, MicropolisUses
  <2> QED  BY <1>1, <2>2, <2>3, <2>4
<1> QED  BY <1>1, <1>2, <1>3, <1>4
-----------------------------------------------------------------------------
(* A header is taken for the sector it is the header of, and for no other.   *)

Sought == (0 .. 1) \ IgnoreSectors

\* The decoder of a header takes r for sector m of the track h just if it is.
LEMMA SplitExactly ==
    ASSUME NEW f \in SplitFormats, NEW h \in Homely, NEW t, NEW s, NEW n, Origin(f, h, t, s, n),
           NEW sum \in Sums, NEW m \in Sought, h.t <= LastTrack(f)
    PROVE  LET r == SplitRecord(f, t, s, n, sum)
               x == DecodeSectorRecord(f, NewSector(h), r, h)
           IN  x.status = "DATA_MISSING" /\ x.t = h.t /\ x.n = m <=> IsHeaderOf(f, r, h.t, h.s, m)
<1> DEFINE r == SplitRecord(f, t, s, n, sum)
           new == NewSector(h)
           x == DecodeSectorRecord(f, new, r, h)
           good == sum = "good"
<1>1. /\ r.kind = "head" /\ r.sector = n /\ r.hsum = sum
      /\ r.track = TrackByte(f, t, s) /\ r.side = SideByte(f, t, s)
  BY DEF SplitRecord, HeaderRecord
<1>2. /\ t \in 0 .. 127 /\ s \in 0 .. 1 /\ s = h.s /\ n \in Nat
      /\ h.t \in 0 .. 127 /\ h.t \in Nat /\ h.s \in Sides
      /\ m \in 0 .. 1 /\ m \in Nat /\ m \notin IgnoreSectors
  BY HomelyIs DEF Origin, Tracks, Sides, Sought
<1>3. IsHeaderOf(f, r, h.t, h.s, m)
      <=> /\ n = m
          /\ TrackByte(f, t, s) = TrackByte(f, h.t, s) \/ (f = "ibm" /\ IgnoreTrack)
          /\ SideByte(f, t, s) = SideByte(f, h.t, s) \/ (f = "ibm" /\ IgnoreSide)
          /\ good \/ f = "brother"
  <2>1. SectorByte(f, h.t, m) = m /\ f \in AllFormats
    BY DEF SectorByte, SplitFormats, AllFormats
  <2> QED  BY <1>1, <1>2, <2>1, HeaderBytes
<1> HIDE DEF r
<1>4. new = [t |-> h.t, s |-> h.s, n |-> 0, body |-> NoBody, status |-> "MISSING"]
  BY DEF NewSector
<1> HIDE DEF new
<1>5. ASSUME NEW tt, NEW ss, NEW accepted, x = Found(new, tt, ss, n, accepted)
      PROVE  x.status = "DATA_MISSING" /\ x.t = h.t /\ x.n = m <=> accepted /\ tt = h.t /\ n = m
  <2> HIDE DEF x
  <2>1. CASE accepted
    <3>1. x = [t |-> tt, s |-> ss, n |-> n, body |-> NoBody, status |-> "DATA_MISSING"]
      BY <1>4, <1>5, <2>1 DEF Found
    <3>2. x.status = "DATA_MISSING" /\ x.t = tt /\ x.n = n
      BY <3>1
    <3> QED  BY <2>1, <3>2
  <2>2. CASE ~ accepted
    <3>1. x.status = "MISSING"
      BY <1>4, <1>5, <2>2 DEF Found
    <3> QED  BY <2>2, <3>1
  <2> QED  BY <2>1, <2>2
<1> DEFINE Is(tt, accepted) == accepted /\ tt = h.t /\ n = m <=> IsHeaderOf(f, r, h.t, h.s, m)
           By(tt, ss, accepted) == x = Found(new, tt, ss, n, accepted) /\ Is(tt, accepted)
<1>6. \E tt, ss, accepted : By(tt, ss, accepted)
  <2> USE DEF TrackByte, SideByte, DecodeSectorRecord
  <2>1. CASE f = "agat"
    <3>1. (t * 2 + s) \div 2 = t /\ (t * 2 + s) % 2 = s
      BY <1>2
    <3>2. x = Found(new, t, s, n, good)
      BY <1>1, <1>2, <2>1, <3>1 DEF AgatHeader
    <3>3. Is(t, good)
      BY <1>2, <1>3, <2>1
    <3> HIDE DEF Is, good, x
    <3> QED  BY <3>2, <3>3
  <2>2. CASE f = "apple2"
    <3>1. x = Found(new, t, new.s, n, good)
      BY <1>1, <1>2, <2>2 DEF Apple2Header
    <3>2. Is(t, good)
      BY <1>2, <1>3, <2>2
    <3> HIDE DEF Is, good, x
    <3> QED  BY <3>1, <3>2
  <2>3. CASE f = "brother"
    <3> DEFINE taken == n <= 11 /\ t <= 79
    <3>1. x = Found(new, t, new.s, n, taken)
      BY <1>1, <1>2, <2>3 DEF BrotherHeader
    <3>2. Is(t, taken)
      BY <1>2, <1>3, <2>3 DEF LastTrack
    <3> HIDE DEF Is, taken, x
    <3> QED  BY <3>1, <3>2
  <2>4. CASE f = "c64"
    <3>1. x = Found(new, t, 0, n, good)
      <4>1. (t + 1) - 1 = t
        BY <1>2
      <4> QED  BY <1>1, <1>2, <2>4, <4>1 DEF C64Header
    <3>2. Is(t, good)
      BY <1>2, <1>3, <2>4
    <3> HIDE DEF Is, good, x
    <3> QED  BY <3>1, <3>2
  <2>5. CASE f = "f85"
    <3>1. x = Found(new, t, 0, n, good)
      BY <1>1, <1>2, <2>5 DEF F85Header
    <3>2. Is(t, good)
      BY <1>2, <1>3, <2>5
    <3> HIDE DEF Is, good, x
    <3> QED  BY <3>1, <3>2
  <2>6. CASE f = "ibm"
    <3> DEFINE tt == IF IgnoreTrack THEN h.t ELSE t
               ss == Xor1(IF IgnoreSide THEN h.s ELSE r.side, InvertSide)
               taken == good /\ n \notin IgnoreSectors
    <3>1. x = Found(new, tt, ss, n, taken)
      BY <1>1, <1>2, <2>6 DEF IbmHeader
    <3>2. Is(tt, taken)
      BY <1>2, <1>3, <2>6
    <3> HIDE DEF Is, taken, tt, ss, x
    <3> QED  BY <3>1, <3>2
  <2>7. CASE f = "macintosh"
    <3> DEFINE taken == t % 64 = h.t % 64 /\ n <= 11 /\ good
               ss == (r.side \div 32) % 2
    <3>1. x = Found(new, h.t, ss, n, taken)
      BY <1>1, <1>2, <2>7 DEF MacintoshHeader
    <3>2. t % 64 = h.t % 64 => t = h.t
      BY <2>7 DEF Origin
    <3>3. Is(h.t, taken)
      BY <1>2, <1>3, <2>7, <3>2
    <3> HIDE DEF Is, taken, ss, x
    <3> QED  BY <3>1, <3>3
  <2>8. CASE f = "tids990"
    <3>1. x = Found(new, t, r.side \div 8, n, good)
      BY <1>1, <1>2, <2>8 DEF Tids990Header
    <3>2. Is(t, good)
      BY <1>2, <1>3, <2>8
    <3> HIDE DEF Is, good, x
    <3> QED  BY <3>1, <3>2
  <2>9. CASE f = "victor9k"
    <3> DEFINE taken == n <= 20 /\ t <= 85 /\ good
    <3>1. r.track % 128 = t /\ r.track \div 128 = s
      BY <1>1, <1>2, <2>9
    <3>2. x = Found(new, t, s, n, taken)
      BY <1>1, <1>2, <2>9, <3>1 DEF Victor9kHeader
    <3>3. Is(t, taken)
      BY <1>2, <1>3, <2>9 DEF LastTrack
    <3> HIDE DEF Is, taken, x
    <3> QED  BY <3>2, <3>3
  <2> QED  BY <2>1, <2>2, <2>3, <2>4, <2>5, <2>6, <2>7, <2>8, <2>9 DEF SplitFormats
<1> HIDE DEF x
<1>7. PICK tt, ss, accepted : By(tt, ss, accepted)
  BY <1>6
<1>8. x.status = "DATA_MISSING" /\ x.t = h.t /\ x.n = m <=> accepted /\ tt = h.t /\ n = m
  BY <1>5, <1>7
<1> QED  BY <1>7, <1>8 DEF x, r, new

LEMMA HalfAndRest ==
    ASSUME NEW v \in Nat, NEW w \in Nat, NEW m \in 0 .. 1
    PROVE  v \div 2 = w /\ v % 2 = m <=> v = 2 * w + m
<1>1. v = 2 * (v \div 2) + (v % 2) /\ v \div 2 \in Nat /\ v % 2 \in 0 .. 1
  OBVIOUS
<1> DEFINE a == v \div 2
           b == v % 2
<1> HIDE DEF a, b
<1>2. v = 2 * a + b /\ a \in Nat /\ b \in 0 .. 1
  BY <1>1 DEF a, b
<1>3. a = w /\ b = m <=> v = 2 * w + m
  BY <1>2
<1> QED  BY <1>3 DEF a, b

LEMMA WholeExactly ==
    ASSUME NEW f \in WholeFormats \ Nameless, NEW h \in Homely,
           NEW t, NEW s, NEW n, Origin(f, h, t, s, n),
           NEW sum \in Sums, sum = "good" \/ f \notin {"mx", "northstar", "zilogmcz"},
           NEW body, NEW dsum, NEW when, NEW mm, NEW m \in Sought, h.t <= LastTrack(f)
    PROVE  LET r == WholeOne(f, t, s, n, sum, body, dsum, when)
               x == DecodeWholeRecord(f, NewSector(h), r, mm, h)
           IN  x # NewSector(h) /\ x.t = h.t /\ x.n = m <=> IsHeaderOf(f, r, h.t, h.s, m)
<1> DEFINE r == WholeOne(f, t, s, n, sum, body, dsum, when)
           new == NewSector(h)
           x == DecodeWholeRecord(f, new, r, mm, h)
           good == sum = "good"
<1>1. /\ r.kind = "whole" /\ r.hsum = sum /\ r.body = body /\ r.dsum = dsum
      /\ r.track = TrackByte(f, t, s) /\ r.side = SideByte(f, t, s)
      /\ r.sector = SectorByte(f, t, n)
  BY DEF WholeOne, WholeRecord
<1>2. /\ t \in 0 .. 127 /\ s \in 0 .. 1 /\ s = h.s /\ n \in Nat
      /\ h.t \in 0 .. 127 /\ h.t \in Nat /\ h.s \in Sides
      /\ m \in 0 .. 1 /\ m \in Nat
  BY HomelyIs DEF Origin, Tracks, Sides, Sought
<1>3. IsHeaderOf(f, r, h.t, h.s, m)
      <=> /\ SectorByte(f, t, n) = SectorByte(f, h.t, m)
          /\ TrackByte(f, t, s) = TrackByte(f, h.t, s)
          /\ SideByte(f, t, s) = SideByte(f, h.t, s)
          /\ good
  <2>1. f \in AllFormats /\ f \notin SplitFormats /\ f \notin {"ibm", "brother"}
    BY DEF SplitFormats, WholeFormats, AllFormats
  <2> QED  BY <1>1, <1>2, <2>1, HeaderBytes
<1> HIDE DEF r
<1>4. new = [t |-> h.t, s |-> h.s, n |-> 0, body |-> NoBody, status |-> "MISSING"]
  BY DEF NewSector
<1> HIDE DEF new
<1> DEFINE Made1(tt, ss, nn, st, accepted) ==
             x = IF accepted THEN Full(new, tt, ss, nn, r, st) ELSE new
<1>5. ASSUME NEW tt, NEW ss, NEW nn, NEW st \in {"OK", "BAD_CHECKSUM"}, NEW accepted,
             Made1(tt, ss, nn, st, accepted)
      PROVE  x # new /\ x.t = h.t /\ x.n = m <=> accepted /\ tt = h.t /\ nn = m
  <2> HIDE DEF x
  <2>1. CASE accepted
    <3>1. x = [t |-> tt, s |-> ss, n |-> nn, body |-> body, status |-> st]
      BY <1>1, <1>4, <1>5, <2>1 DEF Full
    <3>2. x.t = tt /\ x.n = nn /\ x.status # "MISSING" /\ new.status = "MISSING"
      BY <1>4, <3>1
    <3> QED  BY <2>1, <3>2
  <2>2. CASE ~ accepted
    BY <1>5, <2>2
  <2> QED  BY <2>1, <2>2
<1> DEFINE st == Checked(dsum)
           Is(tt, nn, accepted) == accepted /\ tt = h.t /\ nn = m <=> IsHeaderOf(f, r, h.t, h.s, m)
           By(tt, ss, nn, to, accepted) ==
             /\ to \in {"OK", "BAD_CHECKSUM"}
             /\ Made1(tt, ss, nn, to, accepted) /\ Is(tt, nn, accepted)
<1>6. \E tt, ss, nn, to, accepted : By(tt, ss, nn, to, accepted)
  <2> USE DEF TrackByte, SideByte, SectorByte, DecodeWholeRecord
  <2>1. st \in {"OK", "BAD_CHECKSUM"}
    BY DEF Checked
  <2>2. CASE f = "aeslanier"
    <3>1. Made1(t, 0, n, st, good)
      BY <1>1, <1>2, <2>2 DEF AesLanierSector
    <3>2. Is(t, n, good)
      BY <1>2, <1>3, <2>2
    <3> HIDE DEF Is, Made1, good, st
    <3> QED  BY <2>1, <3>1, <3>2
  <2>3. CASE f = "amiga"
    <3>1. (t * 2 + s) \div 2 = t /\ (t * 2 + s) % 2 = s
      BY <1>2
    <3>2. Made1(t, s, n, st, good)
      BY <1>1, <1>2, <2>3, <3>1 DEF AmigaSector
    <3>3. Is(t, n, good)
      BY <1>2, <1>3, <2>3
    <3> HIDE DEF Is, Made1, good, st
    <3> QED  BY <2>1, <3>2, <3>3
  <2>4. CASE f = "fb100"
    <3> DEFINE tt == (2 * t + n) \div 2
               nn == (2 * t + n) % 2
    <3>1. Made1(tt, 0, nn, st, good)
      BY <1>1, <1>2, <2>4 DEF Fb100Sector
    <3>2. Is(tt, nn, good)
      <4>1. 2 * t + n \in Nat
        BY <1>2
      <4>2. tt = h.t /\ nn = m <=> 2 * t + n = 2 * h.t + m
        <5> HIDE DEF tt, nn
        <5> QED  BY <1>2, <4>1, HalfAndRest DEF tt, nn
      <4> HIDE DEF tt, nn
      <4> QED  BY <1>3, <2>4, <4>2
    <3> HIDE DEF Is, Made1, good, st, tt, nn
    <3> QED  BY <2>1, <3>1, <3>2
  <2>5. CASE f = "micropolis"
    <3> DEFINE taken == MicropolisTaken(r, h)
               to == IF MicropolisUses(mm, r) \in r.dsum THEN "OK" ELSE "BAD_CHECKSUM"
    <3>1. Made1(t, h.s, n, to, taken)
      BY <1>1, <1>2, <2>5 DEF MicropolisSector
    <3>2. taken <=> good /\ n <= 15 /\ t <= 76 /\ t = h.t
      BY <1>1, <1>2, <2>5 DEF MicropolisTaken
    <3>3. Is(t, n, taken)
      <4> HIDE DEF taken
      <4> QED  BY <1>2, <1>3, <2>5, <3>2 DEF LastTrack
    <3>4. to \in {"OK", "BAD_CHECKSUM"}
      OBVIOUS
    <3> HIDE DEF Is, Made1, taken, to
    <3> QED  BY <3>1, <3>3, <3>4
  <2>6. CASE f = "zilogmcz"
    <3> DEFINE taken == t <= 80
    <3>1. t % 128 = t /\ n % 32 = n
      BY <1>2, <2>6 DEF Origin
    <3>2. Made1(t, 0, n, st, taken)
      BY <1>1, <1>2, <2>6, <3>1 DEF ZilogSector
    <3>3. Is(t, n, taken)
      BY <1>2, <1>3, <2>6 DEF LastTrack
    <3> HIDE DEF Is, Made1, taken, st
    <3> QED  BY <2>1, <3>2, <3>3
  <2> QED  BY <2>2, <2>3, <2>4, <2>5, <2>6 DEF WholeFormats, Nameless
<1> HIDE DEF x, Made1
<1>7. PICK tt, ss, nn, to, accepted : By(tt, ss, nn, to, accepted)
  BY <1>6
<1>8. x # new /\ x.t = h.t /\ x.n = m <=> accepted /\ tt = h.t /\ nn = m
  BY <1>5, <1>7
<1> QED  BY <1>7, <1>8 DEF x, r, new

-----------------------------------------------------------------------------
(* The steps.                                                                *)

LEMMA Unmoved ==
    ASSUME UNCHANGED <<fmt, disk>>
    PROVE  /\ \A i, t, s, n : Names(i, t, s, n)' <=> Names(i, t, s, n)
           /\ \A i : IsData(i)' <=> IsData(i)
           /\ \A x : SoundSector(x)' <=> SoundSector(x)
<1>1. \A i, t, s, n : Names(i, t, s, n)' <=> Names(i, t, s, n)
  BY DEF Names, IsHeader
<1>2. \A i : IsData(i)' <=> IsData(i)
  BY DEF IsData
<1>3. \A i : SumRight(i)' <=> SumRight(i)
  BY DEF SumRight
<1>4. ASSUME NEW x PROVE SoundSector(x)' <=> SoundSector(x)
  BY <1>1, <1>2, <1>3 DEF SoundSector
<1> QED  BY <1>1, <1>2, <1>4

\* Giving a sector out.
LEMMA PushKeeps ==
    ASSUME IInv, NEW x \in Sector, x.status # "MISSING", Push(x), UNCHANGED <<fmt, disk>>,
           SoundSector(x), SummedBy(x)', \A y : SummedBy(y) => SummedBy(y)'
    PROVE  /\ Given' /\ AllSound' /\ AllSummed'
           /\ pc' \in {"header", "thrown"}
           /\ \A k \in DOMAIN sectors' : sectors'[k] \in Sector /\ sectors'[k].status # "MISSING"
<1>1. sectors \in Seq(Sector)
  BY DEF IInv, Given
<1>2. /\ sectors' \in Seq(Sector)
      /\ \A k \in DOMAIN sectors' : sectors'[k] = x \/ \E l \in DOMAIN sectors : sectors'[k] = sectors[l]
      /\ pc' \in {"header", "thrown"}
  <2>1. CASE x.t \in LaidOut
    BY <1>1, <2>1 DEF Push
  <2>2. CASE x.t \notin LaidOut
    BY <1>1, <2>2 DEF Push
  <2> QED  BY <2>1, <2>2
<1>3. \A l \in DOMAIN sectors :
        /\ sectors[l] \in Sector /\ sectors[l].status # "MISSING"
        /\ SoundSector(sectors[l]) /\ SummedBy(sectors[l])
  BY DEF IInv, TypeOK, AllSound, AllSummed
<1>4. \A y : SoundSector(y)' <=> SoundSector(y)
  BY Unmoved
<1>5. ASSUME NEW k \in DOMAIN sectors'
      PROVE  /\ sectors'[k] \in Sector /\ sectors'[k].status # "MISSING"
             /\ SoundSector(sectors[k])' /\ SummedBy(sectors[k])'
  <2>1. PICK y : y = sectors'[k]
    OBVIOUS
  <2>2. CASE y = x
    <3>1. SoundSector(y)' /\ SummedBy(y)'
      BY <1>4, <2>2
    <3> QED  BY <2>1, <2>2, <3>1
  <2>3. CASE \E l \in DOMAIN sectors : y = sectors[l]
    <3>1. y \in Sector /\ y.status # "MISSING" /\ SoundSector(y) /\ SummedBy(y)
      BY <1>3, <2>3
    <3>2. SoundSector(y)' /\ SummedBy(y)'
      BY <1>4, <3>1
    <3> QED  BY <2>1, <3>1, <3>2
  <2> QED  BY <1>2, <2>1, <2>2, <2>3
<1>6. AllSound' /\ AllSummed'
  BY <1>5 DEF AllSound, AllSummed
<1> QED  BY <1>2, <1>5, <1>6 DEF Given

\* Nothing is given out.
LEMMA KeptBack ==
    ASSUME IInv, UNCHANGED <<fmt, disk, sectors>>, \A y : SummedBy(y) => SummedBy(y)'
    PROVE  /\ Given' /\ AllSound' /\ AllSummed'
           /\ \A k \in DOMAIN sectors' : sectors'[k] \in Sector /\ sectors'[k].status # "MISSING"
<1>1. \A l \in DOMAIN sectors :
        /\ sectors[l] \in Sector /\ sectors[l].status # "MISSING"
        /\ SoundSector(sectors[l]) /\ SummedBy(sectors[l])
  BY DEF IInv, TypeOK, AllSound, AllSummed
<1>2. \A y : SoundSector(y)' <=> SoundSector(y)
  BY Unmoved
<1>3. ASSUME NEW k \in DOMAIN sectors'
      PROVE  SoundSector(sectors[k])' /\ SummedBy(sectors[k])'
  <2>1. PICK y : y = sectors[k]
    OBVIOUS
  <2>2. SoundSector(y)' /\ SummedBy(y)'
    BY <1>1, <1>2, <2>1
  <2>3. y = sectors'[k]
    BY <2>1
  <2> QED  BY <2>2, <2>3
<1>4. AllSound' /\ AllSummed'
  BY <1>3 DEF AllSound, AllSummed
<1> QED  BY <1>1, <1>4 DEF IInv, Given

\* What is remembered stays right for what was given out.
LEMMA StillSummed ==
    ASSUME UNCHANGED <<fmt, disk>>, NEW y, SummedBy(y),
           fmt = "micropolis" /\ mem.sums # "AUTO" => mem'.sums = mem.sums
    PROVE  SummedBy(y)'
BY DEF SummedBy

LEMMA InitHolds == Init => IInv
<1> SUFFICES ASSUME Init PROVE IInv
  OBVIOUS
<1>1. fmt \in Formats /\ fmt \in AllFormats
  BY FormatsApart DEF Init
<1>2. home \in [t : LaidOut, s : Sides] /\ disk \in Seq(Records(fmt, home))
  <2>1. CASE \E h \in Homes, st \in [1 .. MaxSectors -> Statuses] :
               home = h /\ asked = Asked(h, st) /\ disk = OnDisk(fmt, asked)
    <3>1. PICK h \in Homes, st \in [1 .. MaxSectors -> Statuses] :
               home = h /\ asked = Asked(h, st) /\ disk = OnDisk(fmt, asked)
      BY <2>1
    <3>2. h \in [t : LaidOut, s : Sides]
      BY DecodeAssumption DEF Sides
    <3>3. h \in Homely
      BY <3>2, DecodeAssumption DEF Homely, Tracks
    <3> QED  BY <1>1, <3>1, <3>2, <3>3, OnDiskIn
  <2>2. CASE home = Here /\ \E N \in {MaxRecords, MaxWhole} : disk \in BoundedSeq(Material(fmt), N)
    <3>1. Here \in [t : LaidOut, s : Sides]
      BY DecodeAssumption DEF Sides
    <3>2. PICK N \in Nat : disk \in BoundedSeq(Material(fmt), N)
      BY <2>2, DecodeAssumption
    <3>3. PICK m \in 0 .. N : disk \in [1 .. m -> Material(fmt)]
      BY <3>2 DEF BoundedSeq, SeqOf
    <3>4. Material(fmt) \subseteq Records(fmt, Here)
      BY <1>1, MaterialIn
    <3>5. disk \in [1 .. m -> Records(fmt, Here)] /\ m \in Nat
      BY <3>3, <3>4
    <3>6. disk \in Seq(Records(fmt, Here))
      BY <3>5
    <3> QED  BY <2>2, <3>1, <3>6
  <2> QED  BY <2>1, <2>2 DEF Init
<1>3. Placed
  BY <1>1, <1>2 DEF Placed
<1>4. sectors = << >> /\ at = 1 /\ sector = NewSector(home) /\ pc \in {"header", "thrown"}
      /\ mem.count = 0 /\ mem.sums = "AUTO"
  BY DEF Init
<1>5. TypeOK
  BY <1>3, <1>4, PlacedIs, DecodeAssumption DEF TypeOK
<1>6. Given /\ Searching /\ AllSound /\ AllSummed
  BY <1>4 DEF Given, Searching, AllSound, AllSummed
<1> QED  BY <1>3, <1>5, <1>6 DEF IInv
LEMMA ReadHeaderKeeps == IInv /\ ReadHeader => IInv'
<1> SUFFICES ASSUME IInv, ReadHeader PROVE IInv'
  OBVIOUS
<1> DEFINE r == disk[at]
<1>1. /\ Placed /\ mem.count \in Nat /\ at \in DOMAIN disk /\ at \in 1 .. Len(disk)
      /\ mem.count \in 0 .. MxSectors /\ mem.sums \in {"AUTO", "MICROPOLIS", "MZOS"}
      /\ pc = "header"
  BY PlacedIs DEF IInv, TypeOK, ReadHeader, NoMore
<1>2. /\ Len(disk) \in Nat /\ DOMAIN disk = 1 .. Len(disk)
      /\ NewSector(home) \in Sector /\ NewSector(home).status = "MISSING"
      /\ fmt \in AllFormats
  BY <1>1, PlacedIs
<1>3. PICK x : x = Made(r)
  OBVIOUS
<1>4. /\ sector' = x /\ at' = at + 1 /\ mem' = Remembers(r)
      /\ UNCHANGED <<fmt, home, disk, asked>>
      /\ \/ x.status = "DATA_MISSING" /\ pc' = "data" /\ UNCHANGED sectors
         \/ x.status = "MISSING" /\ UNCHANGED <<pc, sectors>>
         \/ x.status \notin {"DATA_MISSING", "MISSING"} /\ Push(x)
  BY <1>3 DEF ReadHeader, Made
<1>5. \/ x = NewSector(home)
      \/ /\ fmt \in SplitFormats
         /\ r.kind = "head"
         /\ x \in Sector /\ x.status = "DATA_MISSING"
         /\ Names(at, x.t, x.s, x.n)
      \/ /\ fmt \in WholeFormats
         /\ r.kind = "whole"
         /\ x \in Sector /\ x.status \in {"OK", "BAD_CHECKSUM"}
         /\ x.body = r.body
         /\ fmt \notin Nameless => Names(at, x.t, x.s, x.n)
         /\ x.status = "OK" =>
              IF fmt = "micropolis" THEN MicropolisUses(mem, r) \in r.dsum
              ELSE r.dsum = "good"
  BY <1>1, <1>3, MadeOf
<1>6. x.status = "OK" /\ fmt = "micropolis" => MicropolisUses(mem, r) \in r.dsum
  BY <1>2, <1>5
<1>7. fmt = "micropolis" =>
        /\ mem.sums # "AUTO" => mem'.sums = mem.sums
        /\ x.status = "OK" => mem'.sums # "AUTO" /\ mem'.sums \in r.dsum
  BY <1>1, <1>2, <1>3, <1>4, <1>6, MicropolisRemembers
<1>8. mem'.sums \in {"AUTO", "MICROPOLIS", "MZOS"}
  <2>1. CASE fmt = "micropolis"
    BY <1>1, <1>2, <1>3, <1>4, <1>6, <2>1, MicropolisRemembers
  <2>2. CASE fmt # "micropolis"
    BY <1>1, <1>4, <2>2 DEF Remembers
  <2> QED  BY <2>1, <2>2
<1>9. mem'.count \in 0 .. MxSectors
  <2>1. mem'.count = IF fmt = "mx" THEN mem.count + 1 ELSE mem.count
    BY <1>4 DEF Remembers
  <2>2. ~ (fmt = "mx" /\ mem.count = MxSectors)
    BY DEF ReadHeader, NoMore
  <2> QED  BY <1>1, <2>1, <2>2, DecodeAssumption
<1>10. \A y : SummedBy(y) => SummedBy(y)'
  BY <1>4, <1>7, StillSummed
<1>11. x \in Sector
  BY <1>2, <1>5
<1>12. CASE x.status \in {"DATA_MISSING", "MISSING"}
  <2>1. UNCHANGED <<fmt, disk, sectors>> /\ pc' \in {"header", "data"}
        /\ (pc' = "data" => x.status = "DATA_MISSING")
    BY <1>1, <1>4, <1>12
  <2>2. Given' /\ AllSound' /\ AllSummed'
        /\ \A k \in DOMAIN sectors' : sectors'[k] \in Sector /\ sectors'[k].status # "MISSING"
    BY <1>10, <2>1, KeptBack
  <2>3. TypeOK'
    BY <1>1, <1>2, <1>4, <1>8, <1>9, <1>11, <2>1, <2>2 DEF TypeOK
  <2>4. Placed'
    BY <1>1, <1>4 DEF Placed
  <2>5. Searching'
    <3> SUFFICES ASSUME pc' = "data" PROVE Searching'
      BY DEF Searching
    <3>1. fmt \in SplitFormats /\ r.kind = "head" /\ Names(at, x.t, x.s, x.n)
      BY <1>2, <1>5, <2>1
    <3>2. PICK i \in 1 .. Len(disk) : i = at
      BY <1>1
    <3>3. Names(i, x.t, x.s, x.n)
      BY <3>1, <3>2
    <3>4. ~ IsData(i)
      BY <3>1, <3>2 DEF IsData
    <3>5. Names(i, x.t, x.s, x.n)' /\ ~ IsData(i)'
      BY <1>4, <3>3, <3>4, Unmoved
    <3>6. i \in 1 .. at' - 1 /\ \A m \in i .. at' - 1 : m = i
      BY <1>1, <1>2, <1>4, <3>2
    <3>7. Names(i, sector.t, sector.s, sector.n)'
      BY <1>4, <3>5
    <3> QED  BY <1>4, <3>1, <3>5, <3>6, <3>7 DEF Searching
  <2> QED  BY <2>2, <2>3, <2>4, <2>5 DEF IInv
<1>13. CASE x.status \notin {"DATA_MISSING", "MISSING"}
  <2>1. Push(x)
    BY <1>4, <1>13
  <2>2. /\ fmt \in WholeFormats /\ r.kind = "whole" /\ x.body = r.body
        /\ fmt \notin Nameless => Names(at, x.t, x.s, x.n)
        /\ x.status = "OK" =>
             IF fmt = "micropolis" THEN MicropolisUses(mem, r) \in r.dsum ELSE r.dsum = "good"
    BY <1>2, <1>5, <1>13
  <2>3. SoundSector(x)
    <3> SUFFICES ASSUME x.status = "OK" PROVE SoundSector(x)
      BY DEF SoundSector
    <3>1. IsData(at) /\ SumRight(at) /\ disk[at].body = x.body
      BY <2>2 DEF IsData, SumRight
    <3>2. at <= at /\ \A m \in at .. at - 1 : FALSE
      BY <1>1, <1>2
    <3> QED  BY <1>1, <2>2, <3>1, <3>2 DEF SoundSector
  <2>4. SummedBy(x)'
    BY <1>1, <1>4, <1>7, <2>2 DEF SummedBy
  <2>5. /\ Given' /\ AllSound' /\ AllSummed'
        /\ pc' \in {"header", "thrown"}
        /\ \A k \in DOMAIN sectors' : sectors'[k] \in Sector /\ sectors'[k].status # "MISSING"
    BY <1>4, <1>10, <1>11, <1>13, <2>1, <2>3, <2>4, PushKeeps
  <2>6. TypeOK'
    BY <1>1, <1>2, <1>4, <1>8, <1>9, <1>11, <2>5 DEF TypeOK
  <2>7. Placed' /\ Searching'
    BY <1>1, <1>4, <2>5 DEF Placed, Searching
  <2> QED  BY <2>5, <2>6, <2>7 DEF IInv
<1> QED  BY <1>12, <1>13

LEMMA ReadDataKeeps == IInv /\ ReadData => IInv'
<1> SUFFICES ASSUME IInv, ReadData PROVE IInv'
  OBVIOUS
<1> DEFINE r == disk[at]
<1>1. /\ Placed /\ at \in DOMAIN disk /\ at \in 1 .. Len(disk)
      /\ pc = "data" /\ sector \in Sector /\ sector.status = "DATA_MISSING"
      /\ fmt \in SplitFormats
  BY PlacedIs DEF IInv, TypeOK, ReadData, NoMore, Searching
<1>2. /\ Len(disk) \in Nat /\ DOMAIN disk = 1 .. Len(disk) /\ r \in Records(fmt, home)
      /\ fmt # "micropolis" /\ fmt \notin WholeFormats
  BY <1>1, PlacedIs, FormatsApart DEF SplitFormats
<1>3. PICK i \in 1 .. at - 1 :
        /\ Names(i, sector.t, sector.s, sector.n)
        /\ \A m \in i .. at - 1 : ~ (IsData(m) /\ disk[m].dsum # "torn")
  BY <1>1 DEF IInv, Searching
<1>4. PICK x : x = DecodeDataRecord(fmt, sector, r)
  OBVIOUS
<1>5. /\ sector' = x /\ at' = at + 1 /\ UNCHANGED <<fmt, home, disk, asked, mem>>
      /\ IF x.status = "DATA_MISSING" THEN UNCHANGED <<pc, sectors>> ELSE Push(x)
  BY <1>4 DEF ReadData
<1>6. r.kind \in {"head", "data", "junk"} /\ (r.kind = "data" => r.body \in Bodies)
  BY <1>1, <1>2, SplitKinds
<1>7. \/ x = sector /\ ~ (r.kind = "data" /\ r.dsum # "torn")
      \/ /\ r.kind = "data"
         /\ x \in Sector
         /\ x.status \in {"OK", "BAD_CHECKSUM"}
         /\ x.status = "OK" => r.dsum = "good"
         /\ x.t = sector.t /\ x.s = sector.s /\ x.n = sector.n /\ x.body = r.body
  BY <1>1, <1>4, <1>6, DataBrings
<1>8. \A y : SummedBy(y) => SummedBy(y)'
  BY <1>5, StillSummed
<1>9. Placed'
  BY <1>1, <1>5 DEF Placed
<1>10. CASE x.status = "DATA_MISSING"
  <2>1. x = sector /\ ~ (IsData(at) /\ disk[at].dsum # "torn")
    BY <1>1, <1>6, <1>7, <1>10 DEF IsData
  <2>2. UNCHANGED <<fmt, disk, sectors>> /\ pc' = pc
    BY <1>5, <1>10
  <2>3. Given' /\ AllSound' /\ AllSummed'
        /\ \A k \in DOMAIN sectors' : sectors'[k] \in Sector /\ sectors'[k].status # "MISSING"
    BY <1>8, <2>2, KeptBack
  <2>4. TypeOK'
    BY <1>1, <1>2, <1>5, <2>1, <2>2, <2>3 DEF TypeOK, IInv
  <2>5. Searching'
    <3>1. i \in 1 .. at' - 1 /\ \A m \in i .. at' - 1 : m \in i .. at - 1 \/ m = at
      BY <1>1, <1>2, <1>5
    <3>2. \A m \in i .. at' - 1 : ~ (IsData(m) /\ disk[m].dsum # "torn")
      BY <1>3, <2>1, <3>1
    <3>3. \A m \in i .. at' - 1 : ~ (IsData(m)' /\ disk'[m].dsum # "torn")
      BY <1>5, <3>2, Unmoved
    <3>4. Names(i, sector.t, sector.s, sector.n)'
      <4>1. Names(i, x.t, x.s, x.n)'
        BY <1>3, <1>5, <2>1, Unmoved
      <4> QED  BY <1>5, <4>1
    <3> QED  BY <1>1, <1>5, <3>1, <3>3, <3>4 DEF Searching
  <2> QED  BY <1>9, <2>3, <2>4, <2>5 DEF IInv
<1>11. CASE x.status # "DATA_MISSING"
  <2>1. /\ Push(x) /\ r.kind = "data" /\ x \in Sector /\ x.status \in {"OK", "BAD_CHECKSUM"}
        /\ x.status = "OK" => r.dsum = "good"
        /\ x.t = sector.t /\ x.s = sector.s /\ x.n = sector.n /\ x.body = r.body
    BY <1>1, <1>5, <1>7, <1>11
  <2>2. SoundSector(x)
    <3> SUFFICES ASSUME x.status = "OK" PROVE SoundSector(x)
      BY DEF SoundSector
    <3>1. IsData(at) /\ SumRight(at) /\ disk[at].body = x.body
      BY <1>2, <2>1 DEF IsData, SumRight
    <3>2. i \in DOMAIN disk /\ i <= at
      BY <1>1, <1>2
    <3>3. Names(i, x.t, x.s, x.n)
      BY <1>3, <2>1
    <3> QED  BY <1>1, <1>2, <1>3, <3>1, <3>2, <3>3 DEF SoundSector
  <2>3. SummedBy(x)'
    BY <1>2, <1>5 DEF SummedBy
  <2>4. /\ Given' /\ AllSound' /\ AllSummed'
        /\ pc' \in {"header", "thrown"}
        /\ \A k \in DOMAIN sectors' : sectors'[k] \in Sector /\ sectors'[k].status # "MISSING"
    BY <1>5, <1>8, <2>1, <2>2, <2>3, PushKeeps
  <2>5. TypeOK'
    BY <1>1, <1>2, <1>5, <2>1, <2>4 DEF TypeOK, IInv
  <2>6. Searching'
    BY <2>4 DEF Searching
  <2> QED  BY <1>9, <2>4, <2>5, <2>6 DEF IInv
<1> QED  BY <1>10, <1>11

LEMMA DataNeverCameKeeps == IInv /\ DataNeverCame => IInv'
<1> SUFFICES ASSUME IInv, DataNeverCame PROVE IInv'
  OBVIOUS
<1>1. PICK x : x = sector
  OBVIOUS
<1>2. /\ x \in Sector /\ x.status = "DATA_MISSING" /\ Push(x)
      /\ UNCHANGED <<fmt, home, disk, asked, at, sector, mem>>
  BY <1>1 DEF IInv, TypeOK, DataNeverCame
<1>3. SoundSector(x) /\ SummedBy(x)'
  BY <1>2 DEF SoundSector, SummedBy
<1>4. \A y : SummedBy(y) => SummedBy(y)'
  BY <1>2, StillSummed
<1>5. /\ Given' /\ AllSound' /\ AllSummed'
      /\ pc' \in {"header", "thrown"}
      /\ \A k \in DOMAIN sectors' : sectors'[k] \in Sector /\ sectors'[k].status # "MISSING"
  BY <1>2, <1>3, <1>4, PushKeeps
<1>6. TypeOK'
  BY <1>2, <1>5 DEF TypeOK, IInv
<1>7. Placed' /\ Searching'
  BY <1>2, <1>5 DEF IInv, Placed, Searching
<1> QED  BY <1>5, <1>6, <1>7 DEF IInv

LEMMA TrackEndsKeeps == IInv /\ TrackEnds => IInv'
<1> SUFFICES ASSUME IInv, TrackEnds PROVE IInv'
  OBVIOUS
<1>1. /\ pc' = "done" /\ sector' = NewSector(home)
      /\ UNCHANGED <<fmt, home, disk, asked, at, sectors, mem>>
  BY DEF TrackEnds
<1>2. \A y : SummedBy(y) => SummedBy(y)'
  BY <1>1, StillSummed
<1>3. /\ Given' /\ AllSound' /\ AllSummed'
      /\ \A k \in DOMAIN sectors' : sectors'[k] \in Sector /\ sectors'[k].status # "MISSING"
  BY <1>1, <1>2, KeptBack
<1>4. NewSector(home) \in Sector
  BY PlacedIs DEF IInv
<1>5. TypeOK'
  BY <1>1, <1>3, <1>4 DEF TypeOK, IInv
<1>6. Placed' /\ Searching'
  BY <1>1 DEF IInv, Placed, Searching
<1> QED  BY <1>3, <1>5, <1>6 DEF IInv

LEMMA InvariantKept == IInv /\ [Next]_vars => IInv'
<1> SUFFICES ASSUME IInv, [Next]_vars PROVE IInv'
  OBVIOUS
<1>1. CASE ReadHeader
  BY <1>1, ReadHeaderKeeps
<1>2. CASE ReadData
  BY <1>2, ReadDataKeeps
<1>3. CASE DataNeverCame
  BY <1>3, DataNeverCameKeeps
<1>4. CASE TrackEnds
  BY <1>4, TrackEndsKeeps
<1>5. CASE UNCHANGED vars
  <2>1. UNCHANGED <<fmt, home, disk, asked, at, pc, sector, sectors, mem>>
    BY <1>5 DEF vars
  <2>2. \A y : SummedBy(y) => SummedBy(y)'
    BY <2>1, StillSummed
  <2>3. Given' /\ AllSound' /\ AllSummed'
    BY <2>1, <2>2, KeptBack
  <2>4. Placed' /\ TypeOK'
    BY <2>1 DEF IInv, Placed, TypeOK
  <2>5. Searching'
    BY <2>1 DEF IInv, Searching, Names, IsHeader, IsData
  <2> QED  BY <2>3, <2>4, <2>5 DEF IInv
<1> QED  BY <1>1, <1>2, <1>3, <1>4, <1>5 DEF Next

\* decodeToSectors() gives out sectors that were found, and as good only those
\* with an undamaged header on the track, and with the first data that follows
\* it, its checksum right, whatever the track holds; if the sector's own data is
\* lost that is another's (src/lib/decoders/decoders.cc and src/arch).
THEOREM NothingIsMadeUp == Spec => []NothingMadeUp
<1>1. Init => IInv
  BY InitHolds
<1>2. IInv /\ [Next]_vars => IInv'
  BY InvariantKept
<1>3. IInv => NothingMadeUp
  BY InvariantSuffices
<1> QED  BY <1>1, <1>2, <1>3, PTL DEF Spec

-----------------------------------------------------------------------------
(* Every undamaged sector is given out once for each time it is there.       *)

\* The first record that has yet to be accounted for.
Upto == IF pc = "data" THEN at - 1 ELSE at

Before(j, n, b) == {i \in There(n, b) : i < j}

\* What was given out are the records of sector n with body b up to there.
Counted ==
    Reliable /\ pc # "thrown" =>
        \A n \in Sought, b \in 0 .. 1 :
            Cardinality(GivenOut(n, b)) = Cardinality(Before(Upto, n, b))

\* A sector that wants its data was named by the record just read.
Behind ==
    Reliable /\ pc = "data" =>
        /\ at - 1 \in DOMAIN disk
        /\ disk[at - 1].kind = "head"
        /\ disk[at - 1].hsum = "good" \/ fmt = "brother"
        /\ \A n \in Sought :
             Names(at - 1, home.t, home.s, n) <=> sector.t = home.t /\ sector.n = n

AtEnd == pc = "done" /\ fmt # "mx" => at > Len(disk)

FInv == IInv /\ Counted /\ Behind /\ AtEnd

\* What ReadHeader makes of a record is the sector the record names.
LEMMA ReadExactly ==
    ASSUME Placed, mem.count \in Nat, Reliable, at \in DOMAIN disk, NEW m \in Sought
    PROVE  LET x == Made(disk[at]) IN
           x # NewSector(home) /\ x.t = home.t /\ x.n = m <=> Names(at, home.t, home.s, m)
<1> DEFINE r == disk[at]
           x == Made(r)
<1>1. /\ fmt \in AllFormats /\ home \in Homely /\ r \in Records(fmt, home)
      /\ NewSector(home).status = "MISSING"
  BY PlacedIs
<1>2. fmt \notin Nameless /\ home.t <= LastTrack(fmt)
  BY DEF Reliable
<1>3. Names(at, home.t, home.s, m)
      <=> r.kind \in {"head", "whole"} /\ IsHeaderOf(fmt, r, home.t, home.s, m)
  BY DEF Names, IsHeader
<1> HIDE DEF r
<1>4. CASE fmt \in SplitFormats
  <2>1. x = DecodeSectorRecord(fmt, NewSector(home), r, home)
    BY <1>4 DEF Made
  <2>2. CASE r.kind # "head"
    <3>1. x = NewSector(home)
      BY <2>1, <2>2 DEF DecodeSectorRecord
    <3>2. r.kind # "whole"
      BY <1>1, <1>4, SplitKinds
    <3> QED  BY <1>3, <2>2, <3>1, <3>2 DEF r
  <2>3. CASE r.kind = "head"
    <3>1. PICK t, s, n : \E sum \in Sums :
            Origin(fmt, home, t, s, n) /\ r = SplitRecord(fmt, t, s, n, sum)
      BY <1>1, <1>4, <2>3, SplitKinds
    <3>2. x = NewSector(home) \/ x.status = "DATA_MISSING"
      BY <1>1, <1>4, <2>1, <3>1, SplitFinds
    <3>3. x.status = "DATA_MISSING" /\ x.t = home.t /\ x.n = m
          <=> IsHeaderOf(fmt, r, home.t, home.s, m)
      BY <1>1, <1>2, <1>4, <2>1, <3>1, SplitExactly
    <3> HIDE DEF x
    <3> QED  BY <1>1, <1>3, <2>3, <3>2, <3>3 DEF x, r
  <2> QED  BY <2>2, <2>3
<1>5. CASE fmt \in WholeFormats
  <2>1. x = DecodeWholeRecord(fmt, NewSector(home), r, mem, home)
    BY <1>5, FormatsApart DEF Made
  <2>2. PICK t, s, n : \E sum \in Sums, body \in Bodies, dsum \in DataSums(fmt), when \in Nat :
             /\ Origin(fmt, home, t, s, n)
             /\ sum = "good" \/ fmt \notin {"mx", "northstar", "zilogmcz"}
             /\ r = WholeOne(fmt, t, s, n, sum, body, dsum, when)
             /\ r.kind = "whole" /\ r.body = body /\ r.dsum = dsum
    BY <1>1, <1>5, WholeKinds
  <2>3. PICK sum \in Sums, body \in Bodies, dsum \in DataSums(fmt), when \in Nat :
             /\ Origin(fmt, home, t, s, n)
             /\ sum = "good" \/ fmt \notin {"mx", "northstar", "zilogmcz"}
             /\ r = WholeOne(fmt, t, s, n, sum, body, dsum, when)
             /\ r.kind = "whole" /\ r.body = body /\ r.dsum = dsum
    BY <2>2
  <2>4. x # NewSector(home) /\ x.t = home.t /\ x.n = m
        <=> IsHeaderOf(fmt, r, home.t, home.s, m)
    BY <1>1, <1>2, <1>5, <2>1, <2>3, WholeExactly
  <2> HIDE DEF x
  <2> QED  BY <1>3, <2>3, <2>4 DEF x, r
<1> QED  BY <1>1, <1>4, <1>5 DEF AllFormats

\* Two sets that grow together.
LEMMA GrowTogether ==
    ASSUME NEW A, NEW B, IsFiniteSet(A), IsFiniteSet(B), Cardinality(A) = Cardinality(B),
           NEW x, x \notin A, NEW y, y \notin B
    PROVE  Cardinality(A \cup {x}) = Cardinality(B \cup {y})
BY FS_AddElement

LEMMA CountsFinite ==
    ASSUME Placed, Given, NEW n, NEW b, NEW j
    PROVE  IsFiniteSet(GivenOut(n, b)) /\ IsFiniteSet(Before(j, n, b))
<1>1. Len(sectors) \in Nat /\ DOMAIN sectors = 1 .. Len(sectors)
  BY DEF Given
<1>2. Len(disk) \in Nat /\ DOMAIN disk = 1 .. Len(disk)
  BY PlacedIs
<1>3. IsFiniteSet(1 .. Len(sectors)) /\ IsFiniteSet(1 .. Len(disk))
  BY <1>1, <1>2, FS_Interval
<1>4. GivenOut(n, b) \subseteq 1 .. Len(sectors) /\ Before(j, n, b) \subseteq 1 .. Len(disk)
  BY <1>1, <1>2 DEF GivenOut, Before, There
<1> QED  BY <1>3, <1>4, FS_Subset

LEMMA GivenMore ==
    ASSUME Given, NEW x, sectors' = Append(sectors, x), home' = home, NEW n, NEW b
    PROVE  /\ Len(sectors) + 1 \notin GivenOut(n, b)
           /\ GivenOut(n, b)'
              = IF x.n = n /\ x.t = home.t /\ x.body = b
                THEN GivenOut(n, b) \cup {Len(sectors) + 1} ELSE GivenOut(n, b)
<1>1. sectors \in Seq(Sector)
  BY DEF Given
<1>2. /\ DOMAIN sectors = 1 .. Len(sectors) /\ Len(sectors) \in Nat
      /\ DOMAIN sectors' = 1 .. Len(sectors) + 1
      /\ sectors'[Len(sectors) + 1] = x
      /\ \A k \in 1 .. Len(sectors) : sectors'[k] = sectors[k]
  BY <1>1
<1>3. GivenOut(n, b)' = {k \in DOMAIN sectors' :
        sectors'[k].n = n /\ sectors'[k].t = home.t /\ sectors'[k].body = b}
  BY DEF GivenOut
<1> QED  BY <1>2, <1>3 DEF GivenOut

LEMMA StillThere ==
    ASSUME UNCHANGED <<fmt, home, disk>>
    PROVE  /\ \A n, b : There(n, b)' = There(n, b)
           /\ Reliable' <=> Reliable
<1>1. \A i, t, s, n : Names(i, t, s, n)' <=> Names(i, t, s, n)
  BY Unmoved
<1>2. ASSUME NEW n, NEW b PROVE There(n, b)' = There(n, b)
  BY <1>1 DEF There
<1>3. Reliable' <=> Reliable
  BY DEF Reliable, Framed
<1> QED  BY <1>2, <1>3

\* The records up to the next one.
LEMMA OneMore ==
    ASSUME Placed, NEW j \in Int, NEW n, NEW b
    PROVE  /\ j \notin Before(j, n, b)
           /\ Before(j + 1, n, b)
              = IF j \in There(n, b) THEN Before(j, n, b) \cup {j} ELSE Before(j, n, b)
<1>1. There(n, b) \subseteq Int
  BY PlacedIs DEF There
<1> QED  BY <1>1 DEF Before

LEMMA CountsAgain ==
    ASSUME UNCHANGED <<fmt, home, disk>>, NEW j, j = Upto',
           \A n \in Sought, b \in 0 .. 1 :
             Cardinality(GivenOut(n, b)') = Cardinality(Before(j, n, b))
    PROVE  Counted'
<1>1. ASSUME NEW n \in Sought, NEW b \in 0 .. 1
      PROVE  Before(Upto, n, b)' = Before(j, n, b)
  <2>1. There(n, b)' = There(n, b)
    BY StillThere
  <2> QED  BY <2>1 DEF Before
<1> QED  BY <1>1 DEF Counted, Sought

LEMMA SameGiven ==
    ASSUME UNCHANGED <<home, sectors>>
    PROVE  \A n, b : GivenOut(n, b)' = GivenOut(n, b)
BY DEF GivenOut

LEMMA InitCounts == Init => Counted /\ Behind /\ AtEnd
<1> SUFFICES ASSUME Init PROVE Counted /\ Behind /\ AtEnd
  OBVIOUS
<1>1. sectors = << >> /\ at = 1 /\ pc \in {"header", "thrown"}
  BY DEF Init
<1>2. Placed
  BY InitHolds DEF IInv
<1>3. ASSUME NEW n, NEW b PROVE GivenOut(n, b) = {} /\ Before(Upto, n, b) = {}
  <2>1. Upto = 1
    BY <1>1 DEF Upto
  <2>2. There(n, b) \subseteq DOMAIN disk
    BY DEF There
  <2> QED  BY <1>1, <1>2, <2>1, <2>2, PlacedIs DEF GivenOut, Before
<1> QED  BY <1>1, <1>3 DEF Counted, Behind, AtEnd

\* A sector that is given out makes up for a record.
LEMMA PushCounts ==
    ASSUME Placed, Given, NEW x, sectors' = Append(sectors, x), UNCHANGED <<fmt, home, disk>>,
           NEW j \in Int, NEW n, NEW b,
           Cardinality(GivenOut(n, b)) = Cardinality(Before(j, n, b)),
           j \in There(n, b) <=> x.n = n /\ x.t = home.t /\ x.body = b
    PROVE  Cardinality(GivenOut(n, b)') = Cardinality(Before(j + 1, n, b))
<1>1. IsFiniteSet(GivenOut(n, b)) /\ IsFiniteSet(Before(j, n, b))
  BY CountsFinite
<1>2. /\ j \notin Before(j, n, b)
      /\ Before(j + 1, n, b)
         = IF j \in There(n, b) THEN Before(j, n, b) \cup {j} ELSE Before(j, n, b)
  BY OneMore
<1>3. /\ Len(sectors) + 1 \notin GivenOut(n, b)
      /\ GivenOut(n, b)'
         = IF j \in There(n, b) THEN GivenOut(n, b) \cup {Len(sectors) + 1} ELSE GivenOut(n, b)
  BY GivenMore
<1>4. Cardinality(GivenOut(n, b) \cup {Len(sectors) + 1})
      = Cardinality(Before(j, n, b) \cup {j})
  BY <1>1, <1>2, <1>3, GrowTogether
<1> QED  BY <1>2, <1>3, <1>4

LEMMA ReadHeaderCounts ==
    ASSUME FInv, ReadHeader, Reliable
    PROVE  Counted' /\ Behind' /\ pc' # "done"
<1> DEFINE r == disk[at]
<1>1. /\ Placed /\ Given /\ mem.count \in Nat /\ at \in DOMAIN disk /\ at \in Nat
      /\ pc = "header" /\ Upto = at
  BY PlacedIs DEF FInv, IInv, TypeOK, ReadHeader, NoMore, Upto
<1>2. /\ NewSector(home).status = "MISSING"
      /\ fmt \notin Nameless
      /\ SplitFormats \cap WholeFormats = {}
  BY <1>1, PlacedIs, FormatsApart DEF Reliable
<1>3. PICK x : x = Made(r)
  OBVIOUS
<1>4. /\ sector' = x /\ at' = at + 1
      /\ UNCHANGED <<fmt, home, disk>>
      /\ \/ x.status = "DATA_MISSING" /\ pc' = "data" /\ UNCHANGED sectors
         \/ x.status = "MISSING" /\ UNCHANGED <<pc, sectors>>
         \/ x.status \notin {"DATA_MISSING", "MISSING"} /\ Push(x)
  BY <1>3 DEF ReadHeader, Made
<1>5. \A n \in Sought, b \in 0 .. 1 :
        Cardinality(GivenOut(n, b)) = Cardinality(Before(at, n, b))
  BY <1>1 DEF FInv, Counted
<1>6. \A n \in Sought :
        x # NewSector(home) /\ x.t = home.t /\ x.n = n <=> Names(at, home.t, home.s, n)
  BY <1>1, <1>3, ReadExactly
<1>7. \/ x = NewSector(home)
      \/ /\ fmt \in SplitFormats
         /\ r.kind = "head" /\ x.status = "DATA_MISSING" /\ Names(at, x.t, x.s, x.n)
      \/ /\ fmt \in WholeFormats
         /\ x.status \in {"OK", "BAD_CHECKSUM"}
         /\ x.body = r.body
  BY <1>1, <1>3, MadeOf
<1>8. CASE x = NewSector(home)
  <2>1. pc' = "header" /\ UNCHANGED sectors
    BY <1>1, <1>2, <1>4, <1>8
  <2>2. PICK j : j = Upto'
    OBVIOUS
  <2>3. j = at + 1
    BY <1>4, <2>1, <2>2 DEF Upto
  <2>4. ASSUME NEW n \in Sought, NEW b \in 0 .. 1
        PROVE  Cardinality(GivenOut(n, b)') = Cardinality(Before(j, n, b))
    <3>1. PICK i \in Int : i = at
      BY <1>1
    <3>2. i \notin There(n, b)
      BY <1>6, <1>8, <3>1 DEF There
    <3>4. Before(i + 1, n, b) = Before(i, n, b)
      BY <1>1, <3>1, <3>2, OneMore
    <3>5. Before(j, n, b) = Before(at, n, b)
      BY <2>3, <3>1, <3>4
    <3>3. GivenOut(n, b)' = GivenOut(n, b)
      BY <1>4, <2>1, SameGiven
    <3> QED  BY <1>5, <3>3, <3>5
  <2>5. Counted'
    BY <1>4, <2>2, <2>4, CountsAgain
  <2> QED  BY <2>1, <2>5 DEF Behind
<1>9. CASE fmt \in SplitFormats /\ r.kind = "head" /\ x.status = "DATA_MISSING"
           /\ Names(at, x.t, x.s, x.n)
  <2>1. pc' = "data" /\ UNCHANGED sectors /\ x # NewSector(home)
    BY <1>2, <1>4, <1>9
  <2>2. PICK j : j = Upto'
    OBVIOUS
  <2>3. j = at
    BY <1>1, <1>4, <2>1, <2>2 DEF Upto
  <2>4. ASSUME NEW n \in Sought, NEW b \in 0 .. 1
        PROVE  Cardinality(GivenOut(n, b)') = Cardinality(Before(j, n, b))
    <3>1. GivenOut(n, b)' = GivenOut(n, b)
      BY <1>4, <2>1, SameGiven
    <3> QED  BY <1>5, <2>3, <3>1
  <2>5. Counted'
    BY <1>4, <2>2, <2>4, CountsAgain
  <2>6. Behind'
    <3>1. r.hsum = "good" \/ fmt = "brother"
      BY <1>9 DEF Names, IsHeaderOf
    <3>2. PICK i : i = at
      OBVIOUS
    <3>3. i \in DOMAIN disk /\ disk[i].kind = "head" /\ at' - 1 = i
          /\ (disk[i].hsum = "good" \/ fmt = "brother")
      BY <1>1, <1>4, <1>9, <3>1, <3>2
    <3>4. ASSUME NEW n \in Sought
          PROVE  Names(i, home.t, home.s, n)' <=> x.t = home.t /\ x.n = n
      <4>1. PICK h : h = home
        OBVIOUS
      <4>2. Names(i, h.t, h.s, n)' <=> Names(i, h.t, h.s, n)
        BY <1>4, Unmoved
      <4>3. Names(i, h.t, h.s, n) <=> x.t = home.t /\ x.n = n
        BY <1>6, <2>1, <3>2, <4>1
      <4> QED  BY <1>4, <4>1, <4>2, <4>3
    <3>5. \A n \in Sought :
            Names(at - 1, home.t, home.s, n)' <=> x.t = home'.t /\ x.n = n
      BY <1>4, <3>3, <3>4
    <3> QED  BY <1>4, <3>3, <3>5 DEF Behind, Sought
  <2> QED  BY <2>1, <2>5, <2>6
<1>10. CASE fmt \in WholeFormats /\ x.status \in {"OK", "BAD_CHECKSUM"} /\ x.body = r.body
  <2>1. Push(x) /\ x # NewSector(home) /\ fmt \notin SplitFormats
    BY <1>2, <1>4, <1>10
  <2>2. CASE x.t \notin LaidOut
    BY <2>1, <2>2 DEF Push, Counted, Behind
  <2>3. CASE x.t \in LaidOut
    <3>1. sectors' = Append(sectors, x) /\ pc' = "header"
      BY <2>1, <2>3 DEF Push
    <3>2. PICK j : j = Upto'
      OBVIOUS
    <3>3. j = at + 1
      BY <1>4, <3>1, <3>2 DEF Upto
    <3>4. PICK i \in Int : i = at
      BY <1>1
    <3>5. ASSUME NEW n \in Sought, NEW b \in 0 .. 1
          PROVE  Cardinality(GivenOut(n, b)') = Cardinality(Before(j, n, b))
      <4>1. i \in There(n, b) <=> x.n = n /\ x.t = home.t /\ x.body = b
        BY <1>1, <1>6, <1>10, <2>1, <3>4 DEF There
      <4>2. Cardinality(GivenOut(n, b)) = Cardinality(Before(i, n, b))
        BY <1>5, <3>4
      <4>3. Cardinality(GivenOut(n, b)') = Cardinality(Before(i + 1, n, b))
        BY <1>1, <1>4, <3>1, <4>1, <4>2, PushCounts
      <4> QED  BY <3>3, <3>4, <4>3
    <3>6. Counted'
      BY <1>4, <3>2, <3>5, CountsAgain
    <3> QED  BY <3>1, <3>6 DEF Behind
  <2> QED  BY <2>2, <2>3
<1> QED  BY <1>7, <1>8, <1>9, <1>10

\* With the data right behind its header, the data record is next.
LEMMA DataIsNext ==
    ASSUME FInv, Reliable, pc = "data"
    PROVE  /\ fmt \in SplitFormats
           /\ at \in DOMAIN disk /\ at - 1 \in DOMAIN disk /\ at \in Nat
           /\ disk[at].kind = "data" /\ disk[at].dsum # "torn"
           /\ ~ NoMore
<1>1. fmt \in SplitFormats /\ Placed
  BY DEF FInv, IInv, Searching
<1>2. /\ at - 1 \in DOMAIN disk /\ disk[at - 1].kind = "head"
      /\ disk[at - 1].hsum = "good" \/ fmt = "brother"
  BY DEF FInv, Behind
<1>3. PICK i : i = at - 1
  OBVIOUS
<1>4. i < Len(disk) /\ disk[i + 1].kind = "data" /\ disk[i + 1].dsum # "torn"
  BY <1>1, <1>2, <1>3 DEF Reliable, Framed
<1>5. i + 1 = at /\ at \in 1 .. Len(disk) /\ Len(disk) \in Nat /\ DOMAIN disk = 1 .. Len(disk)
  <2>1. at \in Nat /\ Len(disk) \in Nat /\ DOMAIN disk = 1 .. Len(disk)
    BY <1>1, PlacedIs DEF FInv, IInv, TypeOK
  <2> QED  BY <1>2, <1>3, <1>4, <2>1
<1>6. fmt # "mx"
  BY <1>1 DEF SplitFormats
<1> QED  BY <1>1, <1>2, <1>4, <1>5, <1>6 DEF NoMore

LEMMA ReadDataCounts ==
    ASSUME FInv, ReadData, Reliable
    PROVE  Counted' /\ Behind' /\ pc' # "done"
<1> DEFINE r == disk[at]
<1>1. /\ Placed /\ Given /\ pc = "data" /\ sector \in Sector /\ sector.status = "DATA_MISSING"
      /\ fmt \in SplitFormats /\ at \in DOMAIN disk /\ at - 1 \in DOMAIN disk /\ at \in Nat
      /\ r.kind = "data" /\ r.dsum # "torn"
  BY DataIsNext DEF FInv, IInv, TypeOK, ReadData
<1>2. r.body \in Bodies
  <2>1. r \in Records(fmt, home)
    BY <1>1, PlacedIs
  <2> QED  BY <1>1, <2>1, SplitKinds
<1>3. PICK x : x = DecodeDataRecord(fmt, sector, r)
  OBVIOUS
<1>4. /\ x.status \in {"OK", "BAD_CHECKSUM"}
      /\ x.t = sector.t /\ x.n = sector.n /\ x.body = r.body
  BY <1>1, <1>2, <1>3, DataBrings
<1>5. at' = at + 1 /\ UNCHANGED <<fmt, home, disk>> /\ Push(x)
  BY <1>3, <1>4 DEF ReadData
<1>6. CASE x.t \notin LaidOut
  BY <1>5, <1>6 DEF Push, Counted, Behind
<1>7. CASE x.t \in LaidOut
  <2>1. sectors' = Append(sectors, x) /\ pc' = "header"
    BY <1>5, <1>7 DEF Push
  <2>2. PICK j : j = Upto'
    OBVIOUS
  <2>3. PICK i \in Int : i = at - 1
    BY <1>1
  <2>4. j = i + 2 /\ i + 1 = at
    BY <1>1, <1>5, <2>1, <2>2, <2>3 DEF Upto
  <2>5. ASSUME NEW n \in Sought, NEW b \in 0 .. 1
        PROVE  Cardinality(GivenOut(n, b)') = Cardinality(Before(j, n, b))
    <3>1. Names(i, home.t, home.s, n) <=> sector.t = home.t /\ sector.n = n
      BY <1>1, <2>3 DEF FInv, Behind
    <3>2. i \in There(n, b) <=> x.n = n /\ x.t = home.t /\ x.body = b
      BY <1>1, <1>4, <2>3, <2>4, <3>1 DEF There
    <3>3. i + 1 \notin There(n, b)
      BY <1>1, <2>4 DEF There, Names, IsHeader
    <3>4. Before(j, n, b) = Before(i + 1, n, b)
      <4>1. i + 1 \in Int /\ (i + 1) + 1 = j
        BY <2>4
      <4> QED  BY <1>1, <3>3, <4>1, OneMore
    <3>5. Cardinality(GivenOut(n, b)) = Cardinality(Before(i, n, b))
      <4>1. Upto = i
        BY <1>1, <2>3 DEF Upto
      <4> QED  BY <1>1, <4>1 DEF FInv, Counted
    <3>6. Cardinality(GivenOut(n, b)') = Cardinality(Before(i + 1, n, b))
      BY <1>1, <1>5, <2>1, <3>2, <3>5, PushCounts
    <3> QED  BY <3>4, <3>6
  <2>6. Counted'
    BY <1>5, <2>2, <2>5, CountsAgain
  <2> QED  BY <2>1, <2>6 DEF Behind
<1> QED  BY <1>6, <1>7

\* Nothing is read and nothing given out.
LEMMA RestCounts ==
    ASSUME FInv, UNCHANGED <<fmt, home, disk, at, sectors>>, Reliable,
           (pc # "data" /\ pc' # "data" /\ pc # "thrown") \/ pc' = pc, sector' = sector \/ pc' # "data"
    PROVE  Counted' /\ Behind'
<1>1. CASE pc = "thrown"
  BY <1>1 DEF Counted, Behind
<1>2. CASE pc # "thrown"
  <2>1. PICK j : j = Upto'
    OBVIOUS
  <2>2. j = Upto
    BY <2>1 DEF Upto
  <2>3. ASSUME NEW n \in Sought, NEW b \in 0 .. 1
        PROVE  Cardinality(GivenOut(n, b)') = Cardinality(Before(j, n, b))
    <3>1. GivenOut(n, b)' = GivenOut(n, b)
      BY SameGiven
    <3> QED  BY <1>2, <2>2, <3>1 DEF FInv, Counted
  <2>4. Counted'
    BY <2>1, <2>3, CountsAgain
  <2>5. Behind'
    <3> SUFFICES ASSUME pc' = "data" PROVE Behind'
      BY DEF Behind
    <3>1. pc = "data" /\ sector' = sector
      OBVIOUS
    <3>2. Behind
      BY DEF FInv
    <3> QED  BY <3>1, <3>2 DEF Behind, Names, IsHeader, Sought
  <2> QED  BY <2>4, <2>5
<1> QED  BY <1>1, <1>2

LEMMA StepCounts == FInv /\ [Next]_vars => Counted' /\ Behind' /\ AtEnd'
<1> SUFFICES ASSUME FInv, [Next]_vars PROVE Counted' /\ Behind' /\ AtEnd'
  OBVIOUS
<1>1. UNCHANGED <<fmt, home, disk>>
  BY DEF Next, vars, ReadHeader, ReadData, DataNeverCame, TrackEnds
<1>2. AtEnd'
  <2>1. CASE ReadHeader \/ ReadData \/ DataNeverCame
    <3>1. pc # "done" /\ (pc' = pc \/ pc' \in {"header", "data", "thrown"})
      BY <2>1 DEF ReadHeader, ReadData, DataNeverCame, Push
    <3> QED  BY <3>1 DEF AtEnd
  <2>2. CASE TrackEnds
    BY <2>2 DEF TrackEnds, NoMore, AtEnd
  <2>3. CASE UNCHANGED vars
    BY <2>3 DEF vars, AtEnd, FInv
  <2> QED  BY <2>1, <2>2, <2>3 DEF Next
<1>3. CASE ~ Reliable
  <2>1. ~ Reliable'
    BY <1>1, <1>3, StillThere
  <2>2. Counted' /\ Behind'
    BY <2>1 DEF Counted, Behind
  <2> QED  BY <1>2, <2>2
<1>4. CASE Reliable
  <2>1. CASE ReadHeader
    BY <1>2, <1>4, <2>1, ReadHeaderCounts
  <2>2. CASE ReadData
    BY <1>2, <1>4, <2>2, ReadDataCounts
  <2>3. CASE DataNeverCame
    BY <1>4, <2>3, DataIsNext DEF DataNeverCame
  <2>4. CASE TrackEnds
    BY <1>2, <1>4, <2>4, RestCounts DEF TrackEnds
  <2>5. CASE UNCHANGED vars
    BY <1>2, <1>4, <2>5, RestCounts DEF vars
  <2> QED  BY <2>1, <2>2, <2>3, <2>4, <2>5 DEF Next
<1> QED  BY <1>2, <1>3, <1>4

\* decodeToSectors() keeps each sector of the track it decodes as often as the
\* track has it whole, with the data of its own record, and no other data
\* under its number (src/lib/decoders/decoders.cc and the decoders of src/arch).
THEOREM EveryOneIsFound == Spec => []EachFound
<1>1. Init => FInv
  BY InitHolds, InitCounts DEF FInv
<1>2. FInv /\ [Next]_vars => FInv'
  BY InvariantKept, StepCounts DEF FInv
<1>3. FInv => EachFound
  <2> SUFFICES ASSUME FInv, pc = "done", Reliable, NEW n \in Sought, NEW b \in 0 .. 1
               PROVE  Cardinality(GivenOut(n, b)) = Cardinality(There(n, b))
    BY DEF EachFound, Sought
  <2>1. at > Len(disk) /\ Upto = at
    BY DEF FInv, AtEnd, Upto, Reliable, Nameless
  <2>2. /\ Len(disk) \in Nat /\ DOMAIN disk = 1 .. Len(disk) /\ at \in 1 .. Len(disk) + 1
    BY PlacedIs DEF FInv, IInv, TypeOK
  <2>3. Before(at, n, b) = There(n, b)
    BY <2>1, <2>2 DEF Before, There
  <2> QED  BY <2>1, <2>3 DEF FInv, Counted
<1> QED  BY <1>1, <1>2, <1>3, PTL DEF Spec

-----------------------------------------------------------------------------
(* What was written is read back.                                            *)

\* The ends of pieces do not come in another order.
LEMMA RisingEnds ==
    ASSUME NEW N \in Nat, NEW o \in [0 .. N -> Nat], \A i \in 1 .. N : o[i - 1] <= o[i],
           NEW a \in 0 .. N, NEW b \in 0 .. N, a <= b
    PROVE  o[a] <= o[b]
<1> DEFINE B == {n \in 0 .. N : a <= n /\ ~ (o[a] <= o[n])}
<1>1. SUFFICES ASSUME B # {} PROVE FALSE
  OBVIOUS
<1>2. B \in SUBSET Nat
  OBVIOUS
<1>3. PICK n \in B : \A q \in B : n <= q
  <2> HIDE DEF B
  <2> QED  BY <1>1, <1>2, LeastOf
<1>4. n \in 0 .. N /\ a <= n /\ ~ (o[a] <= o[n])
  OBVIOUS
<1>5. n # a /\ n - 1 \in 0 .. N /\ a <= n - 1 /\ n \in 1 .. N
  BY <1>4
<1>6. n - 1 \notin B
  <2> HIDE DEF B
  <2> QED  BY <1>3, <1>4
<1>7. o[a] <= o[n - 1] /\ o[n - 1] <= o[n]
  BY <1>5, <1>6
<1> QED  BY <1>4, <1>5, <1>7

\* Where the pieces of a flattened sequence end.
EndsOf(o, N, ss, d) ==
    /\ o \in [0 .. N -> Nat] /\ o[0] = 0 /\ o[N] = Len(d)
    /\ \A i \in 1 .. N :
         /\ o[i] = o[i - 1] + Len(ss[i])
         /\ \A m \in 1 .. Len(ss[i]) : d[o[i - 1] + m] = ss[i][m]

LEMMA FlattenEnds ==
    ASSUME NEW S, NEW N \in Nat \ {0}, NEW ss \in [1 .. N -> Seq(S)]
    PROVE  \E o : EndsOf(o, N, ss, FlattenSeq(ss))
<1>1. PICK g \in [1 .. N -> Seq(S)] : Grown(g, N, ss) /\ FlattenSeq(ss) = g[N]
  BY FlattenIs
<1> DEFINE o == [i \in 0 .. N |-> IF i = 0 THEN 0 ELSE Len(g[i])]
<1>2. \A i \in 1 .. N : /\ g[i] \in Seq(S) /\ ss[i] \in Seq(S)
                        /\ Len(g[i]) \in Nat /\ Len(ss[i]) \in Nat
  OBVIOUS
<1>3. /\ o \in [0 .. N -> Nat] /\ o[0] = 0 /\ o[N] = Len(g[N])
      /\ \A i \in 1 .. N : o[i] = Len(g[i])
  BY <1>2
<1>4. ASSUME NEW i \in 1 .. N
      PROVE  /\ o[i] = o[i - 1] + Len(ss[i])
             /\ \A m \in 1 .. Len(ss[i]) : g[i][o[i - 1] + m] = ss[i][m]
             /\ i # 1 => \A m \in 1 .. o[i - 1] : g[i][m] = g[i - 1][m]
  <2>1. CASE i = 1
    <3>1. g[i] = ss[i] /\ o[i - 1] = 0
      BY <1>1, <1>3, <2>1 DEF Grown
    <3> HIDE DEF o
    <3> QED  BY <1>2, <1>3, <2>1, <3>1
  <2>2. CASE i # 1
    <3>1. i - 1 \in 1 .. N /\ g[i] = g[i - 1] \o ss[i]
      BY <1>1, <2>2 DEF Grown
    <3>2. o[i - 1] = Len(g[i - 1]) /\ o[i] = Len(g[i])
      BY <1>3, <3>1
    <3>3. g[i - 1] \in Seq(S) /\ ss[i] \in Seq(S)
      BY <1>2, <3>1
    <3> HIDE DEF o
    <3> QED  BY <3>1, <3>2, <3>3
  <2> QED  BY <2>1, <2>2
<1> HIDE DEF o
<1> DEFINE B == {n \in 1 .. N :
                   ~ \A i \in 1 .. n : \A m \in 1 .. Len(ss[i]) : g[n][o[i - 1] + m] = ss[i][m]}
<1>5. B = {}
  <2>1. SUFFICES ASSUME B # {} PROVE FALSE
    OBVIOUS
  <2>2. B \in SUBSET Nat
    OBVIOUS
  <2>3. PICK n \in B : \A q \in B : n <= q
    <3> HIDE DEF B
    <3> QED  BY <2>1, <2>2, LeastOf
  <2>4. n \in 1 .. N
    OBVIOUS
  <2>5. PICK i \in 1 .. n : \E m \in 1 .. Len(ss[i]) : g[n][o[i - 1] + m] # ss[i][m]
    OBVIOUS
  <2>12. PICK m \in 1 .. Len(ss[i]) : g[n][o[i - 1] + m] # ss[i][m]
    BY <2>5
  <2>6. i # n
    BY <1>4, <2>4, <2>12
  <2>7. n # 1 /\ n - 1 \in 1 .. N /\ i \in 1 .. n - 1
    BY <2>4, <2>6
  <2>8. n - 1 \notin B
    <3> HIDE DEF B
    <3> QED  BY <2>3, <2>4
  <2>9. g[n - 1][o[i - 1] + m] = ss[i][m]
    BY <2>7, <2>8
  <2>10. o[i - 1] + m \in 1 .. o[n - 1]
    <3>1. i \in 1 .. N /\ i - 1 \in 0 .. N /\ n - 1 \in 0 .. N /\ i \in 0 .. N /\ i <= n - 1
      BY <2>4, <2>7
    <3>2. o[i] = o[i - 1] + Len(ss[i]) /\ o[i - 1] \in Nat /\ o[i] \in Nat /\ o[n - 1] \in Nat
      BY <1>3, <1>4, <3>1
    <3>3. \A q \in 1 .. N : o[q - 1] <= o[q]
      <4> SUFFICES ASSUME NEW q \in 1 .. N PROVE o[q - 1] <= o[q]
        OBVIOUS
      <4>1. o[q] = o[q - 1] + Len(ss[q]) /\ Len(ss[q]) \in Nat
        BY <1>2, <1>4
      <4>2. q - 1 \in 0 .. N
        OBVIOUS
      <4>3. o[q - 1] \in Nat
        BY <1>3, <4>2
      <4> QED  BY <4>1, <4>3
    <3>4. o[i] <= o[n - 1]
      BY <1>3, <3>1, <3>3, RisingEnds
    <3>5. Len(ss[i]) \in Nat
      BY <1>2, <3>1
    <3>6. m \in Nat /\ 1 <= m /\ m <= Len(ss[i])
      BY <3>5
    <3>7. \A u, v, w, l \in Nat : v = u + l /\ v <= w /\ m <= l => u + m \in 1 .. w
      BY <3>6
    <3> QED  BY <3>2, <3>4, <3>5, <3>6, <3>7
  <2>11. g[n][o[i - 1] + m] = g[n - 1][o[i - 1] + m]
    BY <1>4, <2>4, <2>7, <2>10
  <2> QED  BY <2>9, <2>11, <2>12
<1>6. EndsOf(o, N, ss, g[N])
  <2>1. N \in 1 .. N /\ N \notin B
    <3> HIDE DEF B
    <3> QED  BY <1>5
  <2>2. \A i \in 1 .. N : \A m \in 1 .. Len(ss[i]) : g[N][o[i - 1] + m] = ss[i][m]
    BY <2>1
  <2> QED  BY <1>3, <1>4, <2>2 DEF EndsOf
<1> QED  BY <1>1, <1>6


\* A sector that its decoder tells from the others of a track h.
Legible(f, h, x) ==
    /\ x \in Writable /\ x.t = h.t /\ x.s = h.s
    /\ h.t <= LastTrack(f) /\ x.n < SectorsOf(f)
    /\ f \in OneSided => h.s = 0
    /\ f = "ibm" => ~ (IgnoreSide /\ InvertSide = 1) /\ x.n \notin IgnoreSectors

\* A sector whose header was read.
Awaiting(x) == [t |-> x.t, s |-> x.s, n |-> x.n, body |-> NoBody, status |-> "DATA_MISSING"]

LEMMA SplitReads ==
    ASSUME NEW f \in SplitFormats, NEW h \in Homely, NEW x, Legible(f, h, x)
    PROVE  DecodeSectorRecord(f, NewSector(h), SplitRecord(f, x.t, x.s, x.n, "good"), h)
           = Awaiting(x)
<1> DEFINE r == SplitRecord(f, x.t, x.s, x.n, "good")
           new == NewSector(h)
           got == DecodeSectorRecord(f, new, r, h)
<1>1. /\ r.kind = "head" /\ r.sector = x.n /\ r.hsum = "good"
      /\ r.track = TrackByte(f, x.t, x.s) /\ r.side = SideByte(f, x.t, x.s)
  BY DEF SplitRecord, HeaderRecord
<1>2. /\ x.t \in 0 .. 127 /\ x.s \in 0 .. 1 /\ x.n \in Nat
      /\ x.t = h.t /\ x.s = h.s /\ x.t <= LastTrack(f) /\ x.n < SectorsOf(f)
      /\ f \in OneSided => x.s = 0
      /\ f = "ibm" => ~ (IgnoreSide /\ InvertSide = 1) /\ x.n \notin IgnoreSectors
  BY HomelyIs DEF Legible, Writable, Sides
<1>3. new = [t |-> h.t, s |-> h.s, n |-> 0, body |-> NoBody, status |-> "MISSING"]
      /\ new.s = h.s
  BY DEF NewSector
<1> HIDE DEF r, new
<1>4. SUFFICES got = Found(new, x.t, x.s, x.n, TRUE)
  <2>1. Found(new, x.t, x.s, x.n, TRUE) = Awaiting(x)
    BY <1>3 DEF Found, Awaiting
  <2> HIDE DEF got
  <2> QED  BY <2>1 DEF got, r, new
<1> USE DEF TrackByte, SideByte, DecodeSectorRecord, LastTrack, SectorsOf, OneSided
<1>5. CASE f = "agat"
  <2>1. (x.t * 2 + x.s) \div 2 = x.t /\ (x.t * 2 + x.s) % 2 = x.s
    BY <1>2
  <2> QED  BY <1>1, <1>2, <1>5, <2>1 DEF AgatHeader
<1>6. CASE f = "apple2"
  BY <1>1, <1>2, <1>3, <1>6 DEF Apple2Header
<1>7. CASE f = "brother"
  <2>1. x.n <= 11 /\ x.t <= 79
    BY <1>2, <1>7
  <2> QED  BY <1>1, <1>2, <1>3, <1>7, <2>1 DEF BrotherHeader
<1>8. CASE f = "c64"
  <2>1. (x.t + 1) - 1 = x.t /\ x.s = 0
    BY <1>2, <1>8
  <2> QED  BY <1>1, <1>2, <1>8, <2>1 DEF C64Header
<1>9. CASE f = "f85"
  BY <1>1, <1>2, <1>9 DEF F85Header
<1>10. CASE f = "ibm"
  <2>1. Xor1(IF IgnoreSide THEN h.s ELSE r.side, InvertSide) = x.s
    BY <1>1, <1>2, <1>10, OptionsAssumption DEF Xor1
  <2>2. (IF IgnoreTrack THEN h.t ELSE r.track) = x.t
    BY <1>1, <1>2, <1>10
  <2>3. got = Found(new, IF IgnoreTrack THEN h.t ELSE r.track,
                    Xor1(IF IgnoreSide THEN h.s ELSE r.side, InvertSide), r.sector,
                    r.hsum = "good" /\ r.sector \notin IgnoreSectors)
    BY <1>1, <1>10 DEF IbmHeader
  <2>4. r.hsum = "good" /\ r.sector \notin IgnoreSectors
    BY <1>1, <1>2, <1>10
  <2> HIDE DEF got
  <2> QED  BY <1>1, <2>1, <2>2, <2>3, <2>4 DEF Found
<1>11. CASE f = "macintosh"
  <2>1. (r.side \div 32) % 2 = x.s
    BY <1>1, <1>2, <1>11
  <2>2. x.n <= 11
    BY <1>2, <1>11
  <2> QED  BY <1>1, <1>2, <1>11, <2>1, <2>2 DEF MacintoshHeader, Found
<1>12. CASE f = "tids990"
  <2>1. (x.s * 8) \div 8 = x.s
    BY <1>2
  <2> QED  BY <1>1, <1>2, <1>12, <2>1 DEF Tids990Header
<1>13. CASE f = "victor9k"
  <2>1. r.track % 128 = x.t /\ r.track \div 128 = x.s
    BY <1>1, <1>2, <1>13
  <2>2. x.n <= 20 /\ x.t <= 85
    BY <1>2, <1>13
  <2> QED  BY <1>1, <1>2, <1>13, <2>1, <2>2 DEF Victor9kHeader, Found
<1> QED  BY <1>5, <1>6, <1>7, <1>8, <1>9, <1>10, <1>11, <1>12, <1>13 DEF SplitFormats

LEMMA WholeReads ==
    ASSUME NEW f \in WholeFormats, NEW h \in Homely, NEW x, Legible(f, h, x),
           NEW i \in Nat, x.n = i - 1,
           NEW m, f = "mx" => m.count = x.n,
           f = "micropolis" => m.sums \in {"AUTO", "MICROPOLIS"}
    PROVE  DecodeWholeRecord(f, NewSector(h),
             WholeOne(f, x.t, x.s, x.n, "good", x.body, WrittenSum(f), WrittenWhen(f, i)), m, h)
           = [t |-> x.t, s |-> x.s, n |-> x.n, body |-> x.body, status |-> "OK"]
<1> DEFINE r == WholeOne(f, x.t, x.s, x.n, "good", x.body, WrittenSum(f), WrittenWhen(f, i))
           new == NewSector(h)
           got == DecodeWholeRecord(f, new, r, m, h)
<1>1. /\ r.hsum = "good" /\ r.body = x.body /\ r.dsum = WrittenSum(f) /\ r.at = WrittenWhen(f, i)
      /\ r.track = TrackByte(f, x.t, x.s) /\ r.side = SideByte(f, x.t, x.s)
      /\ r.sector = SectorByte(f, x.t, x.n)
  BY DEF WholeOne, WholeRecord
<1>2. /\ x.t \in 0 .. 127 /\ x.s \in 0 .. 1 /\ x.n \in Nat
      /\ x.t = h.t /\ x.s = h.s /\ x.t <= LastTrack(f) /\ x.n < SectorsOf(f)
      /\ f \in OneSided => x.s = 0
  BY HomelyIs DEF Legible, Writable, Sides
<1>3. new = [t |-> h.t, s |-> h.s, n |-> 0, body |-> NoBody, status |-> "MISSING"]
  BY DEF NewSector
<1> HIDE DEF r, new
<1>4. SUFFICES got = Full(new, x.t, x.s, x.n, r, "OK")
  <2>1. Full(new, x.t, x.s, x.n, r, "OK")
        = [t |-> x.t, s |-> x.s, n |-> x.n, body |-> x.body, status |-> "OK"]
    BY <1>1, <1>3 DEF Full
  <2> HIDE DEF got
  <2> QED  BY <2>1 DEF got, r, new
<1> USE DEF TrackByte, SideByte, SectorByte, DecodeWholeRecord, LastTrack, SectorsOf, OneSided,
        WrittenSum, WrittenWhen, Checked
<1>5. CASE f = "aeslanier"
  BY <1>1, <1>2, <1>5 DEF AesLanierSector
<1>6. CASE f = "amiga"
  <2>1. (x.t * 2 + x.s) \div 2 = x.t /\ (x.t * 2 + x.s) % 2 = x.s
    BY <1>2
  <2> QED  BY <1>1, <1>2, <1>6, <2>1 DEF AmigaSector
<1>7. CASE f = "fb100"
  <2>1. x.n \in 0 .. 1 /\ 2 * x.t + x.n \in Nat /\ x.t \in Nat
    BY <1>2, <1>7
  <2>2. (2 * x.t + x.n) \div 2 = x.t /\ (2 * x.t + x.n) % 2 = x.n
    BY <2>1, HalfAndRest
  <2> QED  BY <1>1, <1>2, <1>7, <2>2 DEF Fb100Sector
<1>8. CASE f = "micropolis"
  <2>1. MicropolisTaken(r, h)
    BY <1>1, <1>2, <1>8 DEF MicropolisTaken
  <2>2. MicropolisUses(m, r) \in r.dsum
    BY <1>1, <1>8 DEF MicropolisUses, MicropolisSums
  <2> QED  BY <1>1, <1>2, <1>8, <2>1, <2>2 DEF MicropolisSector
<1>9. CASE f = "mx"
  BY <1>1, <1>2, <1>9 DEF MxSector
<1>10. CASE f = "northstar"
  <2>1. x.n \in 0 .. 9 /\ r.at = 20 * x.n + 1
    BY <1>1, <1>2, <1>10
  <2>2. NorthstarId(r.at) = x.n
    BY <2>1 DEF NorthstarId
  <2> QED  BY <1>1, <1>2, <1>10, <2>2 DEF NorthstarSector
<1>11. CASE f = "zilogmcz"
  <2>1. x.t % 128 = x.t /\ x.n % 32 = x.n /\ x.t <= 80 /\ x.s = 0
    BY <1>2, <1>11
  <2> QED  BY <1>1, <1>2, <1>11, <2>1 DEF ZilogSector
<1> QED  BY <1>5, <1>6, <1>7, <1>8, <1>9, <1>10, <1>11 DEF WholeFormats

\* The track was written from the sectors asked for.
FromSectors ==
    asked # << >> =>
        /\ fmt \in OneSided => home.s = 0
        /\ \E st \in [1 .. MaxSectors -> Statuses] : asked = Asked(home, st)
        /\ disk = OnDisk(fmt, asked)

\* The records of the i-th of them.
Piece(i) == Written(fmt, asked[i], i)

\* The first i of them end at o[i].
Ends(o) == EndsOf(o, MaxSectors, [i \in 1 .. MaxSectors |-> Piece(i)], disk)

\* What was given out are the first k of them.
ReadUp(k) ==
    /\ \A i \in 1 .. k : asked[i].status = "OK" => \E l \in DOMAIN sectors : sectors[l] = asked[i]
    /\ \A l \in DOMAIN sectors : \E i \in 1 .. k :
         asked[i].n = sectors[l].n /\ asked[i].t = sectors[l].t /\ asked[i].s = sectors[l].s
    /\ \A l, m \in DOMAIN sectors : sectors[l].n = sectors[m].n => l = m

\* The reader is behind the first k of them, or in the next.
Reached(o, k) ==
    /\ Ends(o) /\ k \in 0 .. MaxSectors /\ ReadUp(k)
    /\ IF pc = "data"
       THEN /\ k < MaxSectors /\ at = o[k] + 2 /\ Len(Piece(k + 1)) = 2
            /\ sector = Awaiting(asked[k + 1])
       ELSE at = o[k] + 1
    /\ fmt = "mx" => mem.count = k
    /\ fmt = "micropolis" => mem.sums \in {"AUTO", "MICROPOLIS"}

WrittenTrack == asked # << >> /\ Fits /\ pc # "thrown"

RInv ==
    /\ IInv /\ FromSectors
    /\ WrittenTrack => \E o, k : Reached(o, k)
    /\ pc = "done" => NoMore

LEMMA FitsIs ==
    ASSUME Fits
    PROVE  /\ home.t <= LastTrack(fmt) /\ MaxSectors <= SectorsOf(fmt)
           /\ fmt = "ibm" => ~ (IgnoreSide /\ InvertSide = 1)
           /\ fmt = "ibm" => \A n \in 0 .. MaxSectors - 1 : n \notin IgnoreSectors
BY DEF Fits

LEMMA AskedIs ==
    ASSUME Placed, FromSectors, asked # << >>, NEW i \in 1 .. MaxSectors
    PROVE  /\ asked[i] \in Writable /\ asked[i].n = i - 1
           /\ asked[i].t = home.t /\ asked[i].s = home.s
           /\ asked[i].status = "OK" =>
                asked[i] = [t |-> home.t, s |-> home.s, n |-> i - 1, body |-> i - 1, status |-> "OK"]
<1>1. PICK st \in [1 .. MaxSectors -> Statuses] : asked = Asked(home, st)
  BY DEF FromSectors
<1> DEFINE body == IF st[i] = "MISSING" THEN NoBody ELSE i - 1
<1>2. asked[i] = [t |-> home.t, s |-> home.s, n |-> i - 1, status |-> st[i], body |-> body]
  BY <1>1 DEF Asked
<1>3. i - 1 \in Nat /\ body \in Bodies /\ st[i] \in {"OK", "BAD_CHECKSUM", "MISSING"}
      /\ (st[i] = "OK" => body = i - 1)
  BY DecodeAssumption DEF Bodies, Statuses
<1>4. home.t \in Nat /\ home.s \in Sides
  BY PlacedIs, HomelyIs
<1> HIDE DEF body
<1>5. asked[i] \in Writable /\ asked[i].n = i - 1 /\ asked[i].t = home.t /\ asked[i].s = home.s
      /\ asked[i].status = st[i]
  BY <1>2, <1>3, <1>4 DEF Writable
<1> QED  BY <1>2, <1>3, <1>5

\* What is on the track for a sector, and what a decoder makes of it.
LEMMA PieceIs ==
    ASSUME Placed, FromSectors, asked # << >>, Fits, NEW i \in 1 .. MaxSectors
    PROVE  \/ /\ Piece(i) = << >> /\ asked[i].status # "OK"
              /\ fmt \in SplitFormats
           \/ /\ fmt \in SplitFormats
              /\ \E hd : \E body \in Bodies, sum \in Sums :
                   /\ Piece(i) = << hd, DataRecord(body, sum) >>
                   /\ DecodeSectorRecord(fmt, NewSector(home), hd, home) = Awaiting(asked[i])
                   /\ asked[i].status = "OK" => body = asked[i].body /\ sum = "good"
           \/ /\ fmt \in WholeFormats
              /\ \E r :
                   /\ Piece(i) = << r >>
                   /\ fmt = "micropolis" => r.dsum = {"MICROPOLIS"}
                   /\ (fmt = "mx" => mem.count = i - 1)
                      /\ (fmt = "micropolis" => mem.sums \in {"AUTO", "MICROPOLIS"}) =>
                      DecodeWholeRecord(fmt, NewSector(home), r, mem, home)
                      = [t |-> home.t, s |-> home.s, n |-> i - 1, body |-> asked[i].body,
                         status |-> "OK"]
<1>1. fmt \in AllFormats /\ home \in Homely
  BY PlacedIs
<1>2. PICK x : x = asked[i]
  OBVIOUS
<1>3. x \in Writable /\ x.n = i - 1 /\ x.t = home.t /\ x.s = home.s
  BY <1>2, AskedIs
<1>4. MaxSectors \in Nat /\ i \in Nat /\ i - 1 \in 0 .. MaxSectors - 1
  BY DecodeAssumption
<1>5. Legible(fmt, home, x)
  <2>1. fmt \in OneSided => home.s = 0
    BY DEF FromSectors
  <2>2. i - 1 < SectorsOf(fmt)
    <3>1. SectorsOf(fmt) \in Nat
      BY DecodeAssumption DEF SectorsOf
    <3> QED  BY <1>4, <3>1, FitsIs
  <2> QED  BY <1>3, <1>4, <2>1, <2>2, FitsIs DEF Legible
<1>6. Piece(i) = Written(fmt, x, i)
  BY <1>2 DEF Piece
<1>7. CASE fmt \in SplitFormats
  <2>1. CASE Written(fmt, x, i) = << >> /\ x.status # "OK"
    BY <1>2, <1>6, <1>7, <2>1
  <2>2. CASE \E body \in Bodies, sum \in Sums :
               /\ Written(fmt, x, i)
                  = << SplitRecord(fmt, x.t, x.s, x.n, "good"), DataRecord(body, sum) >>
               /\ x.status = "OK" => body = x.body /\ sum = "good"
    <3>1. PICK body \in Bodies, sum \in Sums :
               /\ Written(fmt, x, i)
                  = << SplitRecord(fmt, x.t, x.s, x.n, "good"), DataRecord(body, sum) >>
               /\ x.status = "OK" => body = x.body /\ sum = "good"
      BY <2>2
    <3>2. PICK hd : hd = SplitRecord(fmt, x.t, x.s, x.n, "good")
      OBVIOUS
    <3>3. DecodeSectorRecord(fmt, NewSector(home), hd, home) = Awaiting(x)
      BY <1>1, <1>5, <1>7, <3>2, SplitReads
    <3>4. Piece(i) = << hd, DataRecord(body, sum) >>
      BY <1>6, <3>1, <3>2
    <3>5. DecodeSectorRecord(fmt, NewSector(home), hd, home) = Awaiting(asked[i])
      BY <1>2, <3>3
    <3>6. asked[i].status = "OK" => body = asked[i].body /\ sum = "good"
      BY <1>2, <3>1
    <3> QED  BY <1>7, <3>4, <3>5, <3>6
  <2> QED  BY <1>3, <1>7, <2>1, <2>2, SplitWritten
<1>8. CASE fmt \in WholeFormats
  <2>1. PICK r : r = WholeOne(fmt, x.t, x.s, x.n, "good", x.body, WrittenSum(fmt), WrittenWhen(fmt, i))
    OBVIOUS
  <2>2. Piece(i) = << r >>
    BY <1>6, <1>8, <2>1, WholeWrittenAs
  <2>3. fmt = "micropolis" => r.dsum = {"MICROPOLIS"}
    BY <2>1 DEF WholeOne, WholeRecord, WrittenSum
  <2>4. ASSUME fmt = "mx" => mem.count = i - 1,
               fmt = "micropolis" => mem.sums \in {"AUTO", "MICROPOLIS"}
        PROVE  DecodeWholeRecord(fmt, NewSector(home), r, mem, home)
               = [t |-> home.t, s |-> home.s, n |-> i - 1, body |-> x.body, status |-> "OK"]
    <3>1. PICK m : m = mem
      OBVIOUS
    <3>2. i \in Nat /\ x.n = i - 1
      BY <1>3, <1>4
    <3>3. (fmt = "mx" => m.count = x.n) /\ (fmt = "micropolis" => m.sums \in {"AUTO", "MICROPOLIS"})
      BY <2>4, <3>1, <3>2
    <3>4. DecodeWholeRecord(fmt, NewSector(home),
            WholeOne(fmt, x.t, x.s, x.n, "good", x.body, WrittenSum(fmt), WrittenWhen(fmt, i)), m, home)
          = [t |-> x.t, s |-> x.s, n |-> x.n, body |-> x.body, status |-> "OK"]
      BY <1>1, <1>5, <1>8, <3>2, <3>3, WholeReads
    <3> QED  BY <1>3, <2>1, <3>1, <3>4
  <2> QED  BY <1>2, <1>8, <2>2, <2>3, <2>4
<1> QED  BY <1>1, <1>7, <1>8 DEF AllFormats

\* The numbers of the ends.
LEMMA EndsAre ==
    ASSUME Placed, FromSectors, asked # << >>, Fits, NEW o, Ends(o)
    PROVE  /\ MaxSectors \in Nat /\ o[0] = 0 /\ o[MaxSectors] = Len(disk)
           /\ \A i \in 0 .. MaxSectors : o[i] \in Nat
           /\ \A i \in 1 .. MaxSectors :
                /\ o[i] = o[i - 1] + Len(Piece(i)) /\ Len(Piece(i)) \in 0 .. 2
                /\ Len(Piece(i)) = 0 => asked[i].status # "OK" /\ fmt \in SplitFormats
                /\ \A m \in 1 .. Len(Piece(i)) : disk[o[i - 1] + m] = Piece(i)[m]
           /\ \A a, b \in 0 .. MaxSectors : a <= b => o[a] <= o[b]
<1>1. MaxSectors \in Nat
  BY DecodeAssumption
<1>2. ASSUME NEW i \in 1 .. MaxSectors
      PROVE  /\ Len(Piece(i)) \in 0 .. 2
             /\ Len(Piece(i)) = 0 => asked[i].status # "OK" /\ fmt \in SplitFormats
  <2>1. \/ Piece(i) = << >> /\ asked[i].status # "OK" /\ fmt \in SplitFormats
        \/ \E hd, data : Piece(i) = << hd, data >>
        \/ \E r : Piece(i) = << r >>
    BY PieceIs
  <2>2. CASE \E hd, data : Piece(i) = << hd, data >>
    BY <2>2
  <2>3. CASE \E r : Piece(i) = << r >>
    BY <2>3
  <2> QED  BY <2>1, <2>2, <2>3
<1>3. /\ o \in [0 .. MaxSectors -> Nat] /\ o[0] = 0 /\ o[MaxSectors] = Len(disk)
      /\ \A i \in 1 .. MaxSectors :
           /\ o[i] = o[i - 1] + Len(Piece(i))
           /\ \A m \in 1 .. Len(Piece(i)) : disk[o[i - 1] + m] = Piece(i)[m]
  BY DEF Ends, EndsOf
<1>4. \A i \in 1 .. MaxSectors : o[i - 1] <= o[i]
  <2> SUFFICES ASSUME NEW i \in 1 .. MaxSectors PROVE o[i - 1] <= o[i]
    OBVIOUS
  <2>1. i - 1 \in 0 .. MaxSectors
    BY <1>1
  <2>2. o[i - 1] \in Nat
    BY <1>3, <2>1
  <2> QED  BY <1>2, <1>3, <2>2
<1>5. \A a, b \in 0 .. MaxSectors : a <= b => o[a] <= o[b]
  BY <1>1, <1>3, <1>4, RisingEnds
<1> QED  BY <1>1, <1>2, <1>3, <1>5

\* Between two ends in the same place nothing was written.
LEMMA NothingBetween ==
    ASSUME Placed, FromSectors, asked # << >>, Fits, NEW o, Ends(o),
           NEW a \in 0 .. MaxSectors, NEW b \in 0 .. MaxSectors, a <= b, o[a] = o[b]
    PROVE  /\ \A i \in a + 1 .. b : i \in 1 .. MaxSectors /\ asked[i].status # "OK"
           /\ fmt \notin SplitFormats => a = b
<1>1. ASSUME NEW i \in a + 1 .. b
      PROVE  i \in 1 .. MaxSectors /\ asked[i].status # "OK" /\ fmt \in SplitFormats
  <2>1. i \in 1 .. MaxSectors /\ i \in 0 .. MaxSectors /\ i - 1 \in 0 .. MaxSectors
        /\ a <= i - 1 /\ i <= b
    BY EndsAre
  <2>2. o[a] <= o[i - 1] /\ o[i] <= o[b] /\ o[i] = o[i - 1] + Len(Piece(i))
        /\ Len(Piece(i)) \in 0 .. 2 /\ o[i] \in Nat /\ o[i - 1] \in Nat /\ o[a] \in Nat
    BY <2>1, EndsAre
  <2>3. Len(Piece(i)) = 0
    BY <2>2
  <2> QED  BY <2>1, <2>3, EndsAre
<1>2. a # b => b \in a + 1 .. b
  BY EndsAre
<1> QED  BY <1>1, <1>2

\* The next piece of the track that there is something of.
LEMMA NextPiece ==
    ASSUME Placed, FromSectors, asked # << >>, Fits, NEW o, Ends(o),
           NEW k \in 0 .. MaxSectors, o[k] < Len(disk)
    PROVE  \E q \in k .. MaxSectors - 1 :
             o[q] = o[k] /\ q \in 0 .. MaxSectors /\ Len(Piece(q + 1)) # 0
<1> DEFINE S == {j \in k .. MaxSectors : o[j] # o[k]}
<1>1. MaxSectors \in Nat /\ k \in Nat
  BY EndsAre
<1>2. MaxSectors \in S /\ S \in SUBSET Nat
  <2>1. o[MaxSectors] # o[k] /\ MaxSectors \in k .. MaxSectors
    BY <1>1, EndsAre
  <2> QED  BY <1>1, <2>1
<1>3. PICK j \in S : \A i \in S : j <= i
  <2> HIDE DEF S
  <2> QED  BY <1>2, LeastOf
<1>4. j \in k .. MaxSectors /\ o[j] # o[k]
  OBVIOUS
<1>5. j # k
  BY <1>4
<1>6. j - 1 \in k .. MaxSectors /\ j - 1 \in k .. MaxSectors - 1 /\ j \in 1 .. MaxSectors
      /\ j - 1 \in 0 .. MaxSectors
  BY <1>1, <1>4, <1>5
<1>7. j - 1 \notin S
  <2> HIDE DEF S
  <2> QED  BY <1>1, <1>3, <1>6
<1>8. o[j - 1] = o[k]
  BY <1>6, <1>7
<1>9. Len(Piece(j)) # 0
  <2>1. o[j] = o[j - 1] + Len(Piece(j)) /\ o[j - 1] \in Nat
    BY <1>6, EndsAre
  <2> QED  BY <1>4, <1>8, <2>1
<1>10. PICK q : q = j - 1
  OBVIOUS
<1>11. q + 1 = j
  BY <1>6, <1>10
<1> QED  BY <1>6, <1>8, <1>9, <1>10, <1>11

LEMMA SkipOver ==
    ASSUME NEW k \in Nat, NEW q \in Nat, k <= q, ReadUp(k),
           \A i \in k + 1 .. q : asked[i].status # "OK"
    PROVE  ReadUp(q)
<1>1. \A i \in 1 .. q : i \in 1 .. k \/ i \in k + 1 .. q
  OBVIOUS
<1>2. \A i \in 1 .. k : i \in 1 .. q
  OBVIOUS
<1> QED  BY <1>1, <1>2 DEF ReadUp

\* The next sector is given out.
LEMMA GiveBack ==
    ASSUME Placed, Given, FromSectors, asked # << >>, NEW k \in 0 .. MaxSectors - 1, ReadUp(k),
           NEW x, sectors' = Append(sectors, x), asked' = asked,
           x.n = k, x.t = home.t, x.s = home.s,
           asked[k + 1].status = "OK" => x = asked[k + 1]
    PROVE  ReadUp(k + 1)'
<1>1. sectors \in Seq(Sector)
  BY DEF Given
<1>2. /\ DOMAIN sectors = 1 .. Len(sectors) /\ Len(sectors) \in Nat
      /\ DOMAIN sectors' = 1 .. Len(sectors) + 1
      /\ sectors'[Len(sectors) + 1] = x
      /\ \A l \in 1 .. Len(sectors) : sectors'[l] = sectors[l]
  BY <1>1
<1>3. /\ MaxSectors \in Nat /\ k \in Nat /\ k + 1 \in 1 .. MaxSectors
      /\ \A i \in 1 .. k : i \in 1 .. MaxSectors /\ i \in 1 .. k + 1
      /\ \A i \in 1 .. k + 1 : i \in 1 .. k \/ i = k + 1
  BY DecodeAssumption
<1>4. \A i \in 1 .. k : asked[i].n # k
  <2> SUFFICES ASSUME NEW i \in 1 .. k PROVE asked[i].n # k
    OBVIOUS
  <2>1. asked[i].n = i - 1
    BY <1>3, AskedIs
  <2> QED  BY <1>3, <2>1
<1>5. asked[k + 1].n = k /\ asked[k + 1].t = home.t /\ asked[k + 1].s = home.s
  <2>1. PICK j \in 1 .. MaxSectors : j = k + 1
    BY <1>3
  <2>2. asked[j].n = j - 1 /\ asked[j].t = home.t /\ asked[j].s = home.s
    BY AskedIs
  <2> QED  BY <1>3, <2>1, <2>2
<1>6. ASSUME NEW i \in 1 .. k + 1, asked[i].status = "OK"
      PROVE  \E l \in DOMAIN sectors' : sectors'[l] = asked[i]
  <2>1. CASE i = k + 1
    BY <1>2, <1>6, <2>1
  <2>2. CASE i \in 1 .. k
    <3>1. PICK l \in DOMAIN sectors : sectors[l] = asked[i]
      BY <1>6, <2>2 DEF ReadUp
    <3> QED  BY <1>2, <3>1
  <2> QED  BY <1>3, <2>1, <2>2
<1>7. ASSUME NEW l \in DOMAIN sectors'
      PROVE  \E i \in 1 .. k + 1 :
               asked[i].n = sectors'[l].n /\ asked[i].t = sectors'[l].t /\ asked[i].s = sectors'[l].s
  <2>1. CASE l = Len(sectors) + 1
    <3>1. k + 1 \in 1 .. k + 1
      BY <1>3
    <3> QED  BY <1>2, <1>5, <2>1, <3>1
  <2>2. CASE l \in 1 .. Len(sectors)
    <3>1. PICK i \in 1 .. k :
             asked[i].n = sectors[l].n /\ asked[i].t = sectors[l].t /\ asked[i].s = sectors[l].s
      BY <1>2, <2>2 DEF ReadUp
    <3> QED  BY <1>2, <1>3, <2>2, <3>1
  <2> QED  BY <1>2, <2>1, <2>2
<1>8. \A l \in 1 .. Len(sectors) : sectors[l].n # k
  BY <1>2, <1>4 DEF ReadUp
<1>9. \A l, m \in DOMAIN sectors' : sectors'[l].n = sectors'[m].n => l = m
  <2>1. \A l, m \in 1 .. Len(sectors) : sectors[l].n = sectors[m].n => l = m
    BY <1>2 DEF ReadUp
  <2>2. \A l \in DOMAIN sectors' : l \in 1 .. Len(sectors) \/ l = Len(sectors) + 1
    BY <1>2
  <2> QED  BY <1>2, <1>8, <2>1, <2>2
<1> QED  BY <1>6, <1>7, <1>9 DEF ReadUp

\* A written track and its pieces stay.
LEMMA PiecesStay ==
    ASSUME UNCHANGED <<fmt, home, disk, asked>>
    PROVE  /\ \A i : Piece(i)' = Piece(i)
           /\ \A o : Ends(o)' <=> Ends(o)
           /\ FromSectors' <=> FromSectors
           /\ Fits' <=> Fits
<1>1. \A i : Piece(i)' = Piece(i)
  BY DEF Piece
<1>2. \A o : Ends(o)' <=> Ends(o)
  BY <1>1 DEF Ends, EndsOf
<1> QED  BY <1>1, <1>2 DEF FromSectors, Fits

\* The reader is before a piece that there is something of.
LEMMA Onward ==
    ASSUME IInv, FromSectors, asked # << >>, Fits, pc = "header", ~ NoMore,
           NEW o, NEW k, Reached(o, k)
    PROVE  \E q \in 0 .. MaxSectors - 1 : Reached(o, q) /\ Len(Piece(q + 1)) # 0
<1>1. Placed /\ at \in Nat /\ Len(disk) \in Nat
  BY PlacedIs DEF IInv, TypeOK
<1>2. /\ Ends(o) /\ k \in 0 .. MaxSectors /\ ReadUp(k) /\ at = o[k] + 1
      /\ fmt = "mx" => mem.count = k
      /\ fmt = "micropolis" => mem.sums \in {"AUTO", "MICROPOLIS"}
  BY DEF Reached
<1>3. o[k] < Len(disk)
  <2>1. o[k] \in Nat
    BY <1>1, <1>2, EndsAre
  <2> QED  BY <1>1, <1>2, <2>1 DEF NoMore
<1>4. PICK q \in k .. MaxSectors - 1 :
        o[q] = o[k] /\ q \in 0 .. MaxSectors /\ Len(Piece(q + 1)) # 0
  BY <1>1, <1>2, <1>3, NextPiece
<1>5. MaxSectors \in Nat /\ k \in Nat /\ q \in Nat /\ k <= q /\ q \in 0 .. MaxSectors - 1
  BY <1>2, <1>4, DecodeAssumption
<1>6. /\ \A i \in k + 1 .. q : asked[i].status # "OK"
      /\ fmt \notin SplitFormats => k = q
  BY <1>1, <1>2, <1>4, <1>5, NothingBetween
<1>7. ReadUp(q)
  BY <1>2, <1>5, <1>6, SkipOver
<1>8. fmt = "mx" => mem.count = q
  BY <1>2, <1>6 DEF SplitFormats
<1>9. Reached(o, q)
  BY <1>2, <1>4, <1>7, <1>8 DEF Reached
<1> QED  BY <1>4, <1>5, <1>9

\* The data is where the reader looks for it.
LEMMA DataIsThere ==
    ASSUME IInv, FromSectors, asked # << >>, Fits, pc = "data", NEW o, NEW k, Reached(o, k)
    PROVE  /\ fmt \in SplitFormats /\ k \in 0 .. MaxSectors - 1 /\ k + 1 \in 1 .. MaxSectors
           /\ at <= Len(disk) /\ at + 1 = o[k + 1] + 1
           /\ \E body \in Bodies, sum \in Sums :
                /\ disk[at] = DataRecord(body, sum)
                /\ asked[k + 1].status = "OK" => body = asked[k + 1].body /\ sum = "good"
<1>1. Placed /\ fmt \in SplitFormats
  BY DEF IInv, Searching
<1>2. Ends(o) /\ k \in 0 .. MaxSectors /\ k < MaxSectors /\ at = o[k] + 2 /\ Len(Piece(k + 1)) = 2
  BY DEF Reached
<1>3. MaxSectors \in Nat /\ k \in 0 .. MaxSectors - 1 /\ k + 1 \in 1 .. MaxSectors
  BY <1>2, DecodeAssumption
<1>4. PICK i \in 1 .. MaxSectors : i = k + 1
  BY <1>3
<1>5. fmt \notin WholeFormats
  BY <1>1, FormatsApart
<1>6. PICK body \in Bodies, sum \in Sums :
        /\ \E hd : Piece(i) = << hd, DataRecord(body, sum) >>
        /\ asked[i].status = "OK" => body = asked[i].body /\ sum = "good"
  <2>1. Len(Piece(i)) = 2
    BY <1>2, <1>4
  <2> QED  BY <1>1, <1>5, <2>1, PieceIs
<1>7. i - 1 = k /\ i \in 0 .. MaxSectors
  BY <1>3, <1>4
<1>8. /\ o[i] = o[k] + 2 /\ o[k] \in Nat /\ o[i] <= o[MaxSectors] /\ o[MaxSectors] = Len(disk)
      /\ disk[o[k] + 2] = Piece(i)[2]
  <2>1. /\ o[i] = o[i - 1] + Len(Piece(i))
        /\ \A m \in 1 .. Len(Piece(i)) : disk[o[i - 1] + m] = Piece(i)[m]
    BY <1>1, <1>2, EndsAre
  <2>2. o[k] \in Nat /\ o[i] <= o[MaxSectors] /\ o[MaxSectors] = Len(disk)
    BY <1>1, <1>2, <1>3, <1>7, EndsAre
  <2>3. Len(Piece(i)) = 2 /\ o[i - 1] = o[k]
    BY <1>2, <1>4, <1>7
  <2>4. o[i] = o[k] + 2
    BY <2>1, <2>3
  <2>5. disk[o[k] + 2] = Piece(i)[2]
    BY <2>1, <2>3
  <2> QED  BY <2>2, <2>4, <2>5
<1>9. disk[at] = DataRecord(body, sum)
  BY <1>2, <1>6, <1>8
<1>10. at <= Len(disk) /\ at + 1 = o[i] + 1
  <2>1. Len(disk) \in Nat
    BY <1>1, PlacedIs
  <2>2. at = o[i]
    BY <1>2, <1>8
  <2> QED  BY <1>8, <2>1, <2>2
<1> QED  BY <1>1, <1>3, <1>4, <1>6, <1>9, <1>10

\* Behind the next sector.
LEMMA NextReached ==
    ASSUME IInv, FromSectors, asked # << >>, UNCHANGED <<fmt, home, disk, asked>>,
           NEW o, Ends(o), NEW k \in 0 .. MaxSectors - 1, ReadUp(k), at' = o[k + 1] + 1,
           NEW x, Push(x), x.n = k, x.t = home.t, x.s = home.s,
           asked[k + 1].status = "OK" => x = asked[k + 1],
           fmt = "mx" => mem'.count = k + 1,
           fmt = "micropolis" => mem'.sums \in {"AUTO", "MICROPOLIS"}
    PROVE  Reached(o, k + 1)' /\ pc' = "header"
<1>1. Placed /\ Given
  BY DEF IInv
<1>2. sectors' = Append(sectors, x) /\ pc' = "header"
  BY <1>1, PlacedIs DEF Push
<1>3. ReadUp(k + 1)'
  BY <1>1, <1>2, GiveBack
<1>4. k + 1 \in 0 .. MaxSectors
  BY DecodeAssumption
<1>5. Ends(o)'
  BY PiecesStay
<1> QED  BY <1>2, <1>3, <1>4, <1>5 DEF Reached

RStep ==
    /\ FromSectors'
    /\ WrittenTrack' => \E o, k : Reached(o, k)'
    /\ (pc = "done" => NoMore)'

LEMMA ReadHeaderReaches == RInv /\ ReadHeader => RStep
<1> SUFFICES ASSUME RInv, ReadHeader PROVE RStep
  OBVIOUS
<1>1. /\ IInv /\ FromSectors /\ Placed /\ pc = "header" /\ ~ NoMore
      /\ UNCHANGED <<fmt, home, disk, asked>> /\ at' = at + 1
  BY DEF RInv, IInv, ReadHeader
<1>2. FromSectors' /\ (Fits' <=> Fits)
  BY <1>1, PiecesStay
<1>3. pc' # "done"
  BY <1>1 DEF ReadHeader, Push
<1>4. SUFFICES ASSUME asked # << >>, Fits PROVE \E o, k : Reached(o, k)'
  BY <1>1, <1>2, <1>3 DEF RStep, WrittenTrack
<1>5. PICK o, k : Reached(o, k)
  BY <1>1, <1>4 DEF RInv, WrittenTrack
<1>6. PICK q \in 0 .. MaxSectors - 1 : Reached(o, q) /\ Len(Piece(q + 1)) # 0
  BY <1>1, <1>4, <1>5, Onward
<1>7. /\ Ends(o) /\ ReadUp(q) /\ at = o[q] + 1
      /\ fmt = "mx" => mem.count = q
      /\ fmt = "micropolis" => mem.sums \in {"AUTO", "MICROPOLIS"}
  BY <1>1, <1>6 DEF Reached
<1>8. PICK i \in 1 .. MaxSectors : i = q + 1 /\ i - 1 = q
  BY <1>6, DecodeAssumption
<1>9. /\ o[q] \in Nat /\ o[i] = o[q] + Len(Piece(i)) /\ Len(Piece(i)) \in 1 .. 2
      /\ disk[o[q] + 1] = Piece(i)[1]
  <2>1. /\ o[i] = o[i - 1] + Len(Piece(i)) /\ Len(Piece(i)) \in 0 .. 2
        /\ \A m \in 1 .. Len(Piece(i)) : disk[o[i - 1] + m] = Piece(i)[m]
    BY <1>1, <1>4, <1>7, EndsAre
  <2>2. q \in 0 .. MaxSectors
    BY <1>6, DecodeAssumption
  <2>3. o[q] \in Nat
    BY <1>1, <1>4, <1>7, <2>2, EndsAre
  <2>4. Len(Piece(i)) \in 1 .. 2
    BY <1>6, <1>8, <2>1
  <2>5. disk[o[i - 1] + 1] = Piece(i)[1]
    BY <2>1, <2>4
  <2> QED  BY <1>8, <2>1, <2>3, <2>4, <2>5
<1>10. PICK r : r = disk[at]
  OBVIOUS
<1>11. r = Piece(i)[1]
  BY <1>7, <1>9, <1>10
<1>12. PICK x : x = IF fmt \in SplitFormats
                    THEN DecodeSectorRecord(fmt, NewSector(home), r, home)
                    ELSE DecodeWholeRecord(fmt, NewSector(home), r, mem, home)
  OBVIOUS
<1>13. /\ sector' = x /\ mem' = Remembers(r)
       /\ x.status = "DATA_MISSING" => pc' = "data" /\ UNCHANGED sectors
       /\ x.status \notin {"DATA_MISSING", "MISSING"} => Push(x)
  BY <1>10, <1>12 DEF ReadHeader
<1>14. CASE fmt \in SplitFormats
  <2>1. fmt \notin WholeFormats /\ fmt # "mx" /\ fmt # "micropolis"
    BY <1>14 DEF SplitFormats, WholeFormats
  <2>2. /\ Len(Piece(i)) = 2
        /\ DecodeSectorRecord(fmt, NewSector(home), Piece(i)[1], home) = Awaiting(asked[i])
    <3>1. PICK hd : \E data :
            /\ Piece(i) = << hd, data >>
            /\ DecodeSectorRecord(fmt, NewSector(home), hd, home) = Awaiting(asked[i])
      <4>1. Piece(i) # << >>
        BY <1>9
      <4> QED  BY <1>1, <1>4, <2>1, <4>1, PieceIs
    <3>2. Len(Piece(i)) = 2 /\ Piece(i)[1] = hd
      BY <3>1
    <3> QED  BY <3>1, <3>2
  <2>3. x = Awaiting(asked[i]) /\ x.status = "DATA_MISSING"
    BY <1>11, <1>12, <1>14, <2>2 DEF Awaiting
  <2>4. sector' = Awaiting(asked[i]) /\ pc' = "data" /\ UNCHANGED sectors
    BY <1>13, <2>3
  <2>5. at' = o[q] + 2 /\ q \in 0 .. MaxSectors /\ q < MaxSectors
    BY <1>1, <1>6, <1>7, <1>9, DecodeAssumption
  <2>6. ReadUp(q)'
    BY <1>1, <1>7, <2>4 DEF ReadUp
  <2>7. Ends(o)' /\ Piece(q + 1)' = Piece(q + 1)
    BY <1>1, <1>7, PiecesStay
  <2>8. Awaiting(asked[q + 1])' = Awaiting(asked[i])
    BY <1>1, <1>8 DEF Awaiting
  <2>9. Reached(o, q)'
    BY <1>1, <1>8, <2>1, <2>2, <2>4, <2>5, <2>6, <2>7, <2>8 DEF Reached
  <2> QED  BY <2>9
<1>15. CASE fmt \in WholeFormats
  <2>1. fmt \notin SplitFormats
    BY <1>15, FormatsApart
  <2>2. /\ Len(Piece(i)) = 1
        /\ fmt = "micropolis" => r.dsum = {"MICROPOLIS"}
        /\ DecodeWholeRecord(fmt, NewSector(home), r, mem, home)
           = [t |-> home.t, s |-> home.s, n |-> i - 1, body |-> asked[i].body, status |-> "OK"]
    <3>1. PICK w :
            /\ Piece(i) = << w >>
            /\ fmt = "micropolis" => w.dsum = {"MICROPOLIS"}
            /\ (fmt = "mx" => mem.count = i - 1)
               /\ (fmt = "micropolis" => mem.sums \in {"AUTO", "MICROPOLIS"}) =>
               DecodeWholeRecord(fmt, NewSector(home), w, mem, home)
               = [t |-> home.t, s |-> home.s, n |-> i - 1, body |-> asked[i].body,
                  status |-> "OK"]
      BY <1>1, <1>4, <2>1, PieceIs
    <3>2. Len(Piece(i)) = 1 /\ w = r
      BY <1>11, <3>1
    <3> QED  BY <1>7, <1>8, <3>1, <3>2
  <2>3. x = [t |-> home.t, s |-> home.s, n |-> q, body |-> asked[i].body, status |-> "OK"]
    BY <1>8, <1>12, <2>1, <2>2
  <2>4. x.n = q /\ x.t = home.t /\ x.s = home.s /\ Push(x)
    BY <1>13, <2>3
  <2>5. asked[q + 1].status = "OK" => x = asked[q + 1]
    <3>1. asked[i].status = "OK" =>
            asked[i] = [t |-> home.t, s |-> home.s, n |-> i - 1, body |-> i - 1, status |-> "OK"]
      BY <1>1, <1>4, AskedIs
    <3> QED  BY <1>8, <2>3, <3>1
  <2>6. at' = o[q + 1] + 1
    BY <1>1, <1>7, <1>8, <1>9, <2>2
  <2>7. fmt = "mx" => mem'.count = q + 1
    BY <1>7, <1>13 DEF Remembers
  <2>8. fmt = "micropolis" => mem'.sums \in {"AUTO", "MICROPOLIS"}
    BY <1>7, <1>13, <2>2 DEF Remembers, MicropolisSums
  <2>9. Reached(o, q + 1)'
    BY <1>1, <1>4, <1>6, <1>7, <2>4, <2>5, <2>6, <2>7, <2>8, NextReached
  <2> QED  BY <2>9
<1> QED  BY <1>1, <1>14, <1>15, PlacedIs DEF AllFormats

LEMMA ReadDataReaches == RInv /\ ReadData => RStep
<1> SUFFICES ASSUME RInv, ReadData PROVE RStep
  OBVIOUS
<1>1. /\ IInv /\ FromSectors /\ Placed /\ pc = "data"
      /\ UNCHANGED <<fmt, home, disk, asked, mem>> /\ at' = at + 1
  BY DEF RInv, IInv, ReadData
<1>2. FromSectors' /\ (Fits' <=> Fits)
  BY <1>1, PiecesStay
<1>3. pc' # "done"
  BY <1>1 DEF ReadData, Push
<1>4. SUFFICES ASSUME asked # << >>, Fits PROVE \E o, k : Reached(o, k)'
  BY <1>1, <1>2, <1>3 DEF RStep, WrittenTrack
<1>5. PICK o, k : Reached(o, k)
  BY <1>1, <1>4 DEF RInv, WrittenTrack
<1>6. /\ fmt \in SplitFormats /\ k \in 0 .. MaxSectors - 1 /\ k + 1 \in 1 .. MaxSectors
      /\ at' = o[k + 1] + 1
  BY <1>1, <1>4, <1>5, DataIsThere
<1>7. PICK body \in Bodies, sum \in Sums :
        /\ disk[at] = DataRecord(body, sum)
        /\ asked[k + 1].status = "OK" => body = asked[k + 1].body /\ sum = "good"
  BY <1>1, <1>4, <1>5, DataIsThere
<1>8. Ends(o) /\ ReadUp(k) /\ sector = Awaiting(asked[k + 1])
  BY <1>1, <1>5 DEF Reached
<1>9. PICK i \in 1 .. MaxSectors : i = k + 1 /\ i - 1 = k
  BY <1>6
<1>10. /\ asked[i].n = k /\ asked[i].t = home.t /\ asked[i].s = home.s
       /\ asked[i].status = "OK" =>
            asked[i] = [t |-> home.t, s |-> home.s, n |-> k, body |-> k, status |-> "OK"]
  <2>1. /\ asked[i].n = i - 1 /\ asked[i].t = home.t /\ asked[i].s = home.s
        /\ asked[i].status = "OK" =>
             asked[i] = [t |-> home.t, s |-> home.s, n |-> i - 1, body |-> i - 1, status |-> "OK"]
    BY <1>1, <1>4, AskedIs
  <2> QED  BY <1>9, <2>1
<1>11. sector = [t |-> home.t, s |-> home.s, n |-> k, body |-> NoBody, status |-> "DATA_MISSING"]
  BY <1>8, <1>9, <1>10 DEF Awaiting
<1>12. PICK x : x = DecodeDataRecord(fmt, sector, disk[at])
  OBVIOUS
<1>13. x = [t |-> home.t, s |-> home.s, n |-> k, body |-> body, status |-> Checked(sum)]
  <2>1. x = [sector EXCEPT !.body = body, !.status = Checked(sum)]
    BY <1>7, <1>12 DEF DecodeDataRecord, AgatData, PlainData, DataRecord, Sums
  <2> QED  BY <1>11, <2>1
<1>14. x.n = k /\ x.t = home.t /\ x.s = home.s /\ x.status # "DATA_MISSING"
  BY <1>13 DEF Checked
<1>15. Push(x)
  BY <1>12, <1>14 DEF ReadData
<1>16. asked[k + 1].status = "OK" => x = asked[k + 1]
  BY <1>7, <1>9, <1>10, <1>13 DEF Checked
<1>17. fmt # "mx" /\ fmt # "micropolis"
  BY <1>6 DEF SplitFormats
<1>18. Reached(o, k + 1)'
  BY <1>1, <1>4, <1>6, <1>8, <1>14, <1>15, <1>16, <1>17, NextReached
<1> QED  BY <1>18

LEMMA DataNeverCameReaches == RInv /\ DataNeverCame => RStep
<1> SUFFICES ASSUME RInv, DataNeverCame PROVE RStep
  OBVIOUS
<1>1. /\ IInv /\ FromSectors /\ Placed /\ pc = "data" /\ NoMore
      /\ UNCHANGED <<fmt, home, disk, asked>>
  BY DEF RInv, IInv, DataNeverCame
<1>2. FromSectors' /\ (Fits' <=> Fits)
  BY <1>1, PiecesStay
<1>3. pc' # "done"
  BY <1>1 DEF DataNeverCame, Push
<1>4. ~ (asked # << >> /\ Fits)
  <2> SUFFICES ASSUME asked # << >>, Fits PROVE FALSE
    OBVIOUS
  <2>1. PICK o, k : Reached(o, k)
    BY <1>1 DEF RInv, WrittenTrack
  <2>2. at <= Len(disk) /\ fmt \in SplitFormats
    BY <1>1, <2>1, DataIsThere
  <2>3. at \in Nat /\ Len(disk) \in Nat /\ fmt # "mx"
    BY <1>1, <2>2, PlacedIs DEF IInv, TypeOK, SplitFormats
  <2> QED  BY <1>1, <2>2, <2>3 DEF NoMore
<1> QED  BY <1>1, <1>2, <1>3, <1>4 DEF RStep, WrittenTrack

\* Nothing is read and nothing given out.
LEMMA RestReaches ==
    ASSUME RInv, UNCHANGED <<fmt, home, disk, asked, at, sectors, mem>>,
           (pc' = pc /\ sector' = sector) \/ (pc = "header" /\ pc' = "done" /\ NoMore)
    PROVE  RStep
<1>1. FromSectors' /\ (Fits' <=> Fits) /\ (NoMore' <=> NoMore)
  BY PiecesStay DEF RInv, NoMore
<1>2. ASSUME asked # << >>, Fits, pc' # "thrown" PROVE \E o, k : Reached(o, k)'
  <2>1. PICK o, k : Reached(o, k)
    BY <1>2 DEF RInv, WrittenTrack
  <2>2. Ends(o)' /\ k \in 0 .. MaxSectors /\ Piece(k + 1)' = Piece(k + 1)
    BY <2>1, PiecesStay DEF Reached
  <2>3. ReadUp(k)'
    BY <2>1 DEF Reached, ReadUp
  <2>4. Reached(o, k)'
    BY <2>1, <2>2, <2>3 DEF Reached, Awaiting
  <2> QED  BY <2>4
<1>3. (pc = "done" => NoMore)'
  BY <1>1 DEF RInv
<1>4. WrittenTrack' => asked # << >> /\ Fits /\ pc' # "thrown"
  BY <1>1 DEF WrittenTrack
<1>5. FromSectors'
  BY <1>1 DEF RInv
<1> QED  BY <1>2, <1>3, <1>4, <1>5 DEF RStep

LEMMA StepReaches == RInv /\ [Next]_vars => RInv'
<1> SUFFICES ASSUME RInv, [Next]_vars PROVE RInv'
  OBVIOUS
<1>1. IInv'
  BY InvariantKept DEF RInv
<1>2. SUFFICES RStep
  BY <1>1 DEF RInv, RStep
<1>3. CASE ReadHeader
  BY <1>3, ReadHeaderReaches
<1>4. CASE ReadData
  BY <1>4, ReadDataReaches
<1>5. CASE DataNeverCame
  BY <1>5, DataNeverCameReaches
<1>6. CASE TrackEnds
  BY <1>6, RestReaches DEF TrackEnds
<1>7. CASE UNCHANGED vars
  <2>1. UNCHANGED <<fmt, home, disk, asked, at, pc, sector, sectors, mem>>
    BY <1>7 DEF vars
  <2> QED  BY <2>1, RestReaches
<1> QED  BY <1>3, <1>4, <1>5, <1>6, <1>7 DEF Next

LEMMA InitReaches == Init => RInv
<1> SUFFICES ASSUME Init PROVE RInv
  OBVIOUS
<1>1. IInv /\ Placed /\ pc # "done" /\ pc # "data"
      /\ at = 1 /\ sectors = << >> /\ mem.count = 0 /\ mem.sums = "AUTO"
  BY InitHolds DEF Init, IInv
<1>2. FromSectors
  <2> SUFFICES ASSUME asked # << >> PROVE FromSectors
    BY DEF FromSectors
  <2>1. PICK h \in Homes, st \in [1 .. MaxSectors -> Statuses] :
          /\ fmt \in OneSided => h.s = 0
          /\ home = h /\ asked = Asked(h, st) /\ disk = OnDisk(fmt, asked)
    BY DEF Init
  <2> QED  BY <2>1 DEF FromSectors
<1>3. ASSUME asked # << >> PROVE \E o, k : Reached(o, k)
  <2>1. PICK st \in [1 .. MaxSectors -> Statuses] : asked = Asked(home, st)
    BY <1>2, <1>3 DEF FromSectors
  <2>2. DOMAIN asked = 1 .. MaxSectors
    BY <2>1 DEF Asked
  <2>3. MaxSectors \in Nat \ {0} /\ MaxSectors <= 32
    <3>1. CASE MaxSectors = 0
      BY <1>3, <2>1, <3>1 DEF Asked
    <3> QED  BY <3>1, DecodeAssumption
  <2> DEFINE ss == [i \in 1 .. MaxSectors |-> Piece(i)]
             R == Records(fmt, home)
  <2>4. ASSUME NEW i \in 1 .. MaxSectors PROVE Piece(i) \in Seq(R)
    <3>1. fmt \in AllFormats /\ home \in Homely
      BY <1>1, PlacedIs
    <3>2. PICK x : x = asked[i]
      OBVIOUS
    <3>3. x \in Writable /\ x.n = i - 1 /\ x.t = home.t /\ x.s = home.s
      BY <1>1, <1>2, <1>3, <3>2, AskedIs
    <3>4. i \in Nat \ {0} /\ x.n <= 31
      BY <2>3, <3>3
    <3>5. Written(fmt, x, i) \in Seq(R)
      BY <3>1, <3>3, <3>4, WrittenIn
    <3> QED  BY <3>2, <3>5 DEF Piece
  <2>5. disk = FlattenSeq(ss)
    BY <1>2, <1>3, <2>2 DEF FromSectors, OnDisk, Piece
  <2> HIDE DEF R
  <2>6. ss \in [1 .. MaxSectors -> Seq(R)]
    BY <2>4
  <2>7. \E o : EndsOf(o, MaxSectors, ss, disk)
    <3> HIDE DEF ss
    <3> QED  BY <2>3, <2>5, <2>6, FlattenEnds
  <2>8. PICK o : Ends(o)
    BY <2>7 DEF Ends
  <2>9. o[0] = 0 /\ 0 \in 0 .. MaxSectors
    BY <2>3, <2>8 DEF Ends, EndsOf
  <2>10. ReadUp(0)
    BY <1>1 DEF ReadUp
  <2>11. Reached(o, 0)
    BY <1>1, <2>8, <2>9, <2>10 DEF Reached
  <2> QED  BY <2>11
<1> QED  BY <1>1, <1>2, <1>3 DEF RInv, WrittenTrack

\* A track that an encoder wrote is read back by the decoder of its format,
\* whatever sectors it was written from: each good one comes out as it went in,
\* none twice and none under a number that was not written (the encoders and
\* decoders of src/arch).
THEOREM WhatIsWrittenIsRead == Spec => []RoundTrip
<1>1. Init => RInv
  BY InitReaches
<1>2. RInv /\ [Next]_vars => RInv'
  BY StepReaches
<1>3. RInv => RoundTrip
  <2> SUFFICES ASSUME RInv, pc = "done", asked # << >>, Fits
               PROVE  ReadUp(MaxSectors) /\ DOMAIN asked = 1 .. MaxSectors
    BY DEF RoundTrip, ReadUp
  <2>1. IInv /\ Placed /\ FromSectors /\ NoMore
    BY DEF RInv, IInv
  <2>2. PICK o, k : Reached(o, k)
    BY DEF RInv, WrittenTrack
  <2>3. /\ Ends(o) /\ k \in 0 .. MaxSectors /\ ReadUp(k) /\ at = o[k] + 1
        /\ fmt = "mx" => mem.count = k
    BY <2>2 DEF Reached
  <2>4. /\ MaxSectors \in Nat /\ o[MaxSectors] = Len(disk) /\ o[k] \in Nat
        /\ o[k] <= o[MaxSectors] /\ MaxSectors \in 0 .. MaxSectors /\ Len(disk) \in Nat
    <3>1. MaxSectors \in Nat /\ Len(disk) \in Nat
      BY <2>1, DecodeAssumption, PlacedIs
    <3>2. MaxSectors \in 0 .. MaxSectors
      BY <3>1
    <3> QED  BY <2>1, <2>3, <3>1, <3>2, EndsAre
  <2>5. o[k] = o[MaxSectors]
    <3>1. CASE at > Len(disk)
      BY <2>3, <2>4, <3>1
    <3>2. CASE fmt = "mx" /\ mem.count = MxSectors
      <4>1. MaxSectors <= MxSectors /\ MxSectors \in Nat
        BY <3>2, FitsIs, DecodeAssumption DEF SectorsOf
      <4> QED  BY <2>3, <2>4, <3>2, <4>1
    <3> QED  BY <2>1, <3>1, <3>2 DEF NoMore
  <2>6. \A i \in k + 1 .. MaxSectors : asked[i].status # "OK"
    BY <2>1, <2>3, <2>4, <2>5, NothingBetween
  <2>7. ReadUp(MaxSectors)
    BY <2>3, <2>4, <2>6, SkipOver
  <2>8. DOMAIN asked = 1 .. MaxSectors
    BY <2>1 DEF FromSectors, Asked
  <2> QED  BY <2>7, <2>8
<1> QED  BY <1>1, <1>2, <1>3, PTL DEF Spec
=============================================================================
