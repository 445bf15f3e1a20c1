----------------------------- MODULE FluxPath -----------------------------
(***************************************************************************)
(* From the bits of a track to the flux that is read back: the encoder's   *)
(* fluxmap, the Sequencer that plays its opcodes as pulses, and the        *)
(* Sampler that makes opcodes of the pulses of a drive, and the decoder    *)
(* that finds its record in them.  The drive gives each pulse back as it   *)
(* was written.                                                            *)
(*                                                                         *)
(* Tick is an edge of the sample clock; what the Sequencer does on the     *)
(* edges of the much faster clock of the board is steps in between.  It    *)
(* has the next opcode before the second tick: ReplayRing is about those   *)
(* that come too late.                                                     *)
(***************************************************************************)
EXTENDS FluxDecode, TLC

CONSTANTS
    Tracks,      \* bound: the tracks played, sequences of BOOLEAN
    Cells,       \* bound: the lengths of a cell, in ticks, as <<n, d>>
    Records,     \* bound: the data of tracks that are a record, likewise
    RecordCells, \* bound: the lengths of theirs, long enough to tell bits apart
    LongRecords, \* bound: the data of records read from a drive that drifts
    Drifts,      \* bound: by how much, in percent
    Sync,        \* the bits that a record begins with
    Patterns,    \* bound: sets of patterns looked for in noise, as sequences
    Streams,     \* bound: the streams that a GreaseWeazle sends
    MaxIndexes   \* bound: index pulses

ASSUME FluxPathAssumption ==
    /\ Cells \cup RecordCells \subseteq Nat \X (Nat \ {0})
    /\ \A c \in Cells \cup RecordCells : c[1] >= 2 * c[2]
    /\ \A t \in Tracks : t \in Seq(BOOLEAN) /\ ~t[1]
    /\ Records \subseteq Seq(BOOLEAN) /\ Sync \in Seq(BOOLEAN) \ {<<>>}
    /\ Streams \subseteq Seq(StreamCodes)
    /\ \A patterns \in Patterns :
           /\ patterns \in Seq(FluxPatterns) \ {<<>>}
           /\ \A i \in DOMAIN patterns : Intervals(patterns[i]) > 0
    /\ MaxIndexes \in Nat

VARIABLES
    bits, cell,       \* the track
    stream,           \* or the stream, which is only converted
    map,              \* the fluxmap, with what is not yet played
    state,            \* Sequencer
    countdown, pulsepending, sampleclocked,
    rdataToggle, oldRdataToggle, rdataEdge,    \* Sampler
    indexToggle, oldIndexToggle, indexEdge, counter,
    captured,         \* the opcodes it has given
    now,              \* history: ticks since the reset
    stray,            \* history: the reset has found rdataToggle set
    rdata, index      \* history: when the edges of either signal were

track     == <<bits, cell, stream, stray>>
sequencer == <<map, state, countdown, pulsepending>>
sampler   == <<oldRdataToggle, rdataEdge, oldIndexToggle, indexEdge, counter, captured>>
vars      == <<track, sequencer, sampleclocked, sampler, rdataToggle, indexToggle,
               now, rdata, index>>

\* A gap, a record of FM or MFM, and a gap.
Gap                  == EncodeMfm([i \in 1 .. 3 |-> FALSE], FALSE)
RecordBits(data, fm) ==
    Sync \o IF fm THEN EncodeFm(data) ELSE EncodeMfm(data, Last(Sync))
RecordTrack(data, fm) == <<FALSE>> \o Gap \o RecordBits(data, fm) \o EncodeFm(<<TRUE, TRUE>>)
RecordTracks          == {RecordTrack(data, fm) : data \in Records, fm \in BOOLEAN}

Init ==
    /\ \/ bits \in Tracks /\ cell \in Cells /\ stream = <<>>
       \/ bits \in RecordTracks /\ cell \in RecordCells /\ stream = <<>>
       \/ bits = <<>> /\ cell = <<2, 1>> /\ stream \in Streams
    /\ map = AppendBits(bits, cell)
    /\ state = "LOAD" /\ countdown = 0 /\ pulsepending = FALSE
    /\ sampleclocked \in {FALSE, (bits \in Tracks)}    \* the reset leaves it
    /\ stray \in {FALSE, (bits \in Tracks)}
    /\ rdataToggle = stray /\ indexToggle = FALSE
    /\ oldRdataToggle = FALSE /\ oldIndexToggle = FALSE
    /\ rdataEdge = FALSE /\ indexEdge = FALSE /\ counter = 0
    /\ captured = <<>> /\ now = 0
    /\ rdata = IF stray THEN <<0>> ELSE <<>>
    /\ index = <<>>

-----------------------------------------------------------------------------
(* The Sequencer.                                                            *)

\* wdata goes high, and the drive sees a pulse.
Wdata(rises) ==
    IF rises THEN rdataToggle' = ~rdataToggle /\ rdata' = Append(rdata, now)
    ELSE UNCHANGED <<rdataToggle, rdata>>

Load ==
    /\ state = "LOAD" /\ map # <<>>
    /\ pulsepending' = Head(map).pulse
    /\ countdown' = Max({Head(map).ticks - 1, 0})
    /\ state' = "WRITING" /\ map' = Tail(map)
    /\ Wdata(pulsepending' /\ countdown' = 0)
    /\ UNCHANGED <<track, sampleclocked, sampler, indexToggle, now, index>>

Count ==
    /\ state = "WRITING" /\ sampleclocked
    /\ sampleclocked' = FALSE
    /\ IF countdown = 0
       THEN state' = "LOAD" /\ UNCHANGED <<countdown, rdataToggle, rdata>>
       ELSE /\ countdown' = countdown - 1
            /\ Wdata(pulsepending /\ countdown' = 0)
            /\ UNCHANGED state
    /\ UNCHANGED <<track, map, pulsepending, sampler, indexToggle, now, index>>

-----------------------------------------------------------------------------
(* The Sampler.                                                              *)

Played == map = <<>> /\ state = "LOAD"

\* The index sensor of the drive, while a short track is played.
IndexPulse ==
    /\ bits \in Tracks /\ ~Played
    /\ Len(index) < MaxIndexes /\ indexToggle = oldIndexToggle
    /\ indexToggle' = ~indexToggle /\ index' = Append(index, now)
    /\ UNCHANGED <<track, sequencer, sampleclocked, sampler, rdataToggle, now, rdata>>

\* Bound: enough ticks for what is on its way.
Drained ==
    now > Span + 2 + Max({0} \cup Range(rdata) \cup Range(index))

\* Mutant: an edge in the tick of the longest count is left for later.
Sample_FullFirst ==
    /\ rdataEdge' = (rdataToggle # oldRdataToggle) /\ oldRdataToggle' = rdataToggle
    /\ indexEdge' = (indexToggle # oldIndexToggle) /\ oldIndexToggle' = indexToggle
    /\ IF counter = Span
       THEN captured' = Append(captured, Plain(counter)) /\ counter' = 1
       ELSE IF rdataEdge \/ indexEdge
       THEN /\ captured' = Append(captured, Byte(counter, rdataEdge, indexEdge))
            /\ counter' = 1
       ELSE counter' = counter + 1 /\ UNCHANGED captured

\* The registers take what the others held before the edge.
Sample ==
    /\ rdataEdge' = (rdataToggle # oldRdataToggle) /\ oldRdataToggle' = rdataToggle
    /\ indexEdge' = (indexToggle # oldIndexToggle) /\ oldIndexToggle' = indexToggle
    /\ IF rdataEdge \/ indexEdge \/ counter = Span
       THEN /\ captured' = Append(captured, Byte(counter, rdataEdge, indexEdge))
            /\ counter' = 1
       ELSE counter' = counter + 1 /\ UNCHANGED captured

Tick ==
    /\ bits # <<>>
    /\ IF Played THEN ~Drained ELSE ~sampleclocked
    /\ Sample
    /\ sampleclocked' = TRUE
    /\ now' = now + 1
    /\ UNCHANGED <<track, sequencer, rdataToggle, indexToggle, rdata, index>>

Next == Load \/ Count \/ IndexPulse \/ Tick

Spec == Init /\ [][Next]_vars

-----------------------------------------------------------------------------
(* Properties.                                                               *)

TypeOK ==
    /\ state \in {"LOAD", "WRITING"}
    /\ countdown \in 0 .. Span - 1 /\ counter \in 0 .. Span
    /\ \A i \in DOMAIN captured :
           captured[i].ticks \in 1 .. Span /\ {captured[i].pulse, captured[i].index} \subseteq BOOLEAN
    /\ {pulsepending, sampleclocked, rdataToggle, indexToggle} \subseteq BOOLEAN

\* Ticks of the pulses that a track has, or None for its zeroes; an interval
\* of whole spans is played with one tick more, for the opcode without ticks
\* it ends in.
Wanted ==
    LET ones  == Ones(bits)
        at(k) == IF k = 0 THEN 0 ELSE (ones[k] * cell[1]) \div cell[2]
    IN  [k \in DOMAIN ones |->
            at(k) + Cardinality({j \in 1 .. k : (at(j) - at(j - 1)) % Span = 0})]

Written == IF stray THEN Tail(rdata) ELSE rdata

\* The pulses are as far apart as in the track, within a tick, however many
\* there have been before.
PlayedOnTime ==
    /\ Len(Written) <= Len(Wanted)
    /\ Played => Len(Written) = Len(Wanted)
    /\ \A k \in DOMAIN Written :
           (Written[k] - Written[1]) - (Wanted[k] - Wanted[1]) \in {-1, 0, 1}

Late(ticks) == [k \in DOMAIN ticks |-> ticks[k] + 1]

\* Every edge of either signal is in the stream of opcodes, at its tick, and
\* nothing else is; no opcode is one without ticks, which would end a
\* fluxmap.  A reader finds all the pulses but one in the last opcode.
SampledExactly ==
    /\ TypeOK
    /\ IsPrefix(PulseTicks(captured), Late(rdata))
    /\ IsPrefix(IndexTicks(captured), Late(index))
    /\ Played /\ Drained =>
           /\ PulseTicks(captured) = Late(rdata) /\ IndexTicks(captured) = Late(index)
           /\ IsPrefix(PulsesRead(captured), Late(rdata))
           /\ Len(PulsesRead(captured)) >= Len(rdata) - 1

\* Flux that goes through a GreaseWeazle and back has its pulses where they
\* were, within a tick, whatever the length of the intervals.
RoundTrip(bytes) ==
    LET there == PulseTicks(bytes)
        back  == PulseTicks(GreaseWeazleToFluxEngine(FluxEngineToGreaseWeazle(bytes)))
    IN  /\ Len(back) = Len(there)
        /\ \A k \in DOMAIN there : there[k] - back[k] \in {0, 1}

\* Ticks of a stream up to each opcode.
StreamTicks ==
    LET at[i \in 0 .. Len(stream)] ==
            IF i = 0 THEN 0
            ELSE at[i - 1] + CASE stream[i].code \in {"short", "space"} -> stream[i].n
                               [] stream[i].code = "long" ->
                                      Direct + stream[i].high * Step + stream[i].n - 1
                               [] OTHER -> 0
    IN  at

IsPulse(i) == stream[i].code \in {"short", "long"}

\* The index marks of a stream that a pulse comes after, before the stream
\* has another mark.
MarksOf ==
    {FluxTicks(StreamTicks[i - 1] + stream[i].n) : i \in
        {i \in DOMAIN stream :
            /\ stream[i].code = "index"
            /\ \E k \in i + 1 .. Len(stream) :
                   /\ IsPulse(k)
                   /\ FluxTicks(StreamTicks[i - 1] + stream[i].n) <= FluxTicks(StreamTicks[k])
                   /\ \A j \in i + 1 .. k : stream[j].code # "index"}}

\* The index marks and the pulses of a stream are where it says; a map that
\* is cut at its first mark begins with it.
Converted ==
    LET bytes == GreaseWeazleToFluxEngine(stream)
        cut   == StripPartialRotation(bytes)
        ones  == InOrder({i \in DOMAIN stream : IsPulse(i)}, Len(stream))
    IN  /\ PulseTicks(bytes) = [k \in DOMAIN ones |-> FluxTicks(StreamTicks[ones[k]])]
        /\ Range(IndexTicks(bytes)) = MarksOf
        /\ MarksOf # {} => cut[1].index /\ IsSuffix(cut, bytes)

\* The record at some times is found, and read as it was written.
DataIn(read)       == DecodeFmMfm(SubSeq(read, Len(Sync) + 1, Len(read)))
ReadAs(read, data, fm) == read = RecordBits(data, fm) /\ DataIn(read) = data
FoundAs(times, s, data, fm) ==
    /\ s.found # None
    /\ ReadAs(ReadBits(times, Decoder(s.at, s.found), Len(Sync) + 2 * Len(data)), data, fm)

RecordRead(times, data, fm) ==
    FoundAs(times, SeekToPattern(times, <<Pattern(Sync)>>), data, fm)

\* When the pulses of a record come if the drive turns at another speed after
\* the sync mark, by a part of a cell of so many ticks.
DriftingTimes(data, fm, ticks, drift) ==
    LET all   == RecordTrack(data, fm)
        ones  == Ones(all)
        after == Len(all) - 2 * Len(data) - 4
    IN  [k \in 0 .. Len(ones) |->
            IF k = 0 THEN 0
            ELSE ones[k] * ticks + drift * Max({0, ones[k] - after})]

\* The loop follows a drive whose speed changes, for as long as there is data.
DriftFollowed(fm) ==
    \A data \in LongRecords, drift \in Drifts :
        RecordRead(DriftingTimes(data, fm, 100, drift), data, fm)

\* The match, if any, of the last intervals at a position.
MatchAt(times, patterns, k) ==
    LET n == Len(SeekBegun(patterns).window)
    IN  Matches(patterns, [i \in 1 .. n |-> IF k - n + i < 1 THEN 0
                                            ELSE Interval(times, k - n + i)])

\* In noise a search ends, with a clock that is not too fast or at the end of
\* the map; and at the first place where the intervals match, unless that match
\* is too fast.
EndsRight(times, patterns, s) ==
    LET matching == {k \in 1 .. End(times) - 1 : MatchAt(times, patterns, k) # None}
        first    == MatchAt(times, patterns, Min(matching))
    IN  /\ SeekEnded(times, s)
        /\ s.found # None => ~Fast(s.found)
        /\ matching = {} => s.found = None
        /\ matching # {} /\ ~Fast(first) =>
               s.found = first /\ s.at = Max({0, Min(matching) - first.intervals})

FirstFound(times, patterns) ==
    EndsRight(times, patterns, SeekToPattern(times, patterns))

\* What the decoder makes of a map that the encoder has made, or that has been
\* played and sampled.
BitsReadBack ==
    \A data \in Records, fm \in BOOLEAN :
        bits = RecordTrack(data, fm) =>
            /\ now = 0 => /\ RecordRead(Times(AppendBits(bits, cell)), data, fm)
                           /\ DriftFollowed(fm)
            /\ Played /\ Drained => RecordRead(Times(captured), data, fm)

\* A search for any set of patterns, in a map that is noise, ends in so many
\* turns, however often it goes back, and does not pass over the first match.
SearchEnds ==
    stream # <<>> => \A patterns \in Patterns :
        FirstFound(Times(GreaseWeazleToFluxEngine(stream)), patterns)

\* GreaseWeazle conversions keep pulses and index marks.
ConvertedExactly ==
    /\ Played /\ Drained => RoundTrip(captured)
    /\ now = 0 => Converted /\ RoundTrip(AppendBits(bits, cell))
=============================================================================
