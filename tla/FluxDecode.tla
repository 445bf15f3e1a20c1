---------------------------- MODULE FluxDecode ----------------------------
(***************************************************************************)
(* From a fluxmap back to bits: the search for the pattern of a record     *)
(* (FluxPattern, FluxMatchers, seekToPattern()), the decoder with its      *)
(* phase-locked loop (FluxDecoder), and FM and MFM.                        *)
(*                                                                         *)
(* The times of a map are those a reader can stop at: its start, each      *)
(* pulse that is found, and its end; a position is one of their numbers.   *)
(* Times are in ticks, and in fractions of one in the decoder, where the   *)
(* code has doubles; a clock that has been detected is a ratio <<n, d>>.   *)
(***************************************************************************)
EXTENDS FluxStream, Functions, FiniteSets

CONSTANTS
    Fine,       \* fractions of a tick
    MinClock    \* minimum_clock_us, in ticks

\* A clock, how many intervals it was found in, and the zeroes before them.
Found == [clock : Int \X Int, intervals : Nat, zeroes : Nat]

ASSUME FluxDecodeAssumption ==
    Fine \in Nat \ {0} /\ MinClock \in Nat /\ None \notin Found

Part(n, ratio) == (n * ratio[1]) \div ratio[2]

\* The defaults of a decoder, as ratios.
PulseDebounceThreshold == <<30, 100>>
BitErrorThreshold      == <<40, 100>>
PllAdjust              == <<4, 100>>
PllPhase               == <<60, 100>>

Times(map) ==
    LET read == PulsesRead(map)
    IN  [k \in 0 .. IF map = <<>> THEN 0 ELSE Len(read) + 1 |->
            CASE k = 0             -> 0
              [] k \in DOMAIN read -> read[k]
              [] OTHER             -> Elapsed(map)[Len(map)]]

End(times)         == Cardinality(DOMAIN times) - 1
Interval(times, k) == times[k] - times[k - 1]

-----------------------------------------------------------------------------
(* Patterns.                                                                 *)

Ones(bits) == InOrder({i \in DOMAIN bits : bits[i]}, Len(bits))

\* FluxPattern of bits, one of them set: the intervals between its pulses; how
\* long the one after the last must be, or 0; and the zeroes before the first.
Pattern(bits) ==
    LET ones == Ones(bits)
    IN  [exact   |-> [i \in 1 .. Len(ones) - 1 |-> ones[i + 1] - ones[i]],
         length  |-> Last(ones) - ones[1],
         lowzero |-> IF Last(ones) = Len(bits) THEN 0 ELSE Len(bits) - Last(ones) + 1,
         zeroes  |-> ones[1] - 1]

FluxPatterns == [exact : Seq(Nat), length : Nat, lowzero : Nat, zeroes : Nat]

Intervals(p) == Len(p.exact) + IF p.lowzero = 0 THEN 0 ELSE 1

\* The sums of the first elements of a sequence.
Totals(s) ==
    LET total[i \in 0 .. Len(s)] == IF i = 0 THEN 0 ELSE total[i - 1] + s[i]
    IN  total

\* The intervals of a pattern at the end of a window, and what they last
\* together, up to the pattern's last pulse.
Compared(p, window) == SubSeq(window, Len(window) - Intervals(p) + 1, Len(window))
Candidate(p, window) == Totals(Compared(p, window))[Len(p.exact)]

\* matches() of one pattern with those.  Only an interval too short is held
\* against the zeroes at the end.
Close(p, compared, candidate, limit) ==
    LET error(i, n) == n * candidate - compared[i] * p.length
    IN  /\ candidate # 0
        /\ \A i \in DOMAIN p.exact : error(i, p.exact[i]) \in -limit .. limit
        /\ p.lowzero # 0 => error(Len(p.exact) + 1, p.lowzero) <= limit

PatternMatches(p, window) ==
    Close(p, Compared(p, window), Candidate(p, window),
          Part(Candidate(p, window), BitErrorThreshold))

Match(p, window) ==
    [clock     |-> <<Candidate(p, window), p.length>>,
     intervals |-> Intervals(p),
     zeroes    |-> p.zeroes]

\* matches() of several: the first that does.
Matches(patterns, window) ==
    LET matching == {i \in DOMAIN patterns : PatternMatches(patterns[i], window)}
    IN  IF matching = {} THEN None ELSE Match(patterns[Min(matching)], window)

Fast(match) == match.clock[1] <= MinClock * match.clock[2]

\* seekToPattern() from the start: a window of the last intervals, and the
\* positions around them.
SeekBegun(patterns) ==
    LET n == Max({Intervals(patterns[i]) : i \in DOMAIN patterns})
    IN  [at |-> 0, window |-> [i \in 1 .. n |-> 0],
         places |-> [i \in 1 .. n + 1 |-> 0], found |-> None]

SeekEnded(times, s) == s.found # None \/ s.at = End(times)

\* The window takes in the interval after a position.
NextInterval(times, s, at) ==
    [s EXCEPT !.at     = at + 1,
              !.window = Append(Tail(@), Interval(times, at + 1)),
              !.places = Append(Tail(@), at + 1)]

\* Mutant: a match is taken to begin an interval late.
PlaceOf_Late(s, match) == s.places[Len(s.places) - match.intervals + 1]

\* Where a match begins.
PlaceOf(s, match) == s.places[Len(s.places) - match.intervals]

\* What is done with a match: one that is too fast has moved the reader back
\* all the same, and the window goes on from there.
Tried(times, s, match) ==
    IF match = None THEN NextInterval(times, s, s.at)
    ELSE IF Fast(match) THEN NextInterval(times, s, PlaceOf(s, match))
    ELSE [s EXCEPT !.at = PlaceOf(s, match), !.found = match]

\* One turn of its loop.
SeekStep(times, patterns, s) == Tried(times, s, Matches(patterns, s.window))

\* Where a search can be; before it ends no position is that of the end.
Seeking(times, patterns) ==
    LET n == Len(SeekBegun(patterns).window)
    IN  {s \in [at     : 0 .. End(times),   places : [1 .. n + 1 -> 0 .. End(times)],
                window : [1 .. n -> Int],  found  : Found \cup {None}] :
            ~SeekEnded(times, s) => s.at = Last(s.places) /\ End(times) \notin Range(s.places)}

\* Bound: turns of the loop, each interval read once more for each match.
Turns(times, patterns) == (End(times) + 1) * (Len(SeekBegun(patterns).places) + 1)

SeekToPattern(times, patterns) ==
    LET seek[n \in 0 .. Turns(times, patterns)] ==
            [s \in Seeking(times, patterns) |->
                IF SeekEnded(times, s) \/ n = 0 THEN s
                ELSE seek[n - 1][SeekStep(times, patterns, s)]]
    IN  seek[Turns(times, patterns)][SeekBegun(patterns)]

-----------------------------------------------------------------------------
(* FluxDecoder.                                                              *)

\* A decoder at the position of a match.
Decoder(at, match) ==
    LET clock == (match.clock[1] * Fine) \div match.clock[2]
    IN  [at |-> at, flux |-> 0, clock |-> clock, centre |-> clock,
         clockedZeroes |-> 0, leadingZeroes |-> match.zeroes, bits |-> <<>>]

\* readInterval() and nextFlux(): pulses too soon after the last are passed
\* over.  What is left at the end of the map counts for nothing.
NextFlux(times, d) ==
    LET threshold == Part(d.centre, PulseDebounceThreshold) \div Fine
        ends      == {k \in d.at + 1 .. End(times) - 1 :
                         times[k] - times[d.at] > threshold}
        last      == Min(ends \cup {Max({d.at, End(times) - 1})})
    IN  [d EXCEPT !.at            = IF ends = {} THEN End(times) ELSE last,
                  !.flux          = @ + (times[last] - times[d.at]) * Fine,
                  !.clockedZeroes = 0]

Enough(times, d) == d.at = End(times) \/ 2 * d.flux >= d.clock

Decoding == [at : Nat, flux : Int, clock : Int, centre : Int, clockedZeroes : Nat,
             leadingZeroes : Int, bits : Seq(BOOLEAN)]

Filled(times, d) ==
    LET filled[e \in Decoding] == IF Enough(times, e) THEN e ELSE filled[NextFlux(times, e)]
    IN  filled[d]

\* Mutant: the clock is moved away from the flux, and not towards it.
Adjusted_Away(d, flux) ==
    LET clock == IF d.clockedZeroes <= 3 THEN d.clock - Part(flux, PllAdjust)
                 ELSE d.clock + Part(d.centre - d.clock, PllAdjust)
        swing == Part(d.centre, PllAdjust)
    IN  Min({Max({clock, d.centre - swing}), d.centre + swing})

\* The clock after a pulse, with flux left over.
Adjusted(d, flux) ==
    LET clock == IF d.clockedZeroes <= 3 THEN d.clock + Part(flux, PllAdjust)
                 ELSE d.clock + Part(d.centre - d.clock, PllAdjust)
        swing == Part(d.centre, PllAdjust)
    IN  Min({Max({clock, d.centre - swing}), d.centre + swing})

\* A bit more: a zero, if the clock has passed without a pulse, or a one.
WithBit(d, b) == [d EXCEPT !.bits = Append(@, b)]

Clocked(d, flux) ==
    IF 2 * flux >= d.clock
    THEN WithBit([d EXCEPT !.flux = flux, !.clockedZeroes = @ + 1], FALSE)
    ELSE WithBit([d EXCEPT !.flux  = flux - Part(flux, PllPhase),
                           !.clock = Adjusted(d, flux)], TRUE)

Sampled(d) == Clocked(d, d.flux - d.clock)

\* readBit()
ReadBit(times, d) ==
    IF d.leadingZeroes >= 0
    THEN WithBit([d EXCEPT !.leadingZeroes = @ - 1], d.leadingZeroes = 0)
    ELSE Sampled(Filled(times, d))

\* readBits()
ReadBits(times, d, count) ==
    LET read[n \in 0 .. count, e \in Decoding] ==
            IF e.at = End(times) \/ n = 0 THEN e.bits ELSE read[n - 1, ReadBit(times, e)]
    IN  read[count, d]

-----------------------------------------------------------------------------
(* FM and MFM, of whole bytes.                                               *)

EncodeFm(input) ==
    FlattenSeq([i \in DOMAIN input |-> <<TRUE, input[i]>>])

EncodeMfm(input, lastBit) ==
    LET last(i) == IF i = 1 THEN lastBit ELSE input[i - 1]
    IN  FlattenSeq([i \in DOMAIN input |-> <<~last(i) /\ ~input[i], input[i]>>])

DecodeFmMfm(bits) == [i \in 1 .. Len(bits) \div 2 |-> bits[2 * i]]
=============================================================================
