---------------------------- MODULE FluxStream ----------------------------
(***************************************************************************)
(* Flux as a stream of opcodes: the fluxmap that the encoders write and    *)
(* the readers go through, and its conversion to and from the stream of a  *)
(* GreaseWeazle.                                                           *)
(*                                                                         *)
(* An opcode of a fluxmap is a byte of a count of ticks and two bits.  One *)
(* of a GreaseWeazle is a record of what its bytes stand for; its clock    *)
(* runs Num / Den as fast, in whole numbers where the code has doubles.    *)
(***************************************************************************)
EXTENDS Integers, Sequences, SequencesExt, FiniteSetsExt

CONSTANTS
    Span,          \* the longest count of an opcode (3f)
    Num, Den,
    Direct,        \* GreaseWeazle: intervals of one byte are below this (250)
    Step, Steps,   \* and those of two below Direct + Steps * Step (255, 5)
    None

ASSUME FluxStreamAssumption ==
    /\ {Span, Num, Den, Direct, Step, Steps} \subseteq Nat \ {0}
    /\ Num >= Den /\ Direct > 1
    /\ None \notin Nat

-----------------------------------------------------------------------------
(* The fluxmap.                                                              *)

Byte(ticks, pulse, index) == [ticks |-> ticks, pulse |-> pulse, index |-> index]
Plain(ticks)              == Byte(ticks, FALSE, FALSE)

AppendInterval(map, ticks) ==
    map \o [i \in 1 .. ticks \div Span |-> Plain(Span)] \o <<Plain(ticks % Span)>>

\* After an interval, which has left a last byte.
AppendPulse(map) == [map EXCEPT ![Len(map)].pulse = TRUE]

\* Ticks up to and with each opcode.
Elapsed(map) ==
    LET elapsed[i \in 0 .. Len(map)] ==
            IF i = 0 THEN 0 ELSE elapsed[i - 1] + map[i].ticks
    IN  elapsed

TicksAt(map, positions) ==
    LET elapsed == Elapsed(map)
    IN  [k \in DOMAIN positions |-> elapsed[positions[k]]]

\* The positions up to n that are in a set, in order.
InOrder(positions, n) ==
    LET found[i \in 0 .. n] ==
            IF i = 0 THEN <<>>
            ELSE IF i \in positions THEN Append(found[i - 1], i) ELSE found[i - 1]
    IN  found[n]

Pulses(map)     == {i \in DOMAIN map : map[i].pulse}
PulseTicks(map) == TicksAt(map, InOrder(Pulses(map), Len(map)))
IndexTicks(map) == TicksAt(map, InOrder({i \in DOMAIN map : map[i].index}, Len(map)))

\* Mutant: each interval is rounded by itself.
AppendBits_Rounded(bits, cell) ==
    LET Add(map, i) ==
            LET before == Max({0} \cup {j \in 1 .. i - 1 : bits[j]})
            IN  IF bits[i]
                THEN AppendPulse(AppendInterval(map, ((i - before) * cell[1]) \div cell[2]))
                ELSE map
        built[i \in 0 .. Len(bits)] == IF i = 0 THEN <<>> ELSE Add(built[i - 1], i)
    IN  built[Len(bits)]

\* appendBits() of cells of cell[1] / cell[2] ticks.
AppendBits(bits, cell) ==
    LET Add(map, i) ==
            IF bits[i]
            THEN AppendPulse(AppendInterval(map,
                     (i * cell[1]) \div cell[2] - Elapsed(map)[Len(map)]))
            ELSE map
        built[i \in 0 .. Len(bits)] == IF i = 0 THEN <<>> ELSE Add(built[i - 1], i)
    IN  built[Len(bits)]

-----------------------------------------------------------------------------
(* FluxmapReader.                                                            *)

\* Every pulse a reader finds with findEvent(F_BIT_PULSE), in ticks: all but one
\* in the last opcode, since it looks for the end of the map first.
PulsesRead(map) ==
    TicksAt(map, InOrder(Pulses(map), Len(map) - 1))

-----------------------------------------------------------------------------
(* The stream of a GreaseWeazle.                                             *)

Short(n)        == [code |-> "short", n |-> n]
Long(high, low) == [code |-> "long", high |-> high, n |-> low]
Space(n)        == [code |-> "space", n |-> n]
Index(n)        == [code |-> "index", n |-> n]
EndOfStream     == [code |-> "end"]

\* What comes before the end.
StreamCodes ==
    [code : {"short"}, n : 1 .. Direct - 1]
        \cup [code : {"long"}, high : 0 .. Steps - 1, n : 1 .. Step]
        \cup [code : {"space", "index"}, n : Nat]

\* The opcodes of an interval.  That of none ends the stream.
Delta(delta) ==
    LET high == (delta - Direct) \div Step
    IN  CASE delta = 0                 -> <<EndOfStream>>
          [] delta \in 1 .. Direct - 1 -> <<Short(delta)>>
          [] delta >= Direct /\ high < Steps ->
                 <<Long(high, 1 + ((delta - Direct) % Step))>>
          [] OTHER -> <<Space(delta - (Direct - 1)), Short(Direct - 1)>>

FluxEngineToGreaseWeazle(map) ==
    LET pulses == PulseTicks(map)
        ticks  == [k \in DOMAIN pulses |-> (pulses[k] * Num) \div Den]
    IN  FlattenSeq([k \in DOMAIN ticks |->
            Delta(ticks[k] - IF k = 1 THEN 0 ELSE ticks[k - 1])]) \o <<EndOfStream>>

FluxTicks(ticks) == (ticks * Den) \div Num

\* Opcodes to a tick, the last one with bits.
Stretch(delta, pulse, index) ==
    LET full == IF delta = 0 THEN 0 ELSE (delta - 1) \div Span
    IN  [i \in 1 .. full |-> Plain(Span)] \o <<Byte(delta - full * Span, pulse, index)>>

\* Where the conversion is: ticks_gw, lastevent_fl, index_gw, and its output.
Begun == [gw |-> 0, last |-> 0, index |-> None, bytes |-> <<>>]

\* Mutant: the index mark is taken from the pulse's clock.
Pulse_IndexLate(s, delta) ==
    LET gw    == s.gw + delta
        ticks == FluxTicks(gw)
    IN  [s EXCEPT !.gw = gw, !.last = ticks, !.index = None,
                  !.bytes = @ \o Stretch(ticks - s.last, TRUE, s.index # None)]

\* An index mark goes before the pulse, or with it; in that case it is not
\* forgotten, and goes before the next pulse again.
Pulse(s, delta) ==
    LET gw      == s.gw + delta
        ticks   == FluxTicks(gw)
        index   == IF s.index = None THEN None ELSE FluxTicks(s.index)
        before  == index # None /\ index < ticks
        with    == index # None /\ index = ticks
    IN  [gw    |-> gw,
         last  |-> ticks,
         index |-> IF before THEN None ELSE s.index,
         bytes |-> s.bytes \o
                   IF before THEN Stretch(index - s.last, FALSE, TRUE)
                                  \o Stretch(ticks - index, TRUE, FALSE)
                   ELSE Stretch(ticks - s.last, TRUE, with)]

Convert(s, c) ==
    CASE c.code = "index" -> [s EXCEPT !.index = s.gw + c.n]
      [] c.code = "space" -> [s EXCEPT !.gw = @ + c.n]
      [] c.code = "short" -> Pulse(s, c.n)
      [] c.code = "long"  -> Pulse(s, Direct + c.high * Step + c.n - 1)

\* Up to the first end of the stream.
GreaseWeazleToFluxEngine(stream) ==
    LET end == Min({Len(stream) + 1} \cup {i \in DOMAIN stream : stream[i] = EndOfStream})
        converted[i \in 0 .. end - 1] ==
            IF i = 0 THEN Begun ELSE Convert(converted[i - 1], stream[i])
    IN  converted[end - 1].bytes

\* The map from its first index mark on.
StripPartialRotation(map) ==
    LET marks == {i \in DOMAIN map : map[i].index}
    IN  IF marks = {} THEN map ELSE SubSeq(map, Min(marks), Len(map))
=============================================================================
