------------------------ MODULE ReplayRing_proofs ------------------------
(***************************************************************************)
(* Proofs about ReplayRing, for every ring of two buffers or more, every   *)
(* number of packets, with and without hard sectors.  The inductive        *)
(* invariant follows each packet from the endpoint to the track: which one *)
(* cmd_write() reads next, and which one each buffer between the cursors   *)
(* holds.                                                                  *)
(***************************************************************************)
EXTENDS ReplayRing, TLAPS

(* The cursors without the modulus; before the chain starts, it would begin  *)
(* at buffer 0.                                                              *)
Base     == IF reading = -1 THEN 0 ELSE reading
Left     == IF writing >= Base THEN writing - Base ELSE writing - Base + BufferCount
Place(b) == IF b >= Base THEN b - Base ELSE b - Base + BufferCount

Playing == {"room", "guard", "fill", "publish", "check", "abort", "blackhole", "reply"}

\* Before the chain starts the buffers are filled from 0 on.
Priming ==
    reading = -1 =>
        /\ pc \in Loop \cup {"setup", "done"}
        /\ pc \notin {"wait", "open"}
        /\ ~dmaOn /\ ~onDisk
        /\ filled = writing
        /\ pc = "start" => writing = BufferCount - 1
        /\ pc \in Playing \cup {"setup"} => writing < BufferCount - 1

\* The sequencer leaves its reset once, after the chain has been started.
Phases ==
    /\ reading # -1 => /\ pc \notin {"setup", "start"}
                       /\ pc \in Loop \cup {"abort"} => dmaOn
                       /\ pc \in {"wait", "open"} => ~onDisk
                       /\ pc \in Playing => onDisk
    /\ pc \in {"blackhole", "reply", "done"} => ~dmaOn
    /\ ~onDisk => played = 0 /\ track = <<>> /\ ~gate /\ closedBy = "none" /\ ~starved

\* What is between the cursors: at least the buffer that is being played, and
\* less than a full ring while a buffer is being filled.
Counts ==
    /\ underrun <=> starved
    /\ ~starved =>
          /\ filled = played + Left
          /\ reading # -1 => Left > 0
          /\ reading # -1 /\ pc \in {"guard", "fill", "publish"} => Left < BufferCount - 1

Contents ==
    /\ \A b \in Slots : slot[b] <= packets
    /\ ~starved => \A b \in Slots : Place(b) < Left => slot[b] = Item(played + Place(b) + 1)

\* The packet that is read next is the one for the buffer filled next.
Ahead == IF pc = "publish" THEN filled + 1 ELSE filled

Supply ==
    /\ finished => countRead = packets
    /\ pc \in Loop \cup {"setup"} =>
          /\ finished => packets <= Ahead
          /\ ~finished => countRead < packets /\ countRead = Ahead
    /\ pc = "publish" => slot[writing] = Item(filled + 1)
    /\ outcome # "RESET" => IF outEp = Empty THEN sent = countRead
                            ELSE outEp = sent /\ sent = countRead + 1
    /\ pc = "reply" => countRead = packets

\* While the gate is open all that is played is on the track; it is shut by an
\* index pulse unless the data has run out, or the board was reset.
Writes ==
    /\ gate => /\ onDisk /\ Len(track) = played /\ closedBy = "none"
               /\ pc \in Loop \cup {"abort"}
    /\ TrackInOrder
    /\ onDisk /\ pc \in Loop => IF gate THEN ~index ELSE closedBy = "index"
    /\ pc \in {"abort", "blackhole", "reply"} => underrun \/ (~gate /\ closedBy = "index")

Endings ==
    /\ outcome # "none" <=> pc = "done"
    /\ WholeTrack
    /\ HostDrained

IInv ==
    /\ TypeOK
    /\ Priming
    /\ Phases
    /\ Counts
    /\ Contents
    /\ Supply
    /\ Writes
    /\ Endings

-----------------------------------------------------------------------------
USE ReplayAssumption DEF Slots, Items, Filler, Empty, Loop, Playing, cursors, request, drive,
                         history, hostVars, Item

(* NEXT_BUFFER() and the distances without the modulus.                      *)
LEMMA NextBufferIs ==
    \A b \in Slots : /\ NextBuffer(b) \in Slots
                     /\ NextBuffer(b) = IF b = BufferCount - 1 THEN 0 ELSE b + 1
BY SMT DEF NextBuffer

LEMMA ModulusIs ==
    ASSUME NEW x \in Int, -BufferCount < x, x < 2 * BufferCount
    PROVE  x % BufferCount = IF x < 0 THEN x + BufferCount
                             ELSE IF x < BufferCount THEN x ELSE x - BufferCount
<1>1. CASE x < 0
  <2>1. x = BufferCount * (-1) + (x + BufferCount)  OBVIOUS
  <2> QED  BY <1>1, <2>1
<1>2. CASE x >= 0 /\ x < BufferCount  BY <1>2
<1>3. CASE x >= BufferCount
  <2>1. x = BufferCount * 1 + (x - BufferCount)  OBVIOUS
  <2> QED  BY <1>3, <2>1
<1> QED  BY <1>1, <1>2, <1>3

(* Where a buffer lies between the cursors.                                  *)
LEMMA PlaceIs ==
    ASSUME writing \in Slots, reading \in Slots \cup {-1}
    PROVE  /\ Base \in Slots /\ Left \in Slots
           /\ Left = 0 <=> writing = Base
           /\ Place(writing) = Left
           /\ \A b \in Slots : /\ Place(b) \in Slots
                               /\ b = writing <=> Place(b) = Left
                               /\ b = Base <=> Place(b) = 0
BY DEF Place, Left, Base

LEMMA InitIInv == Init => IInv
<1> SUFFICES ASSUME Init PROVE IInv
  OBVIOUS
<1>1. TypeOK  BY SMTT(30) DEF Init, TypeOK
<1>2. Priming /\ Phases /\ Counts  BY DEF Init, Priming, Phases, Counts, Left, Base
<1>3. Contents  BY DEF Init, Contents, Left, Base, Place
<1>4. Supply /\ Writes /\ Endings
  BY DEF Init, Supply, Ahead, Writes, Endings, TrackInOrder, WholeTrack, HostDrained
<1> QED  BY <1>1, <1>2, <1>3, <1>4 DEF IInv

LEMMA PlayFinishStep == IInv /\ PlayFinish => IInv'
<1> SUFFICES ASSUME IInv, PlayFinish PROVE IInv'
  OBVIOUS
<1> USE DEF IInv
<1>0. /\ starved \in BOOLEAN /\ underrun \in BOOLEAN /\ gate \in BOOLEAN
      /\ filled \in Nat /\ played \in Nat /\ packets \in Nat
      /\ slot \in [Slots -> Items] /\ track \in Seq(Items)
      /\ writing \in Slots /\ reading \in Slots \cup {-1}
  BY DEF TypeOK
<1>0a. /\ reading \in Slots /\ reading # -1 /\ Base = reading
      /\ pc \in Loop \cup {"abort"}
  BY <1>0 DEF TypeOK, PlayFinish, Priming, Phases, Base
<1>0b. Left \in Slots /\ Place(reading) = 0
  BY <1>0, <1>0a, PlaceIs
<1>1. /\ reading' \in Slots /\ reading' = IF reading = BufferCount - 1 THEN 0 ELSE reading + 1
      /\ Base' = reading'
  BY <1>0a, NextBufferIs DEF PlayFinish, FinishedIrq, Base
<1>2. ASSUME ~starved'
      PROVE /\ ~starved /\ Left > 1 /\ Left' = Left - 1 /\ played + 1 < filled
            /\ reading' # writing
  <2>1. ~starved /\ played + 1 < filled
    <3>1. starved' = (starved \/ played + 1 >= filled)  BY DEF PlayFinish
    <3>2. ~starved /\ ~(played + 1 >= filled)  BY <1>2, <3>1
    <3> QED  BY <1>0, <3>2
  <2>2. Left > 1
    BY <1>0, <1>0b, <2>1 DEF Counts
  <2>3. writing' = writing
    BY DEF PlayFinish
  <2>4. Left' = Left - 1 /\ reading' # writing
    BY <1>0, <1>0a, <1>1, <2>2, <2>3 DEF Left
  <2> QED  BY <2>1, <2>2, <2>4
<1>3. underrun' <=> starved'
  <2>1. CASE starved  BY <2>1 DEF Counts, PlayFinish, FinishedIrq
  <2>2. CASE ~starved /\ starved'
    <3>1. Left = 1
      BY <1>0, <1>0a, <1>0b, <2>2 DEF PlayFinish, Counts
    <3>2. reading' = writing
      BY <1>0, <1>0a, <1>1, <3>1 DEF Left
    <3> QED  BY <2>2, <3>2 DEF PlayFinish, FinishedIrq
  <2>3. CASE ~starved'
    BY <1>2, <2>3 DEF PlayFinish, FinishedIrq, Counts
  <2> QED  BY <2>1, <2>2, <2>3
<1>4. ~starved => slot[reading] = Item(played + 1)
  <2> SUFFICES ASSUME ~starved PROVE slot[reading] = Item(played + Place(reading) + 1)
    BY <1>0, <1>0b
  <2>1. Place(reading) < Left
    BY <1>0a, <1>0b DEF Counts
  <2> QED  BY <1>0a, <2>1 DEF Contents
<1>5. /\ pc' = pc /\ writing' = writing /\ packets' = packets /\ countRead' = countRead
      /\ finished' = finished /\ index' = index /\ onDisk' = onDisk /\ gate' = gate
      /\ closedBy' = closedBy /\ dmaOn' = dmaOn /\ slot' = slot /\ outEp' = outEp
      /\ host' = host /\ sent' = sent /\ outcome' = outcome /\ filled' = filled
      /\ played' = played + 1 /\ onDisk /\ dmaOn /\ played < MaxPlayed
      /\ (underrun => underrun') /\ (starved => starved')
      /\ track' = IF gate THEN Append(track, slot[reading]) ELSE track
  BY DEF PlayFinish, FinishedIrq
<1>6. TypeOK'
  <2>1. underrun' \in BOOLEAN /\ starved' \in BOOLEAN
    BY DEF PlayFinish, FinishedIrq, TypeOK
  <2>2. track' \in Seq(Items)
    <3>1. slot[reading] \in Items  BY <1>0
    <3> HIDE DEF Items
    <3> QED  BY <1>0, <1>5, <3>1
  <2> QED  BY <1>1, <1>5, <2>1, <2>2 DEF TypeOK
<1>7. Priming' /\ Phases'
  BY <1>0a, <1>1, <1>5 DEF Priming, Phases
<1>8. Counts'
  <2> SUFFICES ASSUME ~starved' PROVE (Counts!2)'
    BY <1>3 DEF Counts
  <2>1. filled' = played' + Left' /\ Left' > 0
    BY <1>2, <1>0, <1>0a, <1>0b, <1>5 DEF Counts
  <2>2. pc' \in {"guard", "fill", "publish"} => Left' < BufferCount - 1
    BY <1>2, <1>0a, <1>0b, <1>5 DEF Counts
  <2> QED  BY <2>1, <2>2
<1>9. Contents'
  <2>1. \A b \in Slots : slot'[b] <= packets'
    BY <1>5 DEF Contents
  <2>2. ASSUME ~starved', NEW b \in Slots, Place(b)' < Left'
        PROVE  (slot[b] = Item(played + Place(b) + 1))'
    <3>1. Place(b) = Place(b)' + 1 /\ Place(b) < Left
      BY <1>0, <1>0a, <1>1, <1>2, <1>5, <2>2 DEF Place, Left
    <3>2. slot[b] = Item(played + Place(b) + 1)
      <4>1. ~starved  BY <1>2, <2>2
      <4> QED  BY <3>1, <4>1 DEF Contents
    <3>3. Place(b)' \in Int
      BY <1>0, <1>1 DEF Place
    <3>4. played + Place(b) + 1 = played' + Place(b)' + 1
      BY <1>0, <1>5, <3>1, <3>3
    <3> QED  BY <1>5, <3>2, <3>4
  <2> QED  BY <2>1, <2>2 DEF Contents
<1>10. Supply' /\ Endings'
  BY <1>0a, <1>5 DEF Supply, Ahead, Endings, WholeTrack, HostDrained
<1>11. Writes'
  <2>1. TrackInOrder'
    BY <1>4, <1>5, <1>0 DEF Writes, TrackInOrder
  <2>2. gate => Len(track') = played'
    <3>1. gate => Len(track) = played  BY DEF Writes
    <3>2. slot[reading] \in Items  BY <1>0, <1>0a
    <3> HIDE DEF Items
    <3> QED  BY SMTT(30), <1>5, <1>0, <3>1, <3>2
  <2> QED  BY <2>1, <2>2, <1>5 DEF Writes
<1> QED  BY <1>6, <1>7, <1>8, <1>9, <1>10, <1>11

LEMMA PulseStep == IInv /\ (IndexPulse \/ SectorPulse) => IInv'
<1> SUFFICES ASSUME IInv, IndexPulse \/ SectorPulse PROVE IInv'
  OBVIOUS
<1> USE DEF IInv
<1>1. /\ UNCHANGED <<pc, writing, reading, underrun, packets, countRead, finished, onDisk,
                     dmaOn, slot, outEp, host, sent, outcome, filled, played, starved, track>>
      /\ \/ index' = TRUE /\ gate' = FALSE /\ closedBy' = IF gate THEN "index" ELSE closedBy
         \/ index' = FALSE /\ UNCHANGED <<gate, closedBy>> /\ pc \in Loop
  BY DEF IndexPulse, SectorPulse
<1>0. gate \in BOOLEAN /\ closedBy \in {"none", "index", "abort"}
  BY DEF TypeOK
<1>2. TypeOK' /\ Priming' /\ Phases'
  <2>1. gate' \in BOOLEAN /\ closedBy' \in {"none", "index", "abort"} /\ index' \in BOOLEAN
    BY <1>0, <1>1
  <2>2. TypeOK'  BY <1>1, <2>1 DEF TypeOK
  <2>3. Priming'  BY <1>1 DEF Priming
  <2>4. Phases'  BY <1>0, <1>1 DEF Phases
  <2> QED  BY <2>2, <2>3, <2>4
<1>3. Counts' /\ Contents'
  BY <1>1 DEF Counts, Contents, Left, Place, Base
<1>4. Supply' /\ Endings'
  BY <1>1 DEF Supply, Ahead, Endings, WholeTrack, HostDrained, Writes
<1>5. Writes'
  BY <1>1 DEF Writes, TrackInOrder, Phases, Priming, TypeOK
<1> QED  BY <1>2, <1>3, <1>4, <1>5

(* The steps of cmd_write() that only look.                                  *)
LEMMA LookStep == IInv /\ (Begin \/ CheckRoom \/ Guard \/ WaitIndex \/ Check) => IInv'
<1> SUFFICES ASSUME IInv, Begin \/ CheckRoom \/ Guard \/ WaitIndex \/ Check PROVE IInv'
  OBVIOUS
<1> USE DEF IInv
<1>1. UNCHANGED <<writing, reading, underrun, packets, countRead, finished, index, onDisk, gate,
                  closedBy, dmaOn, slot, outEp, host, sent, outcome, filled, played, starved, track>>
  BY DEF Begin, CheckRoom, Guard, WaitIndex, Check
<1>2. \/ pc = "setup" /\ pc' = "room"
      \/ pc = "room" /\ pc' = "guard" /\ NextBuffer(writing) # reading
      \/ pc = "room" /\ pc' = "check"
      \/ pc \in {"guard", "check"} /\ pc' = "abort" /\ onDisk /\ (underrun \/ index)
      \/ pc = "guard" /\ pc' = "fill"
      \/ pc = "wait" /\ pc' = "open"
      \/ pc = "check" /\ pc' = "room"
  BY DEF Begin, CheckRoom, Guard, WaitIndex, Check, Stop
<1>3. TypeOK' /\ Priming' /\ Phases'
  BY <1>1, <1>2 DEF TypeOK, Priming, Phases
<1>4. Counts'
  <2>1. ASSUME reading # -1, pc = "room", pc' = "guard", NextBuffer(writing) # reading
        PROVE  Left < BufferCount - 1
    <3>1. writing \in Slots /\ reading \in Slots  BY <2>1 DEF TypeOK
    <3>2. (IF writing = BufferCount - 1 THEN 0 ELSE writing + 1) # reading
      BY <2>1, <3>1, NextBufferIs
    <3> QED  BY <2>1, <3>1, <3>2 DEF Left, Base
  <2> QED  BY <1>1, <1>2, <2>1 DEF Counts, Left, Base
<1>5. Contents'
  BY <1>1 DEF Contents, Left, Place, Base
<1>6. Supply' /\ Endings'
  BY <1>1, <1>2 DEF Supply, Ahead, Endings, WholeTrack, HostDrained
<1>7. Writes'
  BY <1>1, <1>2 DEF Writes, TrackInOrder, Phases, Priming
<1> QED  BY <1>3, <1>4, <1>5, <1>6, <1>7

LEMMA FillStep == IInv /\ (FillPacket \/ FillFiller) => IInv'
<1> SUFFICES ASSUME IInv, FillPacket \/ FillFiller PROVE IInv'
  OBVIOUS
<1> USE DEF IInv
<1>0. /\ writing \in Slots /\ reading \in Slots \cup {-1} /\ slot \in [Slots -> Items]
      /\ packets \in 0 .. MaxPackets /\ countRead \in 0 .. packets /\ filled \in Nat
      /\ outcome = "none"
  BY DEF TypeOK, Endings, FillPacket, FillFiller
<1>1. /\ pc = "fill" /\ pc' = "publish"
      /\ UNCHANGED <<writing, reading, underrun, packets, index, onDisk, gate, closedBy, dmaOn,
                     host, sent, outcome, filled, played, starved, track>>
  BY DEF FillPacket, FillFiller
<1>2. \/ /\ ~finished /\ outEp = filled + 1 /\ outEp' = Empty /\ sent = filled + 1
         /\ countRead' = filled + 1 /\ (finished' <=> filled + 1 = packets) /\ filled < packets
         /\ slot' = [slot EXCEPT ![writing] = filled + 1]
      \/ /\ finished /\ finished' /\ UNCHANGED <<outEp, countRead>> /\ packets <= filled
         /\ slot' = [slot EXCEPT ![writing] = 0]
  <2>1. CASE FillPacket
    <3>1. /\ ~finished /\ countRead = filled /\ countRead < packets /\ outEp = sent /\ sent = countRead + 1
      BY <2>1, <1>0 DEF FillPacket, Supply, Ahead
    <3> QED  BY <2>1, <3>1, <1>0 DEF FillPacket
  <2>2. CASE FillFiller
    <3>1. finished /\ packets <= filled
      BY <2>2 DEF FillFiller, Supply, Ahead
    <3> QED  BY <2>2, <3>1, <1>0 DEF FillFiller
  <2> QED  BY <2>1, <2>2
<1>3. /\ slot' \in [Slots -> Items] /\ slot'[writing] = Item(filled + 1)
      /\ slot'[writing] <= packets
      /\ \A b \in Slots : b # writing => slot'[b] = slot[b]
  BY <1>0, <1>2
<1>3a. finished' \in BOOLEAN
  BY DEF FillPacket, FillFiller, TypeOK
<1>4. TypeOK'
  <2>1. TypeOK
    BY Zenon
  <2> USE DEF TypeOK
  <2> HIDE DEF IInv
  <2>2. countRead' \in 0 .. packets /\ finished' \in BOOLEAN
    BY <1>0, <1>2, <1>3a, <2>1
  <2>3. outEp' \in Items \cup {Empty} /\ sent' \in 0 .. packets
    BY <1>1, <1>2, <2>1
  <2>4. slot' \in [Slots -> Items] /\ pc' \in Loop
    BY <1>1, <1>3
  <2> QED  BY <1>1, <2>1, <2>2, <2>3, <2>4
<1>5. Priming' /\ Phases'
  BY <1>1 DEF Priming, Phases
<1>6. Counts'
  BY <1>1 DEF Counts, Left, Base
<1>7. Contents'
  <2>1. ASSUME NEW b \in Slots PROVE slot'[b] <= packets'
    BY <1>0, <1>1, <1>2, <1>3 DEF Contents
  <2>2. ASSUME NEW b \in Slots, ~starved', Place(b)' < Left'
        PROVE  (slot[b] = Item(played + Place(b) + 1))'
    <3>1. Place(b)' = Place(b) /\ Left' = Left
      BY <1>1 DEF Place, Left, Base
    <3>2. b # writing
      <4>1. Left \in Slots  BY <1>0, PlaceIs
      <4>2. Place(b) # Left  BY <2>2, <3>1, <4>1
      <4> QED  BY <1>0, <4>2, PlaceIs
    <3>3. slot[b] = Item(played + Place(b) + 1)
      BY <1>1, <2>2, <3>1 DEF Contents
    <3> QED  BY <1>1, <1>3, <3>1, <3>2, <3>3
  <2> QED  BY <2>1, <2>2 DEF Contents
<1>8. Supply'
  <2>1. (slot[writing] = Item(filled + 1))' /\ Ahead' = filled + 1
    BY <1>1, <1>3 DEF Ahead
  <2>2. /\ finished' => countRead' = packets'
        /\ finished' => packets' <= filled + 1
        /\ ~finished' => countRead' < packets' /\ countRead' = filled + 1
    BY <1>0, <1>1, <1>2 DEF Supply
  <2>3. (IF outEp = Empty THEN sent = countRead ELSE outEp = sent /\ sent = countRead + 1)'
    BY <1>0, <1>1, <1>2 DEF Supply
  <2> QED  BY <1>1, <2>1, <2>2, <2>3 DEF Supply
<1>9. Writes' /\ Endings'
  BY <1>1 DEF Writes, TrackInOrder, Endings, WholeTrack, HostDrained
<1> QED  BY <1>4, <1>5, <1>6, <1>7, <1>8, <1>9

LEMMA PublishStep == IInv /\ Publish => IInv'
<1> SUFFICES ASSUME IInv, Publish PROVE IInv'
  OBVIOUS
<1> USE DEF IInv
<1>0. /\ writing \in Slots /\ reading \in Slots \cup {-1} /\ slot \in [Slots -> Items]
      /\ packets \in 0 .. MaxPackets /\ filled \in Nat /\ played \in Nat /\ starved \in BOOLEAN
      /\ Left \in Slots
  BY SMTT(30), PlaceIs DEF TypeOK
<1>1. /\ pc = "publish" /\ filled' = filled + 1
      /\ pc' = IF reading = -1 /\ writing' = BufferCount - 1 THEN "start" ELSE "check"
      /\ writing' \in Slots /\ writing' = IF writing = BufferCount - 1 THEN 0 ELSE writing + 1
      /\ UNCHANGED <<reading, underrun, packets, countRead, finished, index, onDisk, gate, closedBy,
                     dmaOn, slot, outEp, host, sent, outcome, played, starved, track>>
  BY <1>0, NextBufferIs DEF Publish
<1>2. TypeOK'
  BY <1>0, <1>1 DEF TypeOK
<1>3. Priming'
  BY <1>0, <1>1 DEF Priming
<1>4. Phases'
  BY <1>1 DEF Phases
<1>5. ~starved => Left < BufferCount - 1 /\ Left' = Left + 1
  <2>1. ~starved => Left < BufferCount - 1
    <3>1. CASE reading = -1  BY <1>0, <1>1, <3>1 DEF Priming, Left, Base
    <3>2. CASE reading # -1  BY <1>1, <3>2 DEF Counts
    <3> QED  BY <3>1, <3>2
  <2> QED  BY <1>0, <1>1, <2>1 DEF Left, Base
<1>6. Counts'
  <2> SUFFICES ASSUME ~starved PROVE filled' = played' + Left' /\ Left' > 0
    BY <1>1 DEF Counts
  <2> QED  BY <1>0, <1>1, <1>5 DEF Counts
<1>7. Contents'
  <2> SUFFICES ASSUME NEW b \in Slots, ~starved, Place(b) < Left'
               PROVE  slot[b] = Item(played + Place(b) + 1)
    BY <1>1 DEF Contents, Place, Base
  <2>1. Place(b) \in Slots  BY <1>0, PlaceIs
  <2>2. CASE Place(b) < Left  BY <2>2 DEF Contents
  <2>3. CASE Place(b) = Left
    <3>1. b = writing  BY <1>0, <2>3, PlaceIs
    <3>2. played + Place(b) = filled  BY <1>0, <2>3 DEF Counts
    <3> QED  BY <1>0, <1>1, <3>1, <3>2 DEF Supply
  <2> QED  BY <1>0, <1>5, <2>1, <2>2, <2>3
<1>8. Supply'
  BY <1>0, <1>1 DEF Supply, Ahead
<1>9. Writes' /\ Endings'
  BY <1>1 DEF Writes, TrackInOrder, Endings, WholeTrack, HostDrained
<1> QED  BY <1>2, <1>3, <1>4, <1>6, <1>7, <1>8, <1>9

(* The chain is started, and the gate opened, once.                          *)
LEMMA StartStep == IInv /\ (Start \/ OpenGate) => IInv'
<1> SUFFICES ASSUME IInv, Start \/ OpenGate PROVE IInv'
  OBVIOUS
<1> USE DEF IInv
<1>1. CASE Start
  <2>1. /\ UNCHANGED <<writing, packets, countRead, finished, onDisk, gate, closedBy, slot, outEp,
                       host, sent, outcome, filled, played, starved, track>>
        /\ pc = "start" /\ pc' = "wait" /\ reading' = 0 /\ underrun' = FALSE
        /\ dmaOn' = TRUE /\ index' = FALSE
    BY <1>1 DEF Start
  <2>2. reading = -1 /\ ~onDisk /\ ~starved /\ played = 0 /\ filled = writing /\ writing = BufferCount - 1
    BY <2>1 DEF Priming, Phases, TypeOK
  <2>3. TypeOK' /\ Priming' /\ Phases'
    <3>1. TypeOK'
      <4>1. reading' \in Slots /\ pc' = "wait"  BY <2>1
      <4> QED  BY <2>1, <4>1 DEF TypeOK
    <3>2. Priming'  BY <2>1, <2>2 DEF Priming
    <3>3. Phases'  BY <2>1, <2>2 DEF Phases
    <3> QED  BY <3>1, <3>2, <3>3
  <2>4. Counts' /\ Contents'
    BY <2>1, <2>2 DEF Counts, Contents, Left, Place, Base
  <2>5. Supply' /\ Writes' /\ Endings'
    BY <2>1, <2>2 DEF Supply, Ahead, Writes, Phases, TrackInOrder, Endings, WholeTrack, HostDrained
  <2> QED  BY <2>3, <2>4, <2>5
<1>2. CASE OpenGate
  <2>1. /\ UNCHANGED <<writing, reading, underrun, packets, countRead, finished, closedBy, dmaOn, slot,
                       outEp, host, sent, outcome, filled, played, starved, track>>
        /\ pc = "open" /\ pc' = "check" /\ index' = FALSE /\ onDisk' = TRUE /\ gate' = TRUE
    BY <1>2 DEF OpenGate
  <2>2. reading # -1 /\ ~onDisk /\ played = 0 /\ track = <<>> /\ closedBy = "none" /\ dmaOn
    BY <2>1 DEF Priming, Phases
  <2>3. TypeOK' /\ Priming' /\ Phases'
    <3>1. TypeOK'  BY <2>1, <2>2 DEF TypeOK
    <3>2. Priming'  BY <2>1, <2>2 DEF Priming
    <3>3. Phases'  BY <2>1, <2>2 DEF Phases
    <3> QED  BY <3>1, <3>2, <3>3
  <2>4. Counts' /\ Contents'
    BY <2>1, <2>2 DEF Counts, Contents, Left, Place, Base
  <2>5. Supply' /\ Writes' /\ Endings'
    BY <2>1, <2>2 DEF Supply, Ahead, Writes, TrackInOrder, Endings, WholeTrack, HostDrained
  <2> QED  BY <2>3, <2>4, <2>5
<1> QED  BY <1>1, <1>2

LEMMA AbortStep == IInv /\ (Abort \/ Watchdog) => IInv'
<1> SUFFICES ASSUME IInv, Abort \/ Watchdog PROVE IInv'
  OBVIOUS
<1> USE DEF IInv
<1>1. /\ UNCHANGED <<writing, reading, underrun, packets, countRead, finished, index, onDisk, slot,
                     host, sent, filled, played, starved, track>>
      /\ ~dmaOn' /\ dmaOn' \in BOOLEAN /\ gate' = FALSE
      /\ closedBy' = IF gate THEN "abort" ELSE closedBy
      /\ \/ pc = "abort" /\ pc' = "blackhole" /\ UNCHANGED <<outEp, outcome>>
         \/ /\ pc \in Loop \cup {"blackhole"} /\ pc' = "done" /\ outcome' = "RESET" /\ outEp' = Empty
  BY DEF Abort, Watchdog
<1>2. TypeOK'
  <2>1. TypeOK
    BY Zenon
  <2> USE DEF TypeOK
  <2>2. /\ pc' \in Loop \cup {"setup", "abort", "blackhole", "reply", "done"}
        /\ outcome' \in {"none", "WRITE_REPLY", "UNDERRUN", "RESET"}
        /\ closedBy' \in {"none", "index", "abort"}
    <3> HIDE DEF IInv
    <3> QED  BY <1>1, <2>1
  <2>3. outEp' \in Items \cup {Empty} /\ gate' \in BOOLEAN
    <3> HIDE DEF IInv
    <3> QED  BY <1>1, <2>1
  <2> HIDE DEF IInv
  <2> QED  BY <1>1, <2>1, <2>2, <2>3
<1>3. Priming' /\ Phases'
  BY <1>1 DEF Priming, Phases, TypeOK
<1>4. Counts' /\ Contents'
  BY <1>1 DEF Counts, Contents, Left, Place, Base
<1>5. Supply' /\ Endings'
  BY <1>1 DEF Supply, Ahead, Endings, WholeTrack, HostDrained
<1>6. Writes'
  BY <1>1 DEF Writes, TrackInOrder, TypeOK
<1> QED  BY <1>2, <1>3, <1>4, <1>5, <1>6

LEMMA BlackholeStep == IInv /\ Blackhole => IInv'
<1> SUFFICES ASSUME IInv, Blackhole PROVE IInv'
  OBVIOUS
<1> USE DEF IInv
<1>0. /\ countRead \in 0 .. packets /\ sent \in 0 .. packets /\ packets \in 0 .. MaxPackets
      /\ outcome = "none"
  BY DEF TypeOK, Endings, Blackhole
<1>1. /\ pc = "blackhole"
      /\ UNCHANGED <<writing, reading, underrun, packets, finished, index, onDisk, gate, closedBy,
                     dmaOn, slot, host, sent, outcome, filled, played, starved, track>>
      /\ \/ pc' = "reply" /\ UNCHANGED <<outEp, countRead>> /\ countRead = packets
         \/ /\ pc' = pc /\ ~finished /\ countRead # packets /\ outEp # Empty
            /\ outEp' = Empty /\ countRead' = countRead + 1
  BY DEF Blackhole, Supply
<1>2. TypeOK'
  BY <1>0, <1>1 DEF TypeOK
<1>3. Priming' /\ Phases'
  BY <1>1 DEF Priming, Phases
<1>4. Counts' /\ Contents'
  BY <1>1 DEF Counts, Contents, Left, Place, Base
<1>5. Supply'
  BY <1>0, <1>1 DEF Supply
<1>6. Writes' /\ Endings'
  BY <1>0, <1>1 DEF Writes, TrackInOrder, Endings, WholeTrack, HostDrained
<1> QED  BY <1>2, <1>3, <1>4, <1>5, <1>6

LEMMA ReplyStep == IInv /\ Reply => IInv'
<1> SUFFICES ASSUME IInv, Reply PROVE IInv'
  OBVIOUS
<1> USE DEF IInv
<1>1. /\ pc = "reply" /\ pc' = "done" /\ outcome' = IF underrun THEN "UNDERRUN" ELSE "WRITE_REPLY"
      /\ UNCHANGED <<writing, reading, underrun, packets, countRead, finished, index, onDisk, gate,
                     closedBy, dmaOn, slot, outEp, host, sent, filled, played, starved, track>>
  BY DEF Reply
<1>2. TypeOK' /\ Priming' /\ Phases'
  BY <1>1 DEF TypeOK, Priming, Phases
<1>3. Counts' /\ Contents'
  BY <1>1 DEF Counts, Contents, Left, Place, Base
<1>4. countRead = packets /\ sent = packets /\ outEp = Empty
  BY <1>1 DEF Supply, Endings, TypeOK
<1>5. Supply'
  BY <1>1, <1>4 DEF Supply
<1>6. Writes' /\ Endings'
  BY <1>1, <1>4 DEF Writes, TrackInOrder, Endings, WholeTrack, HostDrained, Counts
<1> QED  BY <1>2, <1>3, <1>5, <1>6

LEMMA HostStep == IInv /\ (HostSend \/ HostAwait \/ HostFinish) => IInv'
<1> SUFFICES ASSUME IInv, HostSend \/ HostAwait \/ HostFinish PROVE IInv'
  OBVIOUS
<1> USE DEF IInv
<1>1. /\ UNCHANGED <<pc, writing, reading, underrun, packets, countRead, finished, index, onDisk, gate,
                     closedBy, dmaOn, slot, outcome, filled, played, starved, track>>
      /\ \/ /\ host' = host /\ pc \in {"fill", "blackhole"} /\ sent < packets /\ outEp = Empty
            /\ sent' = sent + 1 /\ outEp' = sent + 1
         \/ host' \in {"awaiting", "done", "error"} /\ UNCHANGED <<sent, outEp>>
  BY DEF HostSend, HostAwait, HostFinish, EpEnabled
<1>2. TypeOK'
  BY <1>1 DEF TypeOK
<1>3. Priming' /\ Phases'
  BY <1>1 DEF Priming, Phases
<1>4. Counts' /\ Contents'
  BY <1>1 DEF Counts, Contents, Left, Place, Base
<1>5. Supply'
  BY <1>1 DEF Supply, Ahead, TypeOK
<1>6. Writes' /\ Endings'
  BY <1>1 DEF Writes, TrackInOrder, Endings, WholeTrack, HostDrained
<1> QED  BY <1>2, <1>3, <1>4, <1>5, <1>6

LEMMA StepIInv == IInv /\ [Next]_vars => IInv'
<1> SUFFICES ASSUME IInv, [Next]_vars PROVE IInv'
  OBVIOUS
<1>1. CASE PlayFinish  BY <1>1, PlayFinishStep
<1>2. CASE IndexPulse \/ SectorPulse  BY <1>2, PulseStep
<1>3. CASE CmdWrite
  BY <1>3, LookStep, FillStep, PublishStep, StartStep, AbortStep, BlackholeStep, ReplyStep DEF CmdWrite
<1>4. CASE Watchdog  BY <1>4, AbortStep
<1>5. CASE HostSend \/ HostAwait \/ HostFinish  BY <1>5, HostStep
<1>6. CASE UNCHANGED vars
  BY <1>6 DEF vars, IInv, TypeOK, Priming, Phases, Counts, Contents, Left, Place, Base, Supply, Ahead,
              Writes, TrackInOrder, Endings, WholeTrack, HostDrained
<1> QED  BY <1>1, <1>2, <1>3, <1>4, <1>5, <1>6 DEF Next

THEOREM Invariance == Spec => []IInv
BY InitIInv, StepIInv, PTL DEF Spec

-----------------------------------------------------------------------------
(* What the invariant says of the ring, the track and the reply.             *)

(* The distance that the cursors tell is the one without the modulus.        *)
LEMMA PendingIs ==
    ASSUME writing \in Slots, reading \in Slots
    PROVE  /\ Pending = Left
           /\ \A k \in Slots : /\ (reading + k) % BufferCount \in Slots
                               /\ Place((reading + k) % BufferCount) = k
<1>1. Pending = Left
  <2>1. writing - reading \in Int /\ -BufferCount < writing - reading /\ writing - reading < 2 * BufferCount
    OBVIOUS
  <2> QED  BY <2>1, ModulusIs DEF Pending, Left, Base
<1>2. ASSUME NEW k \in Slots
      PROVE  /\ (reading + k) % BufferCount \in Slots
             /\ Place((reading + k) % BufferCount) = k
  <2>1. reading + k \in Int /\ -BufferCount < reading + k /\ reading + k < 2 * BufferCount
    OBVIOUS
  <2>2. (reading + k) % BufferCount = IF reading + k < BufferCount THEN reading + k
                                      ELSE reading + k - BufferCount
    BY <2>1, ModulusIs
  <2> QED  BY <2>2 DEF Place, Base
<1> QED  BY <1>1, <1>2

\* The cursors, the flag and the buffers of the ring agree (main.c, cmd_write()
\* and replay_dma_finished_irq_cb()): the types, dma_underrun is exact, and no
\* buffer is refilled before it has been played.
THEOREM RingCorrect == Spec => []RingIntact
<1>1. IInv => RingIntact
  <2> SUFFICES ASSUME IInv PROVE RingIntact
    OBVIOUS
  <2> USE DEF IInv
  <2>1. FlagExact  BY DEF FlagExact, Counts
  <2>2. ASSUME dmaOn, ~starved PROVE PendingIntact!2
    <3>1. writing \in Slots /\ reading \in Slots /\ filled \in Nat /\ played \in Nat
      BY <2>2 DEF TypeOK, Priming
    <3>2. Pending = Left /\ Left \in Slots  BY <3>1, PendingIs, PlaceIs
    <3>3. Pending = filled - played  BY <2>2, <3>1, <3>2 DEF Counts
    <3>4. ASSUME NEW k \in 0 .. Pending - 1
          PROVE  slot[(reading + k) % BufferCount] = Item(played + k + 1)
      <4> DEFINE b == (reading + k) % BufferCount
      <4>1. k \in Slots /\ k < Left  BY <3>2
      <4>2. b \in Slots /\ Place(b) = k  BY <3>1, <4>1, PendingIs
      <4>3. slot[b] = Item(played + Place(b) + 1)  BY <2>2, <4>1, <4>2 DEF Contents
      <4> QED  BY <4>2, <4>3
    <3> QED  BY <3>3, <3>4
  <2>3. PendingIntact  BY <2>2 DEF PendingIntact
  <2> QED  BY <2>1, <2>3 DEF RingIntact
<1> QED  BY <1>1, Invariance, PTL

\* What cmd_write() leaves on the track is the host's packets in order and then
\* filler, unless the drive was starved, and it says that it has written a track
\* only if it was not, and wrote up to an index pulse.
THEOREM TrackCorrect == Spec => []TrackFaithful
<1>1. IInv => TrackFaithful
  BY DEF IInv, Writes, Endings, TrackFaithful
<1> QED  BY <1>1, Invariance, PTL

\* Once cmd_write() replies, FluxEngineUsb::write() has sent all its packets and
\* none is left for the next session.
THEOREM DrainCorrect == Spec => []HostDrained
<1>1. IInv => HostDrained
  BY DEF IInv, Endings
<1> QED  BY <1>1, Invariance, PTL

\* ERASE_REG is set once in a session, before anything has been written, and an
\* index pulse always finds it clear, or clears it.
THEOREM GateCorrect == Spec => GateOncePerSession
<1> DEFINE Step == /\ gate' /\ ~gate => closedBy = "none" /\ ~onDisk
                   /\ index' /\ ~index => ~gate'
<1>1. IInv /\ [Next]_vars => [Step]_vars
  <2> SUFFICES ASSUME IInv, Next PROVE Step
    OBVIOUS
  <2>1. CASE OpenGate  BY <2>1 DEF OpenGate, IInv, Phases, Priming
  <2>2. CASE IndexPulse  BY <2>2 DEF IndexPulse
  <2>3. CASE (~gate' \/ gate' = gate) /\ (~index' \/ index' = index)  BY <2>3
  <2> QED
    BY <2>1, <2>2, <2>3
    DEF Next, CmdWrite, PlayFinish, SectorPulse, Begin, CheckRoom, Guard, FillPacket, FillFiller,
        Publish, Start, WaitIndex, Check, Abort, Blackhole, Reply, Watchdog, HostSend, HostAwait,
        HostFinish
<1> QED  BY <1>1, Invariance, PTL DEF Spec, GateOncePerSession

-----------------------------------------------------------------------------
(* Refinement of TrackWrite.                                                 *)

LEMMA InitRefines == Init => Promise!Init
BY DEF Init, Promise!Init, TrackGate

LEMMA StepRefines == IInv /\ [Next]_vars => [Promise!Next]_(Promise!trackVars)
<1> SUFFICES ASSUME IInv, [Next]_vars
             PROVE  Promise!Next \/ UNCHANGED <<packets, track, TrackGate, starved, outcome>>
  BY DEF Promise!trackVars
<1>0. /\ starved \in BOOLEAN /\ gate \in BOOLEAN /\ onDisk \in BOOLEAN /\ packets \in Nat
      /\ gate => onDisk
  BY DEF IInv, TypeOK, Writes
<1>1. CASE PlayFinish
  <2>1. /\ UNCHANGED <<packets, TrackGate, outcome>> /\ starved' \in {starved, TRUE} /\ onDisk
        /\ track' = IF gate THEN Append(track, slot[reading]) ELSE track
    BY <1>0, <1>1 DEF PlayFinish, TrackGate
  <2>2. CASE gate
    <3>1. /\ reading \in Slots /\ slot \in [Slots -> Items] /\ played \in Nat
          /\ writing \in Slots /\ Base = reading
      BY <1>1 DEF IInv, TypeOK, Priming, PlayFinish, Base
    <3>2. slot[reading] \in 0 .. packets
      BY <1>0, <3>1 DEF IInv, Contents
    <3>3. CASE starved
      BY <2>1, <2>2, <3>2, <3>3 DEF TrackGate, Promise!Next, Promise!WriteDamaged
    <3>4. CASE ~starved
      <4>1. Place(reading) = 0 /\ Left > 0
        BY <3>1, <3>4, PlaceIs DEF IInv, Counts
      <4>2. slot[reading] = Item(played + Place(reading) + 1)
        BY <3>1, <3>4, <4>1 DEF IInv, Contents
      <4>3. played + Place(reading) + 1 = Len(track) + 1
        BY <2>2, <3>1, <4>1 DEF IInv, Writes
      <4>4. track' = Append(track, Item(Len(track) + 1))
        BY <2>1, <2>2, <4>2, <4>3
      <4> QED
        BY <2>1, <2>2, <4>4 DEF TrackGate, Promise!Next, Promise!Write, Promise!Item, Promise!Filler
    <3> QED  BY <3>3, <3>4
  <2>3. CASE ~gate
    BY <2>1, <2>3 DEF TrackGate, Promise!Next, Promise!Starve
  <2> QED  BY <1>0, <2>2, <2>3
<1>2. CASE OpenGate
  <2>1. ~onDisk /\ ~gate /\ outcome = "none"
    BY <1>2 DEF OpenGate, IInv, TypeOK, Priming, Phases, Endings
  <2> QED  BY <1>2, <2>1 DEF OpenGate, TrackGate, Promise!Next, Promise!Open
<1>3. CASE IndexPulse \/ Abort
  <2>1. ~gate' /\ UNCHANGED <<packets, track, onDisk, starved, outcome>>
    BY <1>3 DEF IndexPulse, Abort
  <2> QED  BY <1>0, <2>1 DEF TrackGate, Promise!Next, Promise!Close
<1>4. CASE Reply
  <2>1. /\ ~gate /\ onDisk /\ outcome = "none" /\ (underrun <=> starved)
        /\ UNCHANGED <<packets, track, gate, onDisk, starved>>
        /\ outcome' = IF underrun THEN "UNDERRUN" ELSE "WRITE_REPLY"
    BY <1>4 DEF Reply, IInv, TypeOK, Priming, Phases, Counts, Writes, Endings
  <2>2. CASE starved  BY <2>1, <2>2 DEF TrackGate, Promise!Next, Promise!Fail
  <2>3. CASE ~starved  BY <2>1, <2>3 DEF TrackGate, Promise!Next, Promise!Succeed
  <2> QED  BY <2>2, <2>3
<1>5. CASE Watchdog
  <2>1. /\ outcome = "none" /\ outcome' = "RESET" /\ ~gate'
        /\ UNCHANGED <<packets, track, onDisk, starved>>
    BY <1>5 DEF Watchdog, IInv, Endings
  <2> QED  BY <1>0, <2>1 DEF TrackGate, Promise!Next, Promise!Reset
<1>6. CASE UNCHANGED <<packets, track, gate, onDisk, starved, outcome>>
  BY <1>6 DEF TrackGate
<1> QED
  BY <1>1, <1>2, <1>3, <1>4, <1>5, <1>6
  DEF Next, CmdWrite, vars, SectorPulse, Begin, CheckRoom, Guard, FillPacket, FillFiller, Publish,
      Start, WaitIndex, Check, Blackhole, HostSend, HostAwait, HostFinish

\* cmd_write(), its interrupts and the host's usb_data_send() together write a
\* track as TrackWrite promises.
THEOREM Refinement == Spec => RefinesTrackWrite
<1>1. Init => IInv  BY InitIInv
<1>2. IInv /\ [Next]_vars => IInv'  BY StepIInv
<1> QED
  BY <1>1, <1>2, InitRefines, StepRefines, PTL DEF Spec, RefinesTrackWrite, Promise!Spec
=============================================================================
