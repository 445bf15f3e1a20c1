----------------------- MODULE CaptureRing_proofs -----------------------
(***************************************************************************)
(* Proofs about CaptureRing, for every ring size, host buffer, bound and   *)
(* behaviour of the silicon.  The inductive invariant says where every     *)
(* fragment is: with the host, in the endpoint, or in the buffer its       *)
(* distance from dma_reading_from_td says it must be in.                   *)
(***************************************************************************)
EXTENDS CaptureRing, TLAPS

\* Before the loop: the cursors start at 0 and nothing has been sent.
Starting ==
    /\ pc \in {"setup", "first", "claim"} =>
          /\ ep = Empty /\ received = <<>> /\ host = "receiving"
          /\ ~underrun /\ ~overran /\ ~saved
    /\ pc = "setup" => captured = 0 /\ ~dmaOn
    /\ pc \in {"first", "claim"} =>
          /\ writing = captured /\ reading = -1
          /\ captured <= StartupLag
          /\ \A b \in Slots : b < writing => slot[b] = b + 1
    /\ pc = "claim" => captured > 0

\* In the loop: the cursors and the contents of the buffers between them.
Place(b) == IF b >= reading THEN b - reading ELSE b - reading + BufferCount

Cursors == InLoop => reading \in Slots /\ (running \/ ~dmaOn)

Counts ==
    InLoop /\ ~overran =>
        /\ ~underrun
        /\ Released + Waiting \in Produced
        /\ pc \in {"send", "advance"} => Waiting > 0

Contents ==
    InLoop /\ ~overran =>
        \A b \in Slots : Place(b) < Waiting =>
            slot[b] = IF Released + Place(b) = captured THEN Partial
                      ELSE Released + Place(b) + 1

\* After the loop: without an overrun, all there was has been sent.
Ending ==
    /\ pc \in {"abort", "zlp", "drain", "reply", "done"} /\ outcome # "RESET"
       /\ ~overran
          => /\ ~dmaOn /\ ~underrun /\ Loaded >= captured
             /\ pc # "abort" => ~saved
    /\ pc = "done" /\ ~overran => ~dmaOn
    /\ pc \in {"reply", "done"} => ep = Empty
    /\ outcome = "UNDERRUN" => saved

\* What is in the endpoint and on the host.
InFlight ==
    /\ ep = Zlp => pc = "drain"
    /\ pc = "drain" => ep = Zlp \/ (ep = Empty /\ host = "awaiting")
    /\ outcome # "none" <=> pc = "done"
    /\ host = "data" => outcome = "READ_REPLY"
    /\ host = "error" => outcome # "none"
    /\ ~overran =>
          /\ \A i \in 1 .. Len(received) :
                 received[i] = IF i = captured + 1 THEN Partial ELSE i
          /\ ep \notin {Empty, Zlp} =>
                 ep = IF Loaded = captured + 1 THEN Partial ELSE Loaded
          /\ Loaded <= captured + 1
          /\ running => Loaded <= captured
    /\ pc = "advance" => Loaded > 0

IInv ==
    /\ TypeOK
    /\ Starting
    /\ Cursors
    /\ Counts
    /\ Contents
    /\ Ending
    /\ InFlight

-----------------------------------------------------------------------------
USE CaptureAssumption DEF Slots, Content, Partial, Zlp, Empty, ringVars, dmaVars,
                          hostVars, Blocked

(* NEXT_BUFFER() without the modulus. *)
LEMMA NextBufferIs ==
    \A b \in Slots : /\ NextBuffer(b) \in Slots
                     /\ NextBuffer(b) = IF b = BufferCount - 1 THEN 0 ELSE b + 1
BY SMT DEF NextBuffer

LEMMA LoadedIs ==
    TypeOK => /\ Loaded \in Nat /\ Released \in Int /\ Len(received) \in Nat
              /\ Loaded >= Len(received)
BY DEF TypeOK, Loaded, Released

(* The distance between the cursors, and where a buffer lies between them. *)
LEMMA WaitingIs ==
    ASSUME TypeOK, reading \in Slots
    PROVE  /\ Waiting \in 0 .. BufferCount - 1
           /\ Waiting = 0 <=> writing = reading
BY DEF TypeOK, Waiting

LEMMA PlaceIs ==
    ASSUME reading \in Slots, writing \in Slots, NEW b \in Slots
    PROVE  /\ Place(b) \in Slots
           /\ b = writing <=> Place(b) = Waiting
           /\ b = reading <=> Place(b) = 0
BY DEF Place, Waiting

-----------------------------------------------------------------------------
(* The steps that move a fragment, one lemma each. *)
LEMMA DmaFillStep == IInv /\ DmaFill => IInv'
<1> SUFFICES ASSUME IInv, DmaFill PROVE IInv'
  OBVIOUS
<1> USE DEF IInv
<1>1. /\ UNCHANGED <<pc, writing, reading, underrun, running, saved, dmaOn, captured, overran, expired, outcome, ep, host, received>>
      /\ Loaded' = Loaded /\ Released' = Released /\ Waiting' = Waiting
      /\ slot' = [slot EXCEPT ![writing] = Partial] /\ writing \in Slots /\ slot \in [Slots -> Content]
  BY DEF DmaFill, Loaded, Released, Waiting, TypeOK
<1>2. TypeOK' /\ Starting' /\ Cursors' /\ InFlight' /\ Counts' /\ Ending'
  BY <1>1 DEF TypeOK, Starting, Cursors, Counts, Produced, Ending, InFlight, InLoop
<1>3. Contents'
  <2> SUFFICES ASSUME InLoop, ~overran, NEW b \in Slots, Place(b) < Waiting
               PROVE slot'[b] = slot[b]
    BY <1>1 DEF Contents, Place, InLoop
  <2>1. b # writing
    BY <1>1 DEF Place, Waiting, Cursors
  <2> QED BY <1>1, <2>1
<1> QED BY <1>2, <1>3

LEMMA DmaFinishStep == IInv /\ DmaFinish => IInv'
<1> SUFFICES ASSUME IInv, DmaFinish PROVE IInv'
  OBVIOUS
<1> USE DEF IInv
<1>0. /\ Loaded \in Nat /\ Released \in Int /\ Len(received) \in Nat /\ Loaded >= Len(received)
      /\ writing \in Slots /\ captured \in Nat /\ overran \in BOOLEAN /\ underrun \in BOOLEAN
      /\ slot \in [Slots -> Content]
  BY LoadedIs DEF TypeOK
<1>1. TypeOK'
  BY NextBufferIs DEF DmaFinish, FinishedIrq, TypeOK
<1>2. /\ Loaded' = Loaded /\ Released' = Released
      /\ InLoop' = InLoop /\ (InLoop => running /\ running')
  BY DEF DmaFinish, FinishedIrq, Loaded, Released, InLoop, Cursors
<1>3. Starting'
  <2>1. ASSUME pc \in {"first", "claim"}
        PROVE /\ writing' = captured + 1 /\ ~underrun' /\ ~overran'
    BY <2>1, <1>0, NextBufferIs DEF DmaFinish, FinishedIrq, Starting, OutOfRoom, Released, Loaded
  <2> QED  BY <2>1 DEF DmaFinish, FinishedIrq, Starting, TypeOK
<1>4. Cursors'
  BY <1>2 DEF DmaFinish, Cursors, InLoop
<1>5. ASSUME InLoop, ~overran'
      PROVE /\ captured = Released + Waiting /\ Waiting \in 0 .. BufferCount - 2
            /\ Waiting' = Waiting + 1 /\ ~underrun' /\ ~overran
  <2>0. ~overran /\ ~OutOfRoom
    BY <1>5 DEF DmaFinish
  <2>1. reading \in Slots /\ captured + 1 - Released < BufferCount
    BY <1>5, <1>0, <2>0 DEF Cursors, OutOfRoom
  <2>2. Released + Waiting = captured /\ ~underrun
    BY <1>2, <1>5, <2>0, <1>0 DEF Counts, Produced, TypeOK
  <2>3. Waiting \in 0 .. BufferCount - 2
    BY <2>1, <2>2, <1>0, WaitingIs
  <2>4. /\ writing' \in Slots /\ reading' = reading
        /\ writing' = IF writing = BufferCount - 1 THEN 0 ELSE writing + 1
    BY <1>0, NextBufferIs DEF DmaFinish, FinishedIrq
  <2>5. Waiting' = Waiting + 1 /\ writing' # reading
    BY <2>1, <2>3, <2>4, <1>0 DEF Waiting
  <2>6. ~underrun'
    BY <2>2, <2>5 DEF DmaFinish, FinishedIrq
  <2> QED BY <2>0, <2>2, <2>3, <2>5, <2>6
<1>6. Counts'
  <2> SUFFICES ASSUME InLoop, ~overran'
               PROVE /\ ~underrun' /\ Released + Waiting' \in Produced' /\ Waiting' > 0
    BY <1>2 DEF Counts
  <2>1. Released + Waiting' = captured'
    BY <1>0, <1>5 DEF DmaFinish
  <2> QED BY SMTT(30), <1>0, <1>5, <2>1, <1>2 DEF Produced, DmaFinish
<1>7. Contents'
  <2> SUFFICES ASSUME InLoop, ~overran', NEW b \in Slots, Place(b) < Waiting + 1
               PROVE slot'[b] = Released + Place(b) + 1 /\ Released + Place(b) # captured + 1
    BY <1>2, <1>5 DEF Contents, Place, DmaFinish
  <2>1. reading \in Slots /\ writing \in Slots
    BY DEF TypeOK, Cursors
  <2>2. CASE b = writing
    BY <1>5, <2>1, <2>2 DEF Place, Waiting, DmaFinish, TypeOK
  <2>3. CASE b # writing
    <3>1. Place(b) < Waiting
      BY <1>5, <2>1, <2>3 DEF Place, Waiting
    <3>2. Place(b) \in Nat
      BY <2>1 DEF Place
    <3>3. Released + Place(b) < captured
      BY <3>1, <3>2, <1>5, <1>0
    <3>4. slot'[b] = slot[b]
      BY <2>3, <1>0 DEF DmaFinish
    <3>5. slot[b] = Released + Place(b) + 1
      BY <3>1, <3>2, <3>3, <1>0, <1>5 DEF Contents
    <3> QED BY <3>3, <3>4, <3>5, <3>2, <1>0 
  <2> QED BY <2>2, <2>3
<1>8. Ending'
  BY <1>2 DEF Ending, DmaFinish, FinishedIrq, TypeOK, Starting, InLoop
<1>9. InFlight'
  <2>1. CASE InLoop /\ ~overran'
     <3>1. Loaded <= captured
      BY <1>2, <2>1 DEF DmaFinish, InFlight
     <3> QED BY <3>1, <2>1, <1>2, <1>0 DEF InFlight, DmaFinish, TypeOK, InLoop
  <2>2. CASE ~InLoop /\ ~overran'
    BY <1>2, <2>2, <1>0 DEF InFlight, DmaFinish, TypeOK, Starting, Ending, Loaded, InLoop
  <2>3. CASE overran'
    BY <1>2, <2>3 DEF InFlight, DmaFinish, TypeOK, InLoop
  <2> QED BY <2>1, <2>2, <2>3 DEF TypeOK
<1> QED BY <1>1, <1>3, <1>4, <1>6, <1>7, <1>8, <1>9

LEMMA TerminateStep == IInv /\ Terminate => IInv'
<1> SUFFICES ASSUME IInv, Terminate PROVE IInv'
  OBVIOUS
<1> USE DEF IInv
<1>0. /\ Loaded \in Nat /\ Released \in Int /\ Len(received) \in Nat /\ Loaded >= Len(received)
      /\ writing \in Slots /\ captured \in Nat /\ overran \in BOOLEAN
      /\ slot \in [Slots -> Content]
  BY LoadedIs DEF TypeOK
<1>1. TypeOK'
  <2>1. writing' \in Slots /\ slot' \in [Slots -> Content] /\ overran' \in BOOLEAN
    <3>1. CASE UNCHANGED <<writing, slot, overran>>
      BY <1>0, <3>1
    <3>2. CASE /\ writing' = NextBuffer(writing)
               /\ overran' = (overran \/ OutOfRoom)
               /\ slot' = [slot EXCEPT ![writing] = Partial]
      <4>1. writing' \in Slots /\ slot' \in [Slots -> Content]
        BY <1>0, <3>2, NextBufferIs
      <4> QED BY <3>2, <4>1
    <3> QED BY <3>1, <3>2 DEF Terminate
  <2> QED BY <2>1 DEF Terminate, TypeOK
<1>2. /\ pc = "timer" /\ pc' = "check" /\ running /\ ~running' /\ ~dmaOn'
      /\ reading' = reading /\ captured' = captured /\ ~underrun'
      /\ outcome' = outcome /\ saved' = saved
      /\ Loaded' = Loaded /\ Released' = Released /\ Released = Loaded
  BY DEF Terminate, Loaded, Released
<1>3. Starting' /\ Ending'
  BY <1>2 DEF Starting, Ending
<1>4. Cursors'
  BY <1>2 DEF Cursors, InLoop
<1>5. ASSUME ~overran'
      PROVE /\ ~overran /\ reading \in Slots /\ Waiting \in 0 .. BufferCount - 1
            /\ captured = Released + Waiting
            /\ \/ Waiting' = Waiting /\ slot' = slot
               \/ /\ Waiting' = Waiting + 1 
                  /\ slot' = [slot EXCEPT ![writing] = Partial]
  <2>1. ~overran /\ reading \in Slots
    BY <1>2, <1>5 DEF Terminate, Cursors, InLoop
  <2>2. captured = Released + Waiting /\ Waiting \in 0 .. BufferCount - 1
    BY <1>0, <1>2, <2>1, WaitingIs DEF Counts, Produced, InLoop
  <2>3. CASE UNCHANGED <<writing, slot, overran>>
    BY <1>2, <2>1, <2>2, <2>3 DEF Waiting
  <2>4. CASE /\ writing' = NextBuffer(writing)
             /\ overran' = (overran \/ OutOfRoom)
             /\ slot' = [slot EXCEPT ![writing] = Partial]
    <3>0. ~OutOfRoom
      BY <1>5, <2>4
    <3>1. captured + 1 - Released < BufferCount
      BY <1>0, <3>0 DEF OutOfRoom
    <3>2. writing' = IF writing = BufferCount - 1 THEN 0 ELSE writing + 1
      BY <1>0, <2>4, NextBufferIs
    <3>3. Waiting' = Waiting + 1
      BY <1>0, <1>2, <2>1, <2>2, <3>1, <3>2 DEF Waiting
    <3> QED BY <2>1, <2>2, <2>4, <3>3
  <2> QED BY <2>3, <2>4 DEF Terminate
<1>6. Counts'
  <2> SUFFICES ASSUME ~overran'
               PROVE Released + Waiting' \in captured .. captured + 1
    BY <1>2 DEF Counts, Produced
  <2> QED BY SMTT(30), <1>0, <1>5
<1>7. Contents'
  <2> SUFFICES ASSUME ~overran', NEW b \in Slots, Place(b) < Waiting'
               PROVE slot'[b] = IF Released + Place(b) = captured THEN Partial ELSE Released + Place(b) + 1
    BY <1>2 DEF Contents, Place
  <2>0. Place(b) \in Nat
    BY <1>5 DEF Place
  <2>1. CASE Place(b) < Waiting
    <3>1. slot[b] = Released + Place(b) + 1 /\ Released + Place(b) # captured
      BY <1>0, <1>2, <1>5, <2>0, <2>1 DEF Contents, InLoop
    <3>2. b # writing
      BY <1>0, <1>5, <2>1 DEF Place, Waiting
    <3> QED BY <1>0, <1>5, <3>1, <3>2
  <2>2. CASE ~(Place(b) < Waiting)
    <3>1. Waiting' = Waiting + 1 /\ slot' = [slot EXCEPT ![writing] = Partial]
      BY <1>5, <2>2
    <3>2. Place(b) = Waiting
      BY <1>5, <2>0, <2>2, <3>1
    <3>3. b = writing
      BY <1>0, <1>5, <3>2, PlaceIs
    <3> QED BY <1>0, <1>5, <3>1, <3>2, <3>3
  <2> QED BY <2>1, <2>2
<1>8. InFlight'
  BY <1>0, <1>2 DEF InFlight, Terminate
<1> QED BY <1>1, <1>3, <1>4, <1>6, <1>7, <1>8

LEMMA CheckEmptyStep == IInv /\ CheckEmpty => IInv'
<1> SUFFICES ASSUME IInv, CheckEmpty PROVE IInv'
  OBVIOUS
<1> USE DEF IInv
<1>1. /\ UNCHANGED <<writing, reading, underrun, running, saved, dmaOn, slot, captured, overran, expired, outcome, ep, host, received>>
      /\ Loaded' = Loaded /\ Released = Loaded /\ Released' = Loaded /\ Waiting' = Waiting
      /\ pc = "empty" /\ pc' \in {"send", "timer", "abort"}
      /\ (pc' = "send" <=> reading # writing) /\ (pc' = "abort" => ~running)
  BY DEF CheckEmpty, Loaded, Released, Waiting
<1>2. Loaded \in Nat /\ captured \in Nat /\ Waiting \in Nat /\ (Waiting = 0 <=> writing = reading)
  BY <1>1, LoadedIs, WaitingIs DEF TypeOK, Cursors, InLoop
<1>3. TypeOK' /\ Starting' /\ Cursors' /\ Contents' /\ InFlight'
  BY <1>1 DEF TypeOK, Starting, Cursors, Contents, Place, InFlight, InLoop
<1>4. Counts'
  BY <1>1, <1>2 DEF Counts, Produced, InLoop
<1>5. Ending'
  BY <1>1, <1>2 DEF Ending, Counts, Produced, Cursors, InLoop, TypeOK
<1> QED BY <1>3, <1>4, <1>5

LEMMA SendFragmentStep == IInv /\ SendFragment => IInv'
<1> SUFFICES ASSUME IInv, SendFragment PROVE IInv'
  OBVIOUS
<1> USE DEF IInv
<1>0. /\ Loaded \in Nat /\ Released \in Int /\ Len(received) \in Nat /\ Loaded = Len(received)
      /\ writing \in Slots /\ captured \in Nat /\ overran \in BOOLEAN
      /\ slot \in [Slots -> Content] /\ reading \in Slots /\ Waiting \in 0 .. BufferCount - 1
  BY LoadedIs, WaitingIs DEF TypeOK, Loaded, SendFragment, Cursors, InLoop
<1>1. TypeOK'
  BY <1>0 DEF SendFragment, TypeOK
<1>2. /\ pc = "send" /\ pc' = "advance" /\ ep = Empty /\ ep' = slot[reading]
      /\ UNCHANGED <<reading, writing, captured, underrun, slot, overran, running, saved, dmaOn, received, host, outcome, Waiting>>
      /\ Loaded' = Loaded + 1 /\ Released = Loaded /\ Released' = Loaded
  BY <1>0 DEF SendFragment, Loaded, Released, Waiting
<1>3. Starting' /\ Ending' /\ Cursors'
  BY <1>2 DEF Starting, Ending, Cursors, InLoop
<1>4. Counts'
  BY <1>2 DEF Counts, Produced, InLoop
<1>5. Contents'
  BY <1>2 DEF Contents, Place, InLoop
<1>6. ASSUME ~overran
      PROVE /\ slot[reading] = IF Loaded = captured THEN Partial ELSE Loaded + 1
            /\ Loaded <= captured /\ (running => Loaded < captured)
  <2>1. Waiting > 0 /\ Loaded + Waiting \in Produced
    BY <1>2, <1>6 DEF Counts, InLoop
  <2>2. Place(reading) = 0
    BY <1>0 DEF Place
  <2>3. slot[reading] = IF Loaded = captured THEN Partial ELSE Loaded + 1
    BY <1>0, <1>2, <1>6, <2>1, <2>2 DEF Contents, InLoop
  <2> QED BY <1>0, <2>1, <2>3 DEF Produced
<1>7. InFlight'
  BY <1>0, <1>2, <1>6 DEF InFlight
<1> QED BY <1>1, <1>3, <1>4, <1>5, <1>7

LEMMA AdvanceStep == IInv /\ Advance => IInv'
<1> SUFFICES ASSUME IInv, Advance PROVE IInv'
  OBVIOUS
<1> USE DEF IInv
<1>0. /\ Loaded \in Nat /\ Loaded > 0 /\ Released = Loaded - 1 /\ Len(received) \in Nat
      /\ writing \in Slots /\ captured \in Nat /\ reading \in Slots /\ Waiting \in 0 .. BufferCount - 1
  BY LoadedIs, WaitingIs DEF TypeOK, Advance, Cursors, InLoop, InFlight, Released
<1>1. TypeOK'
  BY <1>0, NextBufferIs DEF Advance, TypeOK
<1>2. /\ pc = "advance" /\ pc' = "timer"
      /\ reading' = IF reading = BufferCount - 1 THEN 0 ELSE reading + 1
      /\ UNCHANGED <<writing, captured, underrun, slot, overran, running, dmaOn, received, host, ep, outcome>>
      /\ Loaded' = Loaded /\ Released' = Loaded
  BY <1>0, NextBufferIs DEF Advance, Loaded, Released
<1>3. Starting' /\ Ending' /\ Cursors' /\ InFlight'
  BY <1>0, <1>1, <1>2 DEF Starting, Ending, Cursors, InLoop, InFlight, TypeOK
<1>4. ASSUME ~overran
      PROVE /\ Waiting > 0 /\ Waiting' = Waiting - 1 /\ Released + Waiting \in Produced /\ ~underrun
            /\ reading' \in Slots
  <2>1. Waiting > 0 /\ Released + Waiting \in Produced /\ ~underrun
    BY <1>2, <1>4 DEF Counts, InLoop
  <2>2. Waiting' = Waiting - 1
    BY <1>0, <1>2, <2>1 DEF Waiting
  <2> QED BY <2>1, <2>2, <1>0, <1>2
<1>5. Counts'
  BY <1>0, <1>2, <1>4 DEF Counts, Produced
<1>6. Contents'
  <2> SUFFICES ASSUME ~overran, NEW b \in Slots, Place(b)' < Waiting'
               PROVE slot[b] = IF Loaded + Place(b)' = captured THEN Partial ELSE Loaded + Place(b)' + 1
    BY <1>2 DEF Contents
  <2>1. Place(b) = Place(b)' + 1 \/ b = reading
    BY <1>0, <1>2 DEF Place
  <2>2. b # reading
    <3>1. b = reading => Place(b)' = BufferCount - 1
      BY <1>0, <1>2 DEF Place
    <3> QED BY <3>1, <1>0, <1>4
  <2>3. Place(b) < Waiting /\ Place(b) \in Nat /\ Place(b)' \in Int
    BY <1>0, <1>2, <1>4, <2>1, <2>2 DEF Place
  <2>4. slot[b] = IF Released + Place(b) = captured THEN Partial ELSE Released + Place(b) + 1
    BY <2>3, <1>2 DEF Contents, InLoop
  <2> QED BY <1>0, <2>1, <2>2, <2>3, <2>4
<1> QED BY <1>1, <1>3, <1>5, <1>6

LEMMA HostReceiveStep == IInv /\ HostReceive => IInv'
<1> SUFFICES ASSUME IInv, HostReceive PROVE IInv'
  OBVIOUS
<1> USE DEF IInv
<1>0. /\ Loaded \in Nat /\ Released \in Int /\ Len(received) \in Nat
      /\ received \in Seq(Content) /\ captured \in Nat /\ ep # Empty
  BY LoadedIs DEF TypeOK, HostReceive
<1>1. /\ UNCHANGED <<pc, writing, reading, underrun, running, saved, dmaOn, slot, captured, overran, expired, outcome, Waiting>>
      /\ ep' = Empty /\ Loaded' = Loaded /\ Released' = Released
      /\ IF ep = Zlp THEN received' = received /\ Loaded = Len(received) /\ host' = "awaiting"
         ELSE /\ ep \in Content /\ received' = Append(received, ep) /\ Loaded = Len(received) + 1
              /\ received' \in Seq(Content) /\ Len(received') = Loaded
              /\ \A i \in 1 .. Loaded : received'[i] = IF i = Loaded THEN ep ELSE received[i]
  <2>1. CASE ep = Zlp
    BY <1>0, <2>1 DEF HostReceive, Loaded, Released, Waiting
  <2>2. CASE ep # Zlp
    <3>1. ep \in Content  BY <1>0, <2>2 DEF TypeOK
    <3>2. received' = Append(received, ep) /\ ep' = Empty BY <2>2 DEF HostReceive
    <3> HIDE DEF Content
    <3>3. received' \in Seq(Content) /\ Len(received') = Len(received) + 1
      BY <3>1, <3>2, <1>0
    <3>4. Loaded = Len(received) + 1 /\ Loaded' = Len(received)+1
      BY <1>0, <2>2, <3>2, <3>3 DEF Loaded
    <3> QED BY <1>0, <2>2, <3>1, <3>2, <3>3, <3>4 DEF HostReceive, Released, Waiting
  <2> QED BY <2>1, <2>2
<1>2. TypeOK'
  <2>1. received' \in Seq(Content) /\ host' \in {"receiving", "awaiting"}
    BY <1>0, <1>1 DEF HostReceive
  <2> QED BY <1>1, <2>1 DEF TypeOK
<1>3. Starting' /\ Ending' /\ Cursors'
  BY <1>0, <1>1 DEF Starting, Ending, Cursors, InLoop, HostReceive
<1>4. Counts' /\ Contents'
  BY <1>1 DEF Counts, Produced, Contents, Place, InLoop
<1>5. InFlight'
  <2>1. host = "receiving" /\ (ep = Zlp => host' = "awaiting") /\ host' \in {"receiving", "awaiting"}
    BY DEF HostReceive
  <2>2. ASSUME ~overran
        PROVE /\ \A i \in 1 .. Len(received') :
                   received'[i] = IF i = captured + 1 THEN Partial ELSE i
              /\ Loaded <= captured + 1 /\ (running => Loaded <= captured)
    <3>1. CASE ep = Zlp  BY <1>0, <1>1, <2>2, <3>1 DEF InFlight
    <3>2. CASE ep # Zlp
      <4>1. ep = IF Loaded = captured + 1 THEN Partial ELSE Loaded
        BY <1>0, <2>2, <3>2 DEF InFlight
      <4>2. /\ \A i \in 1 .. Len(received) : received[i] = IF i = captured + 1 THEN Partial ELSE i
            /\ Loaded <= captured + 1 /\ (running => Loaded <= captured)
        BY <2>2 DEF InFlight
      <4> QED BY SMTT(30), <1>0, <1>1, <3>2, <4>1, <4>2
    <3> QED BY <3>1, <3>2
  <2>3. pc' = "drain" => host' = "awaiting"
    BY <1>0, <1>1, <2>1 DEF InFlight
  <2> QED BY <1>0, <1>1, <2>1, <2>2, <2>3 DEF InFlight
<1> QED BY <1>2, <1>3, <1>4, <1>5

LEMMA StutterStep == IInv /\ UNCHANGED vars => IInv'
<1> SUFFICES ASSUME IInv, UNCHANGED vars PROVE IInv'
  OBVIOUS
<1> USE DEF IInv, vars
<1>2. TypeOK' BY DEF TypeOK
<1>1. Loaded' = Loaded /\ Released' = Released /\ Waiting' = Waiting /\ Produced' = Produced /\ InLoop' = InLoop
  BY DEF Loaded, Released, Waiting, Produced, InLoop
<1>3. Starting' BY DEF Starting
<1>4. Cursors' BY <1>1 DEF Cursors
<1>5. Counts' BY <1>1 DEF Counts
<1>6. Contents' BY <1>1 DEF Contents, Place
<1>7. Ending' BY <1>1 DEF Ending
<1>8. InFlight' BY <1>1 DEF InFlight
<1> QED BY <1>2, <1>3, <1>4, <1>5, <1>6, <1>7, <1>8

-----------------------------------------------------------------------------
THEOREM InitIInv == Init => IInv
<1> SUFFICES ASSUME Init PROVE IInv
  OBVIOUS
<1> USE DEF Init
<1>1. TypeOK
  <2>1. received \in Seq(Content) /\ slot \in [Slots -> Content]
    OBVIOUS
  <2>2. ep \in Content \cup {Zlp, Empty} /\ captured \in 0 .. MaxFragments
    OBVIOUS
  <2>3. writing \in Slots /\ reading \in Slots
    OBVIOUS
  <2> QED  BY <2>1, <2>2, <2>3 DEF TypeOK
<1>2. Starting  BY DEF Starting
<1>3. Cursors /\ Counts /\ Contents  BY DEF Cursors, Counts, Contents, InLoop
<1>4. Ending  BY DEF Ending
<1>5. InFlight  BY DEF InFlight, Loaded
<1> QED  BY <1>1, <1>2, <1>3, <1>4, <1>5 DEF IInv

THEOREM StepIInv == IInv /\ [Next]_vars => IInv'
<1> SUFFICES ASSUME IInv, [Next]_vars PROVE IInv'
  OBVIOUS
<1> USE DEF IInv, InLoop, Loaded, Released, Waiting, Produced, Place
<1>1. CASE Expire
  <2>1. TypeOK'  BY <1>1 DEF Expire, TypeOK
  <2>2. Starting'  BY <1>1 DEF Expire, TypeOK, Starting, InFlight
  <2>3. Cursors'  BY <1>1 DEF Expire, TypeOK, Starting, Cursors
  <2>4. Counts'  BY <1>1 DEF Expire, TypeOK, Starting, Cursors, Counts, InFlight
  <2>5. Contents'  BY <1>1 DEF Expire, TypeOK, Starting, Cursors, Counts, Contents, InFlight
  <2>6. Ending'  BY <1>1 DEF Expire, TypeOK, Starting, Cursors, Counts, Ending, InFlight
  <2>7. InFlight'  BY <1>1 DEF Expire, TypeOK, Starting, Cursors, Ending, InFlight
  <2> QED  BY <2>1, <2>2, <2>3, <2>4, <2>5, <2>6, <2>7
<1>2. CASE Begin
  <2>1. TypeOK'
    <3>1. writing' \in Slots /\ reading' = -1 /\ slot' = slot /\ received' = received
      BY <1>2 DEF Begin
    <3> QED  BY <1>2, <3>1 DEF Begin, TypeOK
  <2>2. Starting'  BY <1>2 DEF Begin, TypeOK, Starting, InFlight
  <2>3. Cursors'  BY <1>2 DEF Begin, TypeOK, Starting, Cursors
  <2>4. Counts'  BY <1>2 DEF Begin, TypeOK, Starting, Cursors, Counts, InFlight
  <2>5. Contents'  BY <1>2 DEF Begin, TypeOK, Starting, Cursors, Counts, Contents, InFlight
  <2>6. Ending'  BY <1>2 DEF Begin, TypeOK, Starting, Cursors, Counts, Ending, InFlight
  <2>7. InFlight'  BY <1>2 DEF Begin, TypeOK, Starting, Cursors, Ending, InFlight
  <2> QED  BY <2>1, <2>2, <2>3, <2>4, <2>5, <2>6, <2>7
<1>3. CASE FirstFragment
  <2>1. TypeOK'  BY <1>3 DEF FirstFragment, TypeOK
  <2>2. Starting'  BY <1>3 DEF FirstFragment, TypeOK, Starting, InFlight
  <2>3. Cursors'  BY <1>3 DEF FirstFragment, TypeOK, Starting, Cursors
  <2>4. Counts'  BY <1>3 DEF FirstFragment, TypeOK, Starting, Cursors, Counts, InFlight
  <2>5. Contents'  BY <1>3 DEF FirstFragment, TypeOK, Starting, Cursors, Counts, Contents, InFlight
  <2>6. Ending'  BY <1>3 DEF FirstFragment, TypeOK, Starting, Cursors, Counts, Ending, InFlight
  <2>7. InFlight'  BY <1>3 DEF FirstFragment, TypeOK, Starting, Cursors, Ending, InFlight
  <2> QED  BY <2>1, <2>2, <2>3, <2>4, <2>5, <2>6, <2>7
<1>4. CASE Claim
  <2>1. TypeOK'  BY <1>4 DEF Claim, TypeOK
  <2>2. Starting'  BY <1>4 DEF Claim, TypeOK, Starting, InFlight
  <2>3. Cursors'  BY <1>4 DEF Claim, TypeOK, Starting, Cursors
  <2>4. Counts'  BY <1>4 DEF Claim, TypeOK, Starting, Cursors, Counts, InFlight
  <2>5. Contents'  BY <1>4 DEF Claim, TypeOK, Starting, Cursors, Counts, Contents, InFlight
  <2>6. Ending'  BY <1>4 DEF Claim, TypeOK, Starting, Cursors, Counts, Ending, InFlight
  <2>7. InFlight'  BY <1>4 DEF Claim, TypeOK, Starting, Cursors, Ending, InFlight
  <2> QED  BY <2>1, <2>2, <2>3, <2>4, <2>5, <2>6, <2>7
<1>5. CASE KeepGoing
  <2>1. TypeOK'  BY <1>5 DEF KeepGoing, TypeOK
  <2>2. Starting'  BY <1>5 DEF KeepGoing, TypeOK, Starting, InFlight
  <2>3. Cursors'  BY <1>5 DEF KeepGoing, TypeOK, Starting, Cursors
  <2>4. Counts'  BY <1>5 DEF KeepGoing, TypeOK, Starting, Cursors, Counts, InFlight
  <2>5. Contents'  BY <1>5 DEF KeepGoing, TypeOK, Starting, Cursors, Counts, Contents, InFlight
  <2>6. Ending'  BY <1>5 DEF KeepGoing, TypeOK, Starting, Cursors, Counts, Ending, InFlight
  <2>7. InFlight'  BY <1>5 DEF KeepGoing, TypeOK, Starting, Cursors, Ending, InFlight
  <2> QED  BY <2>1, <2>2, <2>3, <2>4, <2>5, <2>6, <2>7
<1>6. CASE CheckUnderrun
  <2>1. TypeOK'  BY <1>6 DEF CheckUnderrun, TypeOK
  <2>2. Starting'  BY <1>6 DEF CheckUnderrun, TypeOK, Starting, InFlight
  <2>3. Cursors'  BY <1>6 DEF CheckUnderrun, TypeOK, Starting, Cursors
  <2>4. Counts'  BY <1>6 DEF CheckUnderrun, TypeOK, Starting, Cursors, Counts, InFlight
  <2>5. Contents'  BY <1>6 DEF CheckUnderrun, TypeOK, Starting, Cursors, Counts, Contents, InFlight
  <2>6. Ending'  BY <1>6 DEF CheckUnderrun, TypeOK, Starting, Cursors, Counts, Ending, InFlight
  <2>7. InFlight'  BY <1>6 DEF CheckUnderrun, TypeOK, Starting, Cursors, Ending, InFlight
  <2> QED  BY <2>1, <2>2, <2>3, <2>4, <2>5, <2>6, <2>7
<1>7. CASE Abort
  <2>1. TypeOK'  BY <1>7 DEF Abort, TypeOK
  <2>2. Starting'  BY <1>7 DEF Abort, TypeOK, Starting, InFlight
  <2>3. Cursors'  BY <1>7 DEF Abort, TypeOK, Starting, Cursors
  <2>4. Counts'  BY <1>7 DEF Abort, TypeOK, Starting, Cursors, Counts, InFlight
  <2>5. Contents'  BY <1>7 DEF Abort, TypeOK, Starting, Cursors, Counts, Contents, InFlight
  <2>6. Ending'  BY <1>7 DEF Abort, TypeOK, Starting, Cursors, Counts, Ending, InFlight
  <2>7. InFlight'  BY <1>7 DEF Abort, TypeOK, Starting, Cursors, Ending, InFlight
  <2> QED  BY <2>1, <2>2, <2>3, <2>4, <2>5, <2>6, <2>7
<1>8. CASE SendZlp
  <2>1. TypeOK'  BY <1>8 DEF SendZlp, TypeOK
  <2>2. Starting'  BY <1>8 DEF SendZlp, TypeOK, Starting, InFlight
  <2>3. Cursors'  BY <1>8 DEF SendZlp, TypeOK, Starting, Cursors
  <2>4. Counts'  BY <1>8 DEF SendZlp, TypeOK, Starting, Cursors, Counts, InFlight
  <2>5. Contents'  BY <1>8 DEF SendZlp, TypeOK, Starting, Cursors, Counts, Contents, InFlight
  <2>6. Ending'  BY <1>8 DEF SendZlp, TypeOK, Starting, Cursors, Counts, Ending, InFlight
  <2>7. InFlight'  BY <1>8 DEF SendZlp, TypeOK, Starting, Cursors, Ending, InFlight
  <2> QED  BY <2>1, <2>2, <2>3, <2>4, <2>5, <2>6, <2>7
<1>9. CASE Drain
  <2>1. TypeOK'  BY <1>9 DEF Drain, TypeOK
  <2>2. Starting'  BY <1>9 DEF Drain, TypeOK, Starting, InFlight
  <2>3. Cursors'  BY <1>9 DEF Drain, TypeOK, Starting, Cursors
  <2>4. Counts'  BY <1>9 DEF Drain, TypeOK, Starting, Cursors, Counts, InFlight
  <2>5. Contents'  BY <1>9 DEF Drain, TypeOK, Starting, Cursors, Counts, Contents, InFlight
  <2>6. Ending'  BY <1>9 DEF Drain, TypeOK, Starting, Cursors, Counts, Ending, InFlight
  <2>7. InFlight'  BY <1>9 DEF Drain, TypeOK, Starting, Cursors, Ending, InFlight
  <2> QED  BY <2>1, <2>2, <2>3, <2>4, <2>5, <2>6, <2>7
<1>10. CASE Reply
  <2>1. TypeOK'  BY <1>10 DEF Reply, TypeOK
  <2>2. Starting'  BY <1>10 DEF Reply, TypeOK, Starting, InFlight
  <2>3. Cursors'  BY <1>10 DEF Reply, TypeOK, Starting, Cursors
  <2>4. Counts'  BY <1>10 DEF Reply, TypeOK, Starting, Cursors, Counts, InFlight
  <2>5. Contents'  BY <1>10 DEF Reply, TypeOK, Starting, Cursors, Counts, Contents, InFlight
  <2>6. Ending'  BY <1>10 DEF Reply, TypeOK, Starting, Cursors, Counts, Ending, InFlight
  <2>7. InFlight'  BY <1>10 DEF Reply, TypeOK, Starting, Cursors, Ending, InFlight
  <2> QED  BY <2>1, <2>2, <2>3, <2>4, <2>5, <2>6, <2>7
<1>11. CASE Watchdog
  <2>1. TypeOK'  BY <1>11 DEF Watchdog, TypeOK
  <2>2. Starting'  BY <1>11 DEF Watchdog, TypeOK, Starting, InFlight
  <2>3. Cursors'  BY <1>11 DEF Watchdog, TypeOK, Starting, Cursors
  <2>4. Counts'  BY <1>11 DEF Watchdog, TypeOK, Starting, Cursors, Counts, InFlight
  <2>5. Contents'  BY <1>11 DEF Watchdog, TypeOK, Starting, Cursors, Counts, Contents, InFlight
  <2>6. Ending'  BY <1>11 DEF Watchdog, TypeOK, Starting, Cursors, Counts, Ending, InFlight
  <2>7. InFlight'  BY <1>11 DEF Watchdog, TypeOK, Starting, Cursors, Ending, InFlight
  <2> QED  BY <2>1, <2>2, <2>3, <2>4, <2>5, <2>6, <2>7
<1>12. CASE HostFinish
  <2>1. TypeOK'  BY <1>12 DEF HostFinish, TypeOK
  <2>2. Starting'  BY <1>12 DEF HostFinish, TypeOK, Starting, InFlight
  <2>3. Cursors'  BY <1>12 DEF HostFinish, TypeOK, Starting, Cursors
  <2>4. Counts'  BY <1>12 DEF HostFinish, TypeOK, Starting, Cursors, Counts, InFlight
  <2>5. Contents'  BY <1>12 DEF HostFinish, TypeOK, Starting, Cursors, Counts, Contents, InFlight
  <2>6. Ending'  BY <1>12 DEF HostFinish, TypeOK, Starting, Cursors, Counts, Ending, InFlight
  <2>7. InFlight'  BY <1>12 DEF HostFinish, TypeOK, Starting, Cursors, Ending, InFlight
  <2> QED  BY <2>1, <2>2, <2>3, <2>4, <2>5, <2>6, <2>7
<1> QED
  BY <1>1, <1>2, <1>3, <1>4, <1>5, <1>6, <1>7, <1>8, <1>9, <1>10, <1>11, <1>12,
     DmaFillStep, DmaFinishStep, TerminateStep, CheckEmptyStep, SendFragmentStep,
     AdvanceStep, HostReceiveStep, StutterStep DEF Next, CmdRead

-----------------------------------------------------------------------------
(* The invariant holds in every reachable state: every whole fragment that   *)
(* still has its room is accounted for, whatever the interleaving of the     *)
(* interrupt with cmd_read() and the host.                                   *)
THEOREM Invariance == Spec => []IInv
<1>1. Init => IInv  BY InitIInv
<1>2. IInv /\ [Next]_vars => IInv'  BY StepIInv
<1> QED  BY <1>1, <1>2, PTL DEF Spec

\* Every variable keeps its type, the cursors stay within the ring.
THEOREM TypeCorrect == Spec => []TypeOK
<1>1. IInv => TypeOK  BY DEF IInv
<1> QED  BY <1>1, Invariance, PTL

\* dma_reading_from_td == dma_writing_to_td means an empty ring, never a full
\* one, until a fragment has lost its room.
THEOREM CursorsCorrect == Spec => []CursorsCount
<1>1. IInv => CursorsCount  BY DEF IInv, Counts, CursorsCount
<1> QED  BY <1>1, Invariance, PTL

\* dma_underrun is raised exactly when a fragment has lost its room.
LEMMA StepFlag == IInv /\ FlagExact /\ [Next]_vars => FlagExact'
<1> SUFFICES ASSUME IInv, FlagExact, [Next]_vars, InLoop', running'
             PROVE  underrun' <=> overran'
  BY DEF FlagExact
<1>0. (IInv)' /\ (~overran' => ~underrun')
  BY StepIInv DEF IInv, Counts
<1>1. CASE DmaFinish
  <2> SUFFICES ASSUME ~overran, ~underrun, OutOfRoom
               PROVE  writing' = reading
    BY <1>0, <1>1 DEF DmaFinish, FinishedIrq, FlagExact, InLoop, IInv, TypeOK
  <2>1. /\ InLoop /\ running /\ reading \in Slots /\ writing \in Slots
        /\ captured \in Nat /\ Released \in Int
    BY <1>1, LoadedIs DEF DmaFinish, InLoop, IInv, TypeOK, Cursors
  <2>2. captured = Released + Waiting /\ Waiting \in 0 .. BufferCount - 1
    BY <2>1, WaitingIs DEF IInv, Counts, Produced
  <2>3. Waiting = BufferCount - 1
    BY <2>1, <2>2 DEF OutOfRoom
  <2>4. writing' = IF writing = BufferCount - 1 THEN 0 ELSE writing + 1
    BY <1>1, <2>1, NextBufferIs DEF DmaFinish, FinishedIrq
  <2> QED  BY <2>1, <2>3, <2>4 DEF Waiting
<1>2. CASE Claim
  BY <1>2 DEF Claim, IInv, Starting, TypeOK
<1>3. CASE Terminate
  BY <1>3 DEF Terminate
<1>4. CASE InLoop /\ running /\ UNCHANGED <<underrun, overran>>
  BY <1>4 DEF FlagExact
<1> QED
  BY <1>1, <1>2, <1>3, <1>4
  DEF Next, CmdRead, vars, DmaFill, Expire, Begin, FirstFragment,
      KeepGoing, CheckUnderrun, CheckEmpty, SendFragment, Advance, Abort,
      SendZlp, Drain, Reply, Watchdog, HostReceive, HostFinish, InLoop

THEOREM FlagCorrect == Spec => []FlagExact
<1>1. Init => FlagExact  BY DEF Init, FlagExact, InLoop
<1>2. IInv /\ FlagExact /\ [Next]_vars => FlagExact'  BY StepFlag
<1> QED  BY <1>1, <1>2, Invariance, PTL DEF Spec

\* The DMA engine refills no buffer that cmd_read() has not given back.
LEMMA WrapIs ==
    \A r \in Slots, k \in Slots :
        (r + k) % BufferCount = IF r + k < BufferCount THEN r + k
                                ELSE r + k - BufferCount
BY SMT

THEOREM BuffersIntact == Spec => []WaitingIntact
<1>1. ASSUME IInv PROVE WaitingIntact
  <2> SUFFICES ASSUME InLoop, ~overran, NEW k \in 0 .. Waiting - 1
               PROVE slot[(reading + k) % BufferCount] =
                        IF Released + k = captured THEN Partial
                        ELSE Released + k + 1
    BY DEF WaitingIntact
  <2> DEFINE b == (reading + k) % BufferCount
  <2>1. /\ reading \in Slots /\ writing \in Slots
        /\ Waiting \in 0 .. BufferCount - 1 /\ Released \in Int
    BY <1>1, LoadedIs, WaitingIs DEF IInv, TypeOK, Cursors
  <2>2. k \in Slots /\ k < Waiting
    BY <2>1
  <2>3. b = IF reading + k < BufferCount THEN reading + k
            ELSE reading + k - BufferCount
    BY <2>1, <2>2, WrapIs
  <2>4. b \in Slots /\ Place(b) = k
    BY <2>1, <2>2, <2>3 DEF Place
  <2>5. slot[b] = IF Released + Place(b) = captured THEN Partial
                  ELSE Released + Place(b) + 1
    BY <1>1, <2>2, <2>4 DEF IInv, Contents
  <2> QED  BY <2>4, <2>5
<1> QED  BY <1>1, Invariance, PTL

\* The ring of main.c: its cursors, its flag and its buffers agree.
THEOREM RingCorrect == Spec => []RingIntact
<1>1. TypeOK /\ CursorsCount /\ FlagExact /\ WaitingIntact => RingIntact
  BY DEF RingIntact
<1> QED  BY <1>1, TypeCorrect, CursorsCorrect, FlagCorrect, BuffersIntact, PTL

\* The host's stream is the captured fragments in order.
THEOREM StreamInOrder == Spec => []InOrder
<1>1. IInv => InOrder  BY DEF IInv, InOrder, InFlight, TypeOK
<1> QED  BY <1>1, Invariance, PTL

\* Data that FluxEngineUsb::read() returns is complete.
THEOREM StreamComplete == Spec => []NothingWithheld
<1>1. ASSUME IInv, host = "data", ~overran PROVE Len(received) >= captured
  <2>1. outcome = "READ_REPLY" /\ pc = "done" /\ ep = Empty
    BY <1>1 DEF IInv, InFlight, Ending
  <2> QED  BY <1>1, <2>1 DEF IInv, Ending, Loaded
<1>2. IInv => NothingWithheld  BY <1>1 DEF NothingWithheld
<1> QED  BY <1>2, Invariance, PTL

\* What FluxEngineUsb::read() returns is in order and complete.
THEOREM StreamCorrect == Spec => []StreamWhole
<1>1. InOrder /\ NothingWithheld => StreamWhole  BY DEF StreamWhole
<1> QED  BY <1>1, StreamInOrder, StreamComplete, PTL

\* An underrun error means that a fragment had no buffer to go to.
THEOREM UnderrunJustified == Spec => []UnderrunHappened
<1>1. IInv => UnderrunHappened
  BY DEF IInv, Ending, InFlight, TypeOK, UnderrunHappened
<1> QED  BY <1>1, Invariance, PTL

-----------------------------------------------------------------------------
(* Refinement of CaptureStream.                                              *)

\* No buffer or packet carries the number of a fragment yet to come.
Bounded == ep <= captured /\ \A b \in Slots : slot[b] <= captured

LEMMA InitBounded == Init => Bounded
BY DEF Init, Bounded

LEMMA StepBounded == IInv /\ Bounded /\ [Next]_vars => Bounded'
<1> SUFFICES ASSUME TypeOK, Cursors, Bounded, [Next]_vars PROVE Bounded'
  BY DEF IInv
<1>1. CASE DmaFill  BY <1>1 DEF DmaFill, Bounded, TypeOK
<1>2. CASE DmaFinish  BY <1>2 DEF DmaFinish, Bounded, TypeOK
<1>3. CASE Terminate  BY <1>3 DEF Terminate, Bounded, TypeOK
<1>4. CASE SendFragment
  BY <1>4 DEF SendFragment, Cursors, InLoop, Bounded, TypeOK
<1>5. CASE SendZlp  BY <1>5 DEF SendZlp, Bounded, TypeOK
<1>6. CASE HostReceive  BY <1>6 DEF HostReceive, Bounded, TypeOK
<1>7. CASE Watchdog  BY <1>7 DEF Watchdog, Bounded, TypeOK
<1>8. CASE UNCHANGED <<slot, ep, captured>>  BY <1>8 DEF Bounded
<1> QED
  BY <1>1, <1>2, <1>3, <1>4, <1>5, <1>6, <1>7, <1>8
  DEF Next, CmdRead, vars, Expire, Begin, FirstFragment, Claim, KeepGoing,
      CheckUnderrun, CheckEmpty, Advance, Abort, Drain, Reply, HostFinish

LEMMA StepRefines == IInv /\ Bounded /\ [Next]_vars => [Stream!Next]_(Stream!streamVars)
<1> SUFFICES ASSUME IInv, Bounded, [Next]_vars
             PROVE  Stream!Next \/ UNCHANGED <<captured, received, overran, outcome>>
  BY DEF Stream!streamVars
<1>0. /\ captured \in Nat /\ Len(received) \in Nat /\ overran \in BOOLEAN
      /\ Loaded \in Nat /\ Loaded >= Len(received)
  BY LoadedIs DEF IInv, TypeOK
<1>1. CASE DmaFinish
  <2>1. overran \/ Len(received) <= captured
    BY <1>0, <1>1 DEF IInv, TypeOK, Starting, Cursors, InLoop, Ending, InFlight, DmaFinish
  <2>2. captured' = captured + 1 /\ overran' \in {overran, TRUE}
        /\ UNCHANGED <<received, outcome>>
    BY <1>0, <1>1 DEF DmaFinish
  <2> QED  BY <2>1, <2>2 DEF Stream!Next, Stream!Capture
<1>2. CASE Terminate
  <2>1. overran' \in {overran, TRUE} /\ UNCHANGED <<captured, received, outcome>>
    BY <1>0, <1>2 DEF Terminate
  <2> QED  BY <2>1 DEF Stream!Next, Stream!Overrun
<1>3. CASE Reply
  <2>1. /\ outcome = "none" /\ UNCHANGED <<captured, received, overran>>
        /\ ~overran => ~saved /\ Len(received) >= captured
    BY <1>0, <1>3 DEF Reply, IInv, TypeOK, InFlight, Ending, Loaded
  <2>2. CASE saved
    BY <1>0, <1>3, <2>1, <2>2 DEF Reply, Stream!Next, Stream!Fail
  <2>3. CASE ~saved
    BY <1>0, <1>3, <2>1, <2>3 DEF Reply, Stream!Next, Stream!Succeed
  <2> QED  BY <2>2, <2>3
<1>4. CASE Watchdog
  BY <1>4 DEF Watchdog, IInv, InFlight, Stream!Next, Stream!Reset
<1>5. CASE HostReceive
  <2>1. UNCHANGED <<captured, overran, outcome>>
    BY <1>5 DEF HostReceive
  <2>2. CASE ep = Zlp
    BY <1>5, <2>1, <2>2 DEF HostReceive
  <2>3. CASE ep # Zlp
    <3>1. /\ ep \in 0 .. captured /\ received' = Append(received, ep)
          /\ outcome = "none" /\ Loaded = Len(received) + 1
      BY <1>0, <1>5, <2>3
      DEF HostReceive, IInv, TypeOK, Ending, InFlight, Loaded, Bounded
    <3>2. CASE overran
      BY <2>1, <3>1, <3>2 DEF Stream!Next, Stream!DeliverDamaged
    <3>3. CASE ~overran /\ Loaded = captured + 1
      <4>1. ep = Partial /\ Len(received) = captured
        BY <1>0, <1>5, <2>3, <3>1, <3>3 DEF HostReceive, IInv, InFlight
      <4> QED
        BY <2>1, <3>1, <4>1
        DEF Stream!Next, Stream!DeliverPartial, Stream!Partial
    <3>4. CASE ~overran /\ Loaded # captured + 1
      <4>1. ep = Len(received) + 1 /\ Len(received) < captured
        BY <1>0, <1>5, <2>3, <3>1, <3>4 DEF HostReceive, IInv, InFlight
      <4> QED  BY <2>1, <3>1, <4>1 DEF Stream!Next, Stream!Deliver
    <3> QED  BY <3>2, <3>3, <3>4
  <2> QED  BY <2>2, <2>3
<1>6. CASE UNCHANGED <<captured, received, overran, outcome>>
  BY <1>6
<1> QED
  BY <1>1, <1>2, <1>3, <1>4, <1>5, <1>6
  DEF Next, CmdRead, vars, DmaFill, Expire, Begin, FirstFragment, Claim,
      KeepGoing, CheckUnderrun, CheckEmpty, SendFragment, Advance, Abort,
      SendZlp, Drain, HostFinish

\* cmd_read(), its interrupt and the host's usb_data_recv() together provide
\* the stream that CaptureStream promises.
THEOREM Refinement == Spec => RefinesStream
<1>1. Init => Stream!Init
  BY DEF Init, Stream!Init
<1>2. Init => IInv /\ Bounded
  BY InitIInv, InitBounded
<1>3. IInv /\ Bounded /\ [Next]_vars => (IInv /\ Bounded)'
  BY StepIInv, StepBounded
<1>4. IInv /\ Bounded /\ [Next]_vars => [Stream!Next]_(Stream!streamVars)
  BY StepRefines
<1> QED  BY <1>1, <1>2, <1>3, <1>4, PTL DEF Spec, RefinesStream, Stream!Spec
=============================================================================
