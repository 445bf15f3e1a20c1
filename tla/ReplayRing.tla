--------------------------- MODULE ReplayRing ---------------------------
(***************************************************************************)
(* One write session of the firmware: cmd_write() in main.c, the DMA       *)
(* engine that plays a ring of buffers to the sequencer, its completion    *)
(* interrupt replay_dma_finished_irq_cb(), the index interrupt, the data   *)
(* OUT endpoint, and FluxEngineUsb::write() on the other end of the cable. *)
(*                                                                         *)
(* As in CaptureRing each access of cmd_write() to a variable it shares    *)
(* with an interrupt is a step, named by pc, and a buffer is the number of *)
(* the packet in it.  count_written and old_reading_from_td only feed a    *)
(* debug message and are left out.  The request for a length that is no    *)
(* multiple of FRAME_SIZE, which cmd_write() refuses, is one that          *)
(* FluxEngineUsb::write() never makes.                                     *)
(***************************************************************************)
EXTENDS Integers, Sequences

CONSTANTS
    BufferCount,   \* BUFFER_COUNT, 64 in the firmware
    MaxPackets,    \* bound: packets in a request
    MaxPlayed,     \* bound: buffers the drive plays in all
    HardSectored   \* hardsec_threshold_ms # 0: some pulses mark sectors only

ASSUME ReplayAssumption ==
    /\ BufferCount \in Nat /\ BufferCount >= 2
    /\ MaxPackets \in Nat /\ MaxPlayed \in Nat
    /\ HardSectored \in BOOLEAN

VARIABLES
    pc,        \* where cmd_write() is
    packets,   \* bytes_to_write / FRAME_SIZE
    countRead, \* count_read
    finished,  \* no more packets to read
    writing,   \* dma_writing_to_td
    reading,   \* dma_reading_from_td, -1 before the chain starts
    underrun,  \* dma_underrun
    index,     \* index_irq
    onDisk,    \* the local "writing": the sequencer is out of reset
    gate,      \* ERASE_REG
    dmaOn,     \* the DMA channel and its interrupt are enabled
    slot,      \* dma_buffer: what each buffer holds
    outEp,     \* FLUXENGINE_DATA_OUT_EP: at most one packet
    host,      \* where FluxEngineUsb::write() is
    sent,      \* packets the host has sent
    outcome,   \* the reply frame, or RESET
    filled,    \* history: buffers handed to the chain
    played,    \* history: buffers the chain has finished
    starved,   \* history: the chain has reached a buffer not handed to it
    track,     \* history: the buffers played while the gate was open
    closedBy   \* history: what shut the gate

cursors  == <<writing, reading, underrun>>
request  == <<packets, countRead, finished>>
drive    == <<index, onDisk, gate, closedBy>>
history  == <<filled, played, starved, track>>
hostVars == <<host, sent>>
vars     == <<pc, cursors, request, drive, dmaOn, slot, outEp, hostVars,
              outcome, history>>

Filler == 0     \* the 0x3f bytes that follow the last packet
Empty  == -1    \* the endpoint holds no packet
Slots  == 0 .. BufferCount - 1
Items  == 0 .. MaxPackets

NextBuffer(b) == (b + 1) % BufferCount

Loop == {"room", "guard", "fill", "publish", "start", "wait", "open", "check"}

TypeOK ==
    /\ pc \in Loop \cup {"setup", "abort", "blackhole", "reply", "done"}
    /\ packets \in 0 .. MaxPackets /\ countRead \in 0 .. packets
    /\ finished \in BOOLEAN /\ underrun \in BOOLEAN /\ index \in BOOLEAN
    /\ onDisk \in BOOLEAN /\ gate \in BOOLEAN /\ dmaOn \in BOOLEAN
    /\ writing \in Slots /\ reading \in Slots \cup {-1}
    /\ slot \in [Slots -> Items]
    /\ outEp \in Items \cup {Empty} /\ sent \in 0 .. packets
    /\ host \in {"sending", "awaiting", "done", "error"}
    /\ outcome \in {"none", "WRITE_REPLY", "UNDERRUN", "RESET"}
    /\ filled \in Nat /\ played \in 0 .. MaxPlayed /\ starved \in BOOLEAN
    /\ track \in Seq(Items)
    /\ closedBy \in {"none", "index", "abort"}

Init ==
    /\ pc = "setup"
    /\ packets \in 0 .. MaxPackets
    /\ countRead = 0 /\ finished = (packets = 0)
    /\ writing = 0 /\ reading = -1 /\ underrun = FALSE
    /\ index \in BOOLEAN
    /\ onDisk = FALSE /\ gate = FALSE /\ closedBy = "none"
    /\ dmaOn = FALSE
    /\ slot = [b \in Slots |-> Filler]
    /\ outEp = Empty
    /\ host = "sending" /\ sent = 0
    /\ outcome = "none"
    /\ filled = 0 /\ played = 0 /\ starved = FALSE
    /\ track = <<>>

-----------------------------------------------------------------------------
(* The interrupts.                                                           *)

\* replay_dma_finished_irq_cb(): advance, and flag catching up the writer.
FinishedIrq ==
    /\ reading' = NextBuffer(reading)
    /\ underrun' = (underrun \/ reading' = writing)

\* The sequencer has taken the last byte of a buffer; the chain moves on to
\* the next descriptor by itself, whatever is in its buffer.
PlayFinish ==
    /\ dmaOn /\ onDisk
    /\ played < MaxPlayed
    /\ played' = played + 1
    /\ starved' = (starved \/ played + 1 >= filled)
    /\ track' = IF gate THEN Append(track, slot[reading]) ELSE track
    /\ FinishedIrq
    /\ UNCHANGED <<pc, writing, request, drive, dmaOn, slot, outEp, hostVars,
                   outcome, filled>>

\* Mutant: only the main code shuts the gate.
IndexPulse_LeavesGate ==
    /\ index' = TRUE
    /\ UNCHANGED <<pc, cursors, request, onDisk, gate, closedBy, dmaOn, slot,
                   outEp, hostVars, outcome, history>>

\* index_irq_cb(), a pulse that marks the beginning of the track: the gate is
\* shut there and then.
IndexPulse ==
    /\ index' = TRUE
    /\ gate' = FALSE
    /\ closedBy' = IF gate THEN "index" ELSE closedBy
    /\ UNCHANGED <<pc, cursors, request, onDisk, dmaOn, slot, outEp, hostVars,
                   outcome, history>>

\* index_irq_cb(), a pulse that only marks a sector, takes back an index pulse
\* the main code has not looked at yet.
SectorPulse ==
    /\ HardSectored
    /\ pc \in Loop /\ dmaOn
    /\ index' = FALSE
    /\ UNCHANGED <<pc, cursors, request, onDisk, gate, closedBy, dmaOn, slot,
                   outEp, hostVars, outcome, history>>

-----------------------------------------------------------------------------
(* cmd_write()                                                               *)

Stop == onDisk /\ (underrun \/ index)

\* Seek, and wait for nothing: the packets are read as they come.
Begin ==
    /\ pc = "setup"
    /\ pc' = "room"
    /\ UNCHANGED <<cursors, request, drive, dmaOn, slot, outEp, hostVars,
                   outcome, history>>

\* Mutant: the ring may be filled to the last buffer.
CheckRoom_Full ==
    /\ pc = "room"
    /\ pc' = IF dmaOn /\ writing = reading THEN "check" ELSE "guard"
    /\ UNCHANGED <<cursors, request, drive, dmaOn, slot, outEp, hostVars,
                   outcome, history>>

\* if (NEXT_BUFFER(dma_writing_to_td) != dma_reading_from_td)
CheckRoom ==
    /\ pc = "room"
    /\ pc' = IF NextBuffer(writing) # reading THEN "guard" ELSE "check"
    /\ UNCHANGED <<cursors, request, drive, dmaOn, slot, outEp, hostVars,
                   outcome, history>>

Guard ==
    /\ pc = "guard"
    /\ pc' = IF Stop THEN "abort" ELSE "fill"
    /\ UNCHANGED <<cursors, request, drive, dmaOn, slot, outEp, hostVars,
                   outcome, history>>

\* usb_read() of the next packet into the buffer.
FillPacket ==
    /\ pc = "fill" /\ ~finished
    /\ outEp # Empty
    /\ slot' = [slot EXCEPT ![writing] = outEp]
    /\ outEp' = Empty
    /\ countRead' = countRead + 1
    /\ finished' = (countRead' = packets)
    /\ pc' = "publish"
    /\ UNCHANGED <<cursors, packets, drive, dmaOn, hostVars, outcome, history>>

\* Mutant: the last packet is left in the buffer instead of filler.
FillFiller_Stale ==
    /\ pc = "fill" /\ finished
    /\ pc' = "publish"
    /\ UNCHANGED <<cursors, request, drive, dmaOn, slot, outEp, hostVars,
                   outcome, history>>

\* There is no more data to read, so fake some.
FillFiller ==
    /\ pc = "fill" /\ finished
    /\ slot' = [slot EXCEPT ![writing] = Filler]
    /\ pc' = "publish"
    /\ UNCHANGED <<cursors, request, drive, dmaOn, outEp, hostVars, outcome,
                   history>>

\* Hand the buffer to the chain; start it once all but one are filled.
Publish ==
    /\ pc = "publish"
    /\ writing' = NextBuffer(writing)
    /\ filled' = filled + 1
    /\ pc' = IF reading = -1 /\ writing' = BufferCount - 1
             THEN "start" ELSE "check"
    /\ UNCHANGED <<reading, underrun, request, drive, dmaOn, slot, outEp,
                   hostVars, outcome, played, starved, track>>

\* Enable the chain, which primes the FIFO, and forget past index pulses.
Start ==
    /\ pc = "start"
    /\ reading' = 0 /\ underrun' = FALSE
    /\ dmaOn' = TRUE
    /\ index' = FALSE
    /\ pc' = "wait"
    /\ UNCHANGED <<writing, request, onDisk, gate, closedBy, slot, outEp,
                   hostVars, outcome, history>>

WaitIndex ==
    /\ pc = "wait"
    /\ index
    /\ pc' = "open"
    /\ UNCHANGED <<cursors, request, drive, dmaOn, slot, outEp, hostVars,
                   outcome, history>>

\* Start erasing, start writing.  The next pulse is a revolution away, so none
\* comes between these statements.
OpenGate ==
    /\ pc = "open"
    /\ index' = FALSE
    /\ onDisk' = TRUE /\ gate' = TRUE
    /\ pc' = "check"
    /\ UNCHANGED <<cursors, request, closedBy, dmaOn, slot, outEp, hostVars,
                   outcome, history>>

Check ==
    /\ pc = "check"
    /\ pc' = IF Stop THEN "abort" ELSE "room"
    /\ UNCHANGED <<cursors, request, drive, dmaOn, slot, outEp, hostVars,
                   outcome, history>>

\* abort: interrupt off, sequencer in reset, gate shut, chain terminated.  A
\* buffer lasts far longer than these four statements.
Abort ==
    /\ pc = "abort"
    /\ dmaOn' = FALSE
    /\ gate' = FALSE
    /\ closedBy' = IF gate THEN "abort" ELSE closedBy
    /\ pc' = "blackhole"
    /\ UNCHANGED <<cursors, request, index, onDisk, slot, outEp, hostVars,
                   outcome, history>>

\* Mutant: the rest of the transfer is left to the host.
Blackhole_Missing ==
    /\ pc = "blackhole"
    /\ pc' = "reply"
    /\ UNCHANGED <<cursors, request, drive, dmaOn, slot, outEp, hostVars,
                   outcome, history>>

\* Mutant: the last packet is forgotten.
Blackhole_OneShort ==
    /\ pc = "blackhole"
    /\ \/ /\ finished \/ countRead >= packets - 1
          /\ pc' = "reply"
          /\ UNCHANGED <<outEp, countRead>>
       \/ /\ ~finished /\ countRead < packets - 1
          /\ outEp # Empty
          /\ outEp' = Empty /\ countRead' = countRead + 1
          /\ UNCHANGED pc
    /\ UNCHANGED <<cursors, packets, finished, drive, dmaOn, slot, hostVars,
                   outcome, history>>

\* Read the packets the track had no room for, so that the host can get to
\* waiting for its reply.
Blackhole ==
    /\ pc = "blackhole"
    /\ \/ /\ finished \/ countRead = packets
          /\ pc' = "reply"
          /\ UNCHANGED <<outEp, countRead>>
       \/ /\ ~finished /\ countRead # packets
          /\ outEp # Empty
          /\ outEp' = Empty /\ countRead' = countRead + 1
          /\ UNCHANGED pc
    /\ UNCHANGED <<cursors, packets, finished, drive, dmaOn, slot, hostVars,
                   outcome, history>>

\* Mutant: the reply depends on what stopped the loop, not on the flag.
Reply_ByIndex ==
    /\ pc = "reply"
    /\ outcome' = IF ~index THEN "UNDERRUN" ELSE "WRITE_REPLY"
    /\ pc' = "done"
    /\ UNCHANGED <<cursors, request, drive, dmaOn, slot, outEp, hostVars,
                   history>>

Reply ==
    /\ pc = "reply"
    /\ outcome' = IF underrun THEN "UNDERRUN" ELSE "WRITE_REPLY"
    /\ pc' = "done"
    /\ UNCHANGED <<cursors, request, drive, dmaOn, slot, outEp, hostVars,
                   history>>

CmdWrite == \/ Begin \/ CheckRoom \/ Guard \/ FillPacket \/ FillFiller
            \/ Publish \/ Start \/ WaitIndex \/ OpenGate \/ Check
            \/ Abort \/ Blackhole \/ Reply

\* Nothing clears the watchdog from the seek to the end of the command.
Watchdog ==
    /\ pc \in Loop \cup {"blackhole"}
    /\ pc' = "done" /\ outcome' = "RESET"
    /\ dmaOn' = FALSE /\ outEp' = Empty
    /\ gate' = FALSE
    /\ closedBy' = IF gate THEN "abort" ELSE closedBy
    /\ UNCHANGED <<cursors, request, index, onDisk, slot, hostVars, history>>

-----------------------------------------------------------------------------
(* FluxEngineUsb::write()                                                    *)

\* The endpoint only takes a packet while usb_read() has it enabled.
EpEnabled == \/ pc = "fill" /\ ~finished
             \/ pc = "blackhole" /\ ~finished /\ countRead # packets

\* usb_data_send(), packet by packet.
HostSend ==
    /\ host = "sending" /\ sent < packets
    /\ EpEnabled /\ outEp = Empty
    /\ outEp' = sent + 1
    /\ sent' = sent + 1
    /\ UNCHANGED <<pc, cursors, request, drive, dmaOn, slot, host, outcome,
                   history>>

\* All sent: await_reply(F_FRAME_WRITE_REPLY).
HostAwait ==
    /\ host = "sending" /\ sent = packets
    /\ host' = "awaiting"
    /\ UNCHANGED <<pc, cursors, request, drive, dmaOn, slot, outEp, sent,
                   outcome, history>>

\* The reply; a reset fails whichever transfer is open.
HostFinish ==
    /\ \/ host = "awaiting" /\ outcome # "none"
       \/ host = "sending" /\ outcome = "RESET"
    /\ host' = IF outcome = "WRITE_REPLY" THEN "done" ELSE "error"
    /\ UNCHANGED <<pc, cursors, request, drive, dmaOn, slot, outEp, sent,
                   outcome, history>>

Next == \/ PlayFinish \/ IndexPulse \/ SectorPulse
        \/ CmdWrite \/ Watchdog
        \/ HostSend \/ HostAwait \/ HostFinish

Spec == Init /\ [][Next]_vars

(* The main code runs, the host sends, and a loop that the index pulse never *)
(* ends is ended by the watchdog; neither the disk nor the drive is assumed  *)
(* to do anything.                                                           *)
FairSpec ==
    /\ Spec
    /\ WF_vars(CmdWrite) /\ WF_vars(Watchdog)
    /\ WF_vars(HostSend) /\ WF_vars(HostAwait) /\ WF_vars(HostFinish)

-----------------------------------------------------------------------------
(* Properties                                                                *)

\* What the k-th buffer of the track ought to be.
Item(k) == IF k <= packets THEN k ELSE Filler

\* Buffers handed to the chain and not finished, as the cursors tell.
Pending == (writing - reading) % BufferCount

\* While the chain runs, dma_underrun is raised exactly when it has reached a
\* buffer that was not handed to it.
FlagExact == dmaOn => (underrun <=> starved)

\* A buffer between the cursors holds the packet it was handed over with: the
\* main code never refills a buffer the chain has not finished with.
PendingIntact ==
    dmaOn /\ ~starved =>
        /\ Pending = filled - played
        /\ \A k \in 0 .. Pending - 1 :
              slot[(reading + k) % BufferCount] = Item(played + k + 1)

\* The ring of main.c as the interrupt, cmd_write() and the DMA engine share it:
\* the cursors, the underrun flag and the buffers agree.
RingIntact == TypeOK /\ FlagExact /\ PendingIntact

\* The track holds the host's packets in order and then filler, unless the
\* drive was starved.
TrackInOrder == ~starved => \A k \in 1 .. Len(track) : track[k] = Item(k)

\* A successful reply means that the track was written up to an index pulse,
\* and from a chain that always had data.
WholeTrack == outcome = "WRITE_REPLY" => closedBy = "index" /\ ~starved

\* What a write leaves on the track, and says of it.
TrackFaithful == TrackInOrder /\ WholeTrack

\* When the reply comes the host has sent all its packets and none is left in
\* the endpoint for the next session.
HostDrained ==
    outcome \in {"WRITE_REPLY", "UNDERRUN"} => sent = packets /\ outEp = Empty

\* The gate opens once, and an index pulse shuts it however long the main code
\* takes to notice: the beginning of the track is never overwritten.
GateOncePerSession ==
    [][/\ gate' /\ ~gate => closedBy = "none" /\ ~onDisk
       /\ index' /\ ~index => ~gate']_vars

\* The session ends for the host, whatever it was doing.
SessionEnds == <>(host \in {"done", "error"})

\* A session refines what TrackWrite promises.
TrackGate == IF gate THEN "open" ELSE IF onDisk THEN "closed" ELSE "before"
Promise == INSTANCE TrackWrite WITH gate <- TrackGate
RefinesTrackWrite == Promise!Spec
=============================================================================
