-------------------------- MODULE CaptureRing --------------------------
(***************************************************************************)
(* One read session of the firmware: cmd_read() in main.c, the DMA engine  *)
(* that fills a ring of buffers from the sampler, its completion interrupt *)
(* capture_dma_finished_irq_cb(), the data IN endpoint, and the host's     *)
(* FluxEngineUsb::read() on the other end of the cable.                    *)
(*                                                                         *)
(* The main code is preempted by the interrupt between any two accesses to *)
(* a volatile variable, so each of those accesses is a step of its own; pc *)
(* names the next one.  Fragments (BUFFER_SIZE bytes of flux opcodes) are  *)
(* abstracted to their number in capture order.                            *)
(***************************************************************************)
EXTENDS Integers, Sequences

CONSTANTS
    BufferCount,          \* BUFFER_COUNT, 64 in the firmware
    HostCapacity,         \* fragments that fit the host's 1 MB buffer
    MaxFragments,         \* bound: fragments the sampler produces in all
    StartupLag,           \* timing: fragments finished before the main code
                          \* has left the wait for the first one
    TerminateMayInterrupt \* whether CY_DMA_CPU_TERM_CHAIN may raise one last
                          \* completion interrupt (the silicon decides)

ASSUME CaptureAssumption ==
    /\ BufferCount \in Nat /\ BufferCount >= 2
    /\ HostCapacity \in Nat \ {0}
    /\ MaxFragments \in Nat \ {0}
    /\ StartupLag \in 1 .. BufferCount - 1
    /\ TerminateMayInterrupt \in BOOLEAN

VARIABLES
    pc,        \* where cmd_read() is
    writing,   \* dma_writing_to_td
    reading,   \* dma_reading_from_td
    underrun,  \* dma_underrun
    running,   \* dma_running
    saved,     \* saved_dma_underrun
    dmaOn,     \* the DMA channel is enabled
    slot,      \* dma_buffer: the fragment each buffer holds
    expired,   \* clock - start_time >= milliseconds
    ep,        \* FLUXENGINE_DATA_IN_EP: at most one packet
    host,      \* where FluxEngineUsb::read() is
    received,  \* what usb_data_recv() has stored
    outcome,   \* the reply frame, or RESET
    captured,  \* history: fragments the DMA engine has completed
    overran    \* history: the chain has reached a buffer not yet sent

ringVars == <<writing, reading, underrun, running, saved>>
dmaVars  == <<dmaOn, slot, captured, overran>>
hostVars == <<host, received>>
vars     == <<pc, ringVars, dmaVars, expired, ep, hostVars, outcome>>

Partial == 0                 \* not one whole fragment
Zlp     == -1                \* the endpoint holds a zero-length packet
Empty   == -2                \* the endpoint holds nothing
Slots   == 0 .. BufferCount - 1
Content == 0 .. MaxFragments \* a fragment's number, or Partial

NextBuffer(b) == (b + 1) % BufferCount

Blocked == {"setup", "first", "send", "zlp", "drain"}

TypeOK ==
    /\ pc \in Blocked \cup {"claim", "timer", "check", "empty", "advance",
                            "abort", "reply", "done"}
    /\ writing \in Slots
    /\ reading \in Slots \cup {-1}
    /\ underrun \in BOOLEAN /\ running \in BOOLEAN /\ saved \in BOOLEAN
    /\ dmaOn \in BOOLEAN /\ expired \in BOOLEAN /\ overran \in BOOLEAN
    /\ slot \in [Slots -> Content]
    /\ ep \in Content \cup {Zlp, Empty}
    /\ host \in {"receiving", "awaiting", "data", "error"}
    /\ received \in Seq(Content)
    /\ outcome \in {"none", "READ_REPLY", "UNDERRUN", "RESET"}
    /\ captured \in 0 .. MaxFragments

Init ==
    /\ pc = "setup"
    /\ writing = 0 /\ reading = 0
    /\ underrun = FALSE /\ running = FALSE /\ saved = FALSE
    /\ dmaOn = FALSE /\ expired = FALSE /\ overran = FALSE
    /\ slot = [b \in Slots |-> Partial]
    /\ ep = Empty
    /\ host = "receiving" /\ received = <<>>
    /\ outcome = "none"
    /\ captured = 0

\* Buffers the endpoint has accepted, and those whose slot the main code has
\* given back by moving dma_reading_from_td past it.
Loaded   == Len(received) + (IF ep \in {Empty, Zlp} THEN 0 ELSE 1)
Released == IF pc = "advance" THEN Loaded - 1 ELSE Loaded

\* One more buffer filled leaves the chain without one to go on with.
OutOfRoom == captured + 1 - Released >= BufferCount

-----------------------------------------------------------------------------
(* The DMA engine and its interrupt.                                         *)

\* capture_dma_finished_irq_cb(): advance, and flag catching up the reader.
FinishedIrq ==
    /\ writing' = NextBuffer(writing)
    /\ underrun' = (underrun \/ writing' = reading)

\* The first bytes of a fragment land in the buffer the chain is at.
DmaFill ==
    /\ dmaOn
    /\ slot[writing] # Partial
    /\ slot' = [slot EXCEPT ![writing] = Partial]
    /\ UNCHANGED <<pc, ringVars, dmaOn, captured, overran, expired, ep,
                   hostVars, outcome>>

\* A buffer is complete; the chain moves on to the next descriptor by itself.
DmaFinish ==
    /\ dmaOn
    /\ captured < MaxFragments
    /\ pc \in {"first", "claim"} => captured < StartupLag
    /\ captured' = captured + 1
    /\ slot' = [slot EXCEPT ![writing] = captured + 1]
    /\ overran' = (overran \/ OutOfRoom)
    /\ FinishedIrq
    /\ UNCHANGED <<pc, reading, running, saved, dmaOn, expired, ep, hostVars,
                   outcome>>

\* system_timer_cb() counts the session out.
Expire ==
    /\ ~expired
    /\ pc \notin {"setup", "first", "claim", "done"}
    /\ expired' = TRUE
    /\ UNCHANGED <<pc, ringVars, dmaVars, ep, hostVars, outcome>>

-----------------------------------------------------------------------------
(* cmd_read()                                                                *)

\* Seek, wait for the endpoint and, if asked to, for the index pulse; then
\* reset the cursors and enable the chain.
Begin ==
    /\ pc = "setup"
    /\ ep = Empty
    /\ writing' = 0 /\ reading' = -1 /\ underrun' = FALSE
    /\ dmaOn' = TRUE
    /\ pc' = "first"
    /\ UNCHANGED <<running, saved, slot, captured, overran, expired, ep,
                   hostVars, outcome>>

\* while (dma_writing_to_td == 0);
FirstFragment ==
    /\ pc = "first"
    /\ writing # 0
    /\ pc' = "claim"
    /\ UNCHANGED <<ringVars, dmaVars, expired, ep, hostVars, outcome>>

\* Mutant: sending starts with the buffer being filled.
Claim_AtWriter ==
    /\ pc = "claim"
    /\ reading' = writing /\ running' = TRUE
    /\ pc' = "timer"
    /\ UNCHANGED <<writing, underrun, saved, dmaVars, expired, ep, hostVars,
                   outcome>>

Claim ==
    /\ pc = "claim"
    /\ reading' = 0 /\ running' = TRUE
    /\ pc' = "timer"
    /\ UNCHANGED <<writing, underrun, saved, dmaVars, expired, ep, hostVars,
                   outcome>>

\* Mutant: what the ring still holds is dropped with the chain.
Terminate_DropsRing ==
    /\ pc = "timer" /\ expired /\ running
    /\ reading' = writing
    /\ dmaOn' = FALSE /\ running' = FALSE /\ underrun' = FALSE
    /\ pc' = "check"
    /\ UNCHANGED <<writing, slot, overran, saved, captured, expired, ep,
                   hostVars, outcome>>

\* The session is over: stop the chain, and forget any underrun.  If the
\* silicon raises a last interrupt, the buffer it closes is partly filled.
Terminate ==
    /\ pc = "timer" /\ expired /\ running
    /\ \/ /\ UNCHANGED <<writing, slot, overran>>
       \/ /\ TerminateMayInterrupt
          /\ writing' = NextBuffer(writing)
          /\ overran' = (overran \/ OutOfRoom)
          /\ slot' = [slot EXCEPT ![writing] = Partial]
    /\ dmaOn' = FALSE /\ running' = FALSE /\ underrun' = FALSE
    /\ pc' = "check"
    /\ UNCHANGED <<reading, saved, captured, expired, ep, hostVars, outcome>>

KeepGoing ==
    /\ pc = "timer" /\ ~(expired /\ running)
    /\ pc' = "check"
    /\ UNCHANGED <<ringVars, dmaVars, expired, ep, hostVars, outcome>>

\* if (dma_underrun) goto abort;
CheckUnderrun ==
    /\ pc = "check"
    /\ pc' = IF underrun THEN "abort" ELSE "empty"
    /\ UNCHANGED <<ringVars, dmaVars, expired, ep, hostVars, outcome>>

\* Mutant: the end of the session is tested before the ring is empty.
CheckEmpty_EndFirst ==
    /\ pc = "empty"
    /\ pc' = IF ~running THEN "abort"
             ELSE IF reading # writing THEN "send" ELSE "timer"
    /\ UNCHANGED <<ringVars, dmaVars, expired, ep, hostVars, outcome>>

\* Equal cursors mean that there is nothing to send.
CheckEmpty ==
    /\ pc = "empty"
    /\ pc' = IF reading # writing THEN "send"
             ELSE IF running THEN "timer" ELSE "abort"
    /\ UNCHANGED <<ringVars, dmaVars, expired, ep, hostVars, outcome>>

\* wait_until_writeable(), then USBFS_LoadInEP() of the oldest buffer.
SendFragment ==
    /\ pc = "send"
    /\ ep = Empty
    /\ ep' = slot[reading]
    /\ pc' = "advance"
    /\ UNCHANGED <<ringVars, dmaVars, expired, hostVars, outcome>>

Advance ==
    /\ pc = "advance"
    /\ reading' = NextBuffer(reading)
    /\ pc' = "timer"
    /\ UNCHANGED <<writing, underrun, running, saved, dmaVars, expired, ep,
                   hostVars, outcome>>

\* abort: the verdict is taken here; an underrun leaves the chain running.
Abort ==
    /\ pc = "abort"
    /\ saved' = underrun
    /\ pc' = "zlp"
    /\ UNCHANGED <<writing, reading, underrun, running, dmaVars, expired, ep,
                   hostVars, outcome>>

\* Mutant: the transfer is not terminated.
SendZlp_Missing ==
    /\ pc = "zlp"
    /\ ep = Empty
    /\ pc' = "drain"
    /\ UNCHANGED <<ringVars, dmaVars, expired, ep, hostVars, outcome>>

SendZlp ==
    /\ pc = "zlp"
    /\ ep = Empty
    /\ ep' = Zlp
    /\ pc' = "drain"
    /\ UNCHANGED <<ringVars, dmaVars, expired, hostVars, outcome>>

Drain ==
    /\ pc = "drain"
    /\ ep = Empty
    /\ pc' = "reply"
    /\ UNCHANGED <<ringVars, dmaVars, expired, ep, hostVars, outcome>>

Reply ==
    /\ pc = "reply"
    /\ outcome' = IF saved THEN "UNDERRUN" ELSE "READ_REPLY"
    /\ pc' = "done"
    /\ UNCHANGED <<ringVars, dmaVars, expired, ep, hostVars>>

CmdRead == \/ Begin \/ FirstFragment \/ Claim
           \/ Terminate \/ KeepGoing \/ CheckUnderrun \/ CheckEmpty
           \/ SendFragment \/ Advance
           \/ Abort \/ SendZlp \/ Drain \/ Reply

\* None of the waits clears the watchdog: one that lasts resets the board.
Watchdog ==
    /\ pc \in Blocked
    /\ pc = "first" => writing = 0
    /\ pc \in {"send", "zlp", "drain"} => ep # Empty
    /\ pc' = "done" /\ outcome' = "RESET"
    /\ dmaOn' = FALSE /\ ep' = Empty
    /\ UNCHANGED <<ringVars, slot, captured, overran, expired, hostVars>>

-----------------------------------------------------------------------------
(* FluxEngineUsb::read()                                                     *)

\* usb_data_recv() ends on a short packet or when its buffer is full.
HostReceive ==
    /\ host = "receiving"
    /\ ep # Empty
    /\ ep' = Empty
    /\ received' = IF ep = Zlp THEN received ELSE Append(received, ep)
    /\ host' = IF ep = Zlp \/ Len(received') = HostCapacity
               THEN "awaiting" ELSE "receiving"
    /\ UNCHANGED <<pc, ringVars, dmaVars, expired, outcome>>

\* await_reply(F_FRAME_READ_REPLY); a reset fails whichever transfer is open.
HostFinish ==
    /\ \/ host = "awaiting" /\ outcome # "none"
       \/ host = "receiving" /\ outcome = "RESET"
    /\ host' = IF outcome = "READ_REPLY" THEN "data" ELSE "error"
    /\ UNCHANGED <<pc, ringVars, dmaVars, expired, ep, received, outcome>>

Next == \/ DmaFill \/ DmaFinish \/ Expire
        \/ CmdRead \/ Watchdog
        \/ HostReceive \/ HostFinish

Spec == Init /\ [][Next]_vars

(* The main code runs, the millisecond clock ticks, the host polls, and the  *)
(* sampler always produces: it emits an opcode at least every 63 ticks.      *)
FairSpec ==
    /\ Spec
    /\ WF_vars(DmaFinish) /\ WF_vars(Expire)
    /\ WF_vars(CmdRead) /\ WF_vars(Watchdog)
    /\ WF_vars(HostReceive) /\ WF_vars(HostFinish)

-----------------------------------------------------------------------------
(* Properties                                                                *)

InLoop == pc \in {"timer", "check", "empty", "send", "advance"}

\* The distance between the cursors, as the test for an empty ring sees it.
Waiting == IF writing >= reading THEN writing - reading
           ELSE writing - reading + BufferCount

\* The fragments there are to send: all that were captured and, once the chain
\* has been terminated, possibly the one that was cut short.
Produced == captured .. (IF running THEN captured ELSE captured + 1)

\* As long as no fragment has lost its room, the distance between the cursors
\* is exactly what has been produced and not sent: "no more blocks to be read"
\* in cmd_read() never mistakes a full ring for an empty one.
CursorsCount == InLoop /\ ~overran => Released + Waiting \in Produced

\* While the chain runs, dma_underrun is raised exactly when a fragment has lost
\* its room: the interrupt, which sees only the two cursors and the -1 they
\* start from, neither misses an overrun nor invents one.
FlagExact == InLoop /\ running => (underrun <=> overran)

\* A buffer between the cursors still holds the fragment DMA put there: the
\* engine never refills a buffer before the main code has given it back.
WaitingIntact ==
    InLoop /\ ~overran =>
        \A k \in 0 .. Waiting - 1 :
            slot[(reading + k) % BufferCount] =
                IF Released + k = captured THEN Partial ELSE Released + k + 1

\* The host gets the captured fragments in order, without gaps or repeats;
\* only the very last may be the one the end of the session cut short.
InOrder ==
    ~overran => \A i \in 1 .. Len(received) :
                    \/ received[i] = i
                    \/ received[i] = Partial /\ i = captured + 1

\* When FluxEngineUsb::read() returns data and nothing overran, it has every
\* whole fragment of the session: none is left behind in the ring, in the
\* endpoint, or beyond the end of the host's buffer.
NothingWithheld ==
    host = "data" /\ ~overran => Len(received) >= captured

\* The ring of main.c as the interrupt, cmd_read() and the DMA engine share it:
\* the distance of the cursors, the underrun flag and the buffers agree.
RingIntact == TypeOK /\ CursorsCount /\ FlagExact /\ WaitingIntact

\* What FluxEngineUsb::read() returns: the fragments in order, and all of them.
StreamWhole == InOrder /\ NothingWithheld

\* The host's "USB underrun" error is never spurious: a fragment really had no
\* buffer to go to.
UnderrunHappened == outcome = "UNDERRUN" => overran

\* The session ends for the host, with data or an error: neither a full host
\* buffer, nor a missing index pulse, nor a slow host leaves it waiting.
SessionEnds == <>(host \in {"data", "error"})

\* A session refines the stream that CaptureStream promises.
Stream == INSTANCE CaptureStream
RefinesStream == Stream!Spec

\* "If there's an underrun event, stop immediately" (main.c): a session that
\* lost a fragment's room is never reported as a success.
UnderrunReported == outcome = "READ_REPLY" => ~overran
=============================================================================
