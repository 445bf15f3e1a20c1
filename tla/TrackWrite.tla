--------------------------- MODULE TrackWrite ---------------------------
(***************************************************************************)
(* What a write session (F_FRAME_WRITE_CMD) promises, without the DMA ring *)
(* that provides it.  The host has supplied some packets of flux, numbered *)
(* 1 .. packets.  Between two index pulses the track receives them in      *)
(* order, and filler once they have run out.  While the drive has never    *)
(* been starved of data, what is on the track is exactly that; only a      *)
(* session that was starved may answer with F_ERROR_UNDERRUN, and one that *)
(* was starved never answers with F_FRAME_WRITE_REPLY.                     *)
(***************************************************************************)
EXTENDS Integers, Sequences

Filler == 0     \* 0x3f bytes: no pulse for the longest time that fits

VARIABLES packets,   \* packets in the request
          track,     \* buffers written to the disk so far
          gate,      \* "before", "open" or "closed"
          starved,   \* has the drive ever been without data
          outcome    \* "none" until the session ends

trackVars == <<packets, track, gate, starved, outcome>>

\* The k-th buffer of the track.
Item(k) == IF k <= packets THEN k ELSE Filler

Init == /\ packets \in Nat
        /\ track = <<>>
        /\ gate = "before"
        /\ starved = FALSE
        /\ outcome = "none"

Open == /\ gate = "before" /\ outcome = "none"
        /\ gate' = "open"
        /\ UNCHANGED <<packets, track, starved, outcome>>

Write == /\ gate = "open"
         /\ track' = Append(track, Item(Len(track) + 1))
         /\ starved' \in {starved, TRUE}
         /\ UNCHANGED <<packets, gate, outcome>>

\* Once starved, nothing is promised of what reaches the disk.
WriteDamaged == /\ gate = "open" /\ starved
                /\ \E k \in 0 .. packets : track' = Append(track, k)
                /\ UNCHANGED <<packets, gate, starved, outcome>>

\* Data runs out while the gate is already shut.
Starve == /\ gate = "closed"
          /\ starved' = TRUE
          /\ UNCHANGED <<packets, track, gate, outcome>>

Close == /\ gate = "open"
         /\ gate' = "closed"
         /\ UNCHANGED <<packets, track, starved, outcome>>

Succeed == /\ gate = "closed" /\ ~starved /\ outcome = "none"
           /\ outcome' = "WRITE_REPLY"
           /\ UNCHANGED <<packets, track, gate, starved>>

Fail == /\ gate = "closed" /\ starved /\ outcome = "none"
        /\ outcome' = "UNDERRUN"
        /\ UNCHANGED <<packets, track, gate, starved>>

\* The watchdog resets the board, which also shuts the gate.
Reset == /\ outcome = "none"
         /\ outcome' = "RESET"
         /\ gate' \in {gate, "closed"}
         /\ UNCHANGED <<packets, track, starved>>

Next == \/ Open \/ Write \/ WriteDamaged \/ Starve \/ Close
        \/ Succeed \/ Fail \/ Reset

Spec == Init /\ [][Next]_trackVars
=============================================================================
