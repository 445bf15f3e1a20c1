------------------------- MODULE CaptureStream -------------------------
(***************************************************************************)
(* What a read session (F_FRAME_READ_CMD) promises the host, without the   *)
(* DMA ring that provides it.  The sampler produces flux fragments         *)
(* numbered 1, 2, 3, ...; the host receives them as a stream and then one  *)
(* reply.  While no overrun has been suffered, the stream is exactly the   *)
(* fragments in order, optionally closed by one partly filled fragment     *)
(* (Partial) which the end of the session cut short; only a session that   *)
(* suffered an overrun may answer with F_ERROR_UNDERRUN.                   *)
(***************************************************************************)
EXTENDS Integers, Sequences

Partial == 0    \* the content of a buffer that is not one whole fragment

VARIABLES captured,   \* whole fragments the sampler has produced so far
          received,   \* what the host has got, oldest first
          overran,    \* has a fragment ever been produced with nowhere to go
          outcome     \* "none" until the session ends

streamVars == <<captured, received, overran, outcome>>

Init == /\ captured = 0
        /\ received = <<>>
        /\ overran = FALSE
        /\ outcome = "none"

\* The sampler finishes a fragment; the ring may or may not have had room.
Capture == /\ overran \/ Len(received) <= captured
           /\ captured' = captured + 1
           /\ overran' \in {overran, TRUE}
           /\ UNCHANGED <<received, outcome>>

\* Room can also run out with no new fragment, when the session's end
\* closes a partly filled one.
Overrun == /\ overran' = TRUE
           /\ UNCHANGED <<captured, received, outcome>>

\* The next whole fragment reaches the host.
Deliver == /\ outcome = "none"
           /\ Len(received) < captured
           /\ received' = Append(received, Len(received) + 1)
           /\ UNCHANGED <<captured, overran, outcome>>

\* The fragment cut short by the end of the session reaches the host.
DeliverPartial == /\ outcome = "none"
                  /\ Len(received) = captured
                  /\ received' = Append(received, Partial)
                  /\ UNCHANGED <<captured, overran, outcome>>

\* After an overrun nothing is promised of the content.
DeliverDamaged == /\ outcome = "none"
                  /\ overran
                  /\ \E content \in 0 .. captured :
                        received' = Append(received, content)
                  /\ UNCHANGED <<captured, overran, outcome>>

\* F_FRAME_READ_REPLY: nothing captured was withheld, unless it overran.
Succeed == /\ outcome = "none"
           /\ overran \/ Len(received) >= captured
           /\ outcome' = "READ_REPLY"
           /\ UNCHANGED <<captured, received, overran>>

\* F_ERROR_UNDERRUN
Fail == /\ outcome = "none"
        /\ overran
        /\ outcome' = "UNDERRUN"
        /\ UNCHANGED <<captured, received, overran>>

\* The watchdog resets the board; the host's transfer fails.
Reset == /\ outcome = "none"
         /\ outcome' = "RESET"
         /\ UNCHANGED <<captured, received, overran>>

Next == \/ Capture \/ Overrun
        \/ Deliver \/ DeliverPartial \/ DeliverDamaged
        \/ Succeed \/ Fail \/ Reset

Spec == Init /\ [][Next]_streamVars
=============================================================================
