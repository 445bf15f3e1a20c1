------------------------- MODULE MCCaptureRing -------------------------
(* CaptureRing, restricted for the runs that look for counterexamples.     *)
EXTENDS CaptureRing

\* A fragment takes hundreds of microseconds to fill and a step of cmd_read()
\* one or two, so a counterexample is only of interest if fragments complete
\* while the main code polls for them or is held up by the endpoint.
PromptMain ==
    captured' # captured => \/ pc = "first"
                            \/ pc = "empty" /\ reading = writing
                            \/ pc \in {"send", "zlp", "drain"} /\ ep # Empty
=============================================================================
