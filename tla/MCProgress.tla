------------------------------ MODULE MCProgress ------------------------------
(***************************************************************************)
(* What the passes get done, on a small instance.                          *)
(***************************************************************************)
EXTENDS GroomerProgress, MCTracker

ProgressStarts == {Waiting, Young, Parked}

ThreadedStarts == {Threaded}

NamedStarts == {Named}

ChainStarts == {Parked}

ProgressModes == {[kept |-> k, provider |-> FALSE] : k \in BOOLEAN}

CommandLine == {[kept |-> FALSE, provider |-> FALSE]}

KeptStore == {[kept |-> TRUE, provider |-> FALSE]}

=============================================================================
