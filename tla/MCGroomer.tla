------------------------------ MODULE MCGroomer ------------------------------
(***************************************************************************)
(* What a pass may do to the repository, on a small instance.              *)
(***************************************************************************)
EXTENDS GroomerProperties, MCTracker

\* A change that waits for an issue, and one that waits for a status.
GroomStarts == {Lone, Running}

GroomModes == {[kept |-> k, provider |-> ~k] : k \in BOOLEAN}

=============================================================================
