------------------------- MODULE MCFramesInvariant -------------------------
\* The inductive invariant of the proofs, on an instance whose arena runs out
\* while three frames are on the stack.
EXTENDS MCFrames, FramesInvariant
=============================================================================
