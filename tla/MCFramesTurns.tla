--------------------------- MODULE MCFramesTurns ---------------------------
(***************************************************************************)
(* Frames with every turn of the loop of run_frames made visible: a turn   *)
(* that left the machine as it was would be an endless loop of the guest,  *)
(* and must not pass for a step that is not taken.                         *)
(***************************************************************************)
EXTENDS MCFrames

VARIABLE odd   \* whether the number of turns so far is odd

TurnInit == Init /\ odd = FALSE
Turn     == Next /\ odd' = ~odd

\* One thread runs the loop: it does not stop while it can go on.  This is
\* weak fairness of Turn, whose enabling condition is CanStep.
TurnSpec == /\ TurnInit /\ [][Turn]_<<vars, odd>>
            /\ []<>~CanStep \/ []<><<Turn>>_<<vars, odd>>
=============================================================================
