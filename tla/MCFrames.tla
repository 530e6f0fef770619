------------------------------ MODULE MCFrames ------------------------------
EXTENDS Frames
CONSTANTS contract, fresh, identity, slot

MCOld  == {contract}
MCNew  == {fresh}
MCSlot == {slot}

Prices ==
  [base |-> 1, memory |-> 1, warm |-> 1, cold |-> 2, value |-> 2, stipend |-> 1,
   create |-> 1, write |-> 1, account |-> 1]
\* with free operands, more calls fit in the same gas
FreeOperands == [Prices EXCEPT !.base = 0, !.cold = 1]
FreeMemory   == [FreeOperands EXCEPT !.memory = 0]
StatePrices  == [account |-> 2, slot |-> 1, code |-> 1, auth |-> 1]
=============================================================================
