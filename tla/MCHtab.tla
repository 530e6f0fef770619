------------------------------- MODULE MCHtab -------------------------------
EXTENDS Htab

MCKey == 1 .. 4

\* Hash functions onto slots on both sides of the end of an array of eight, and
\* of an array of four; renaming the keys, their hashes may be taken in order, and
\* some key belongs in the last slot, so that runs wrap around.
AllHashes ==
  {h \in [MCKey -> {0, 3, 7}] : h[4] = 7 /\ \A k \in 1 .. 3 : h[k] <= h[k + 1]}
=============================================================================
