--------------------------- MODULE MCStateTracker ---------------------------
EXTENDS StateTracker, TLC
CONSTANTS alice, carol, k1, e, c

MCAddr == {alice, carol}
MCSlot == {k1}
MCCode == {e, c}
MCPreAcct == alice :> [nonce |-> 0, balance |-> 1, code |-> e] @@ carol :> None
MCPreStor == [a \in MCAddr |-> [k \in MCSlot |-> IF a = alice THEN 1 ELSE 0]]

\* One scope: nothing goes on once a block layer has been written.
OneScope == bs = FreshBlock

\* Several scopes, as long as the block has only alice's account to merge.
SmallBlock == bs.acctReads \subseteq {alice}
=============================================================================
