------------------------------ MODULE MCBlock ------------------------------
(***************************************************************************)
(* Blocks of up to two transactions by alice, with one system contract     *)
(* that is there from the beginning or is created by a transaction.        *)
(***************************************************************************)
EXTENDS Block, TLC

MCAddr == {"alice", "miner", "system"}
MCSlot == {"k1", "k2"}

Empty == [balance |-> 0, nonce |-> 0, code |-> 0]
World(contract, k1, code) ==
  [acct |-> "alice" :> [Empty EXCEPT !.balance = 40, !.code = code] @@ "miner" :> Empty
            @@ "system" :> contract,
   stor |-> [p \in MCAddr \X MCSlot |-> IF p = <<"system", "k1">> THEN k1 ELSE 0]]

\* A sender without code, and one whose code is a delegation.
MCWorlds == {World([Empty EXCEPT !.nonce = 1, !.code = 1], 1, 0), World(Empty, 0, 2)}

-----------------------------------------------------------------------------
Plain == [sender |-> "alice", to |-> "system", nonce |-> 0, gas |-> 6, maxFee |-> 2, maxTip |-> 1,
          value |-> 5, blobGas |-> 0, maxBlobFee |-> 0,
          intrinsic |-> 2, intrinsicState |-> 0, floor |-> 2]

\* More gas than one message may have; much data; blobs; a worst case beyond the
\* balance, beyond a word; a fee below the base fee.
Kinds == {Plain,
          [Plain EXCEPT !.gas = 12, !.value = 0, !.intrinsicState = 4, !.floor = 5],
          [Plain EXCEPT !.gas = 7, !.intrinsic = 1, !.floor = 7, !.maxTip = 2],
          [Plain EXCEPT !.blobGas = 2, !.maxBlobFee = 3],
          [Plain EXCEPT !.maxFee = 6, !.maxTip = 5, !.value = 10],
          [Plain EXCEPT !.maxFee = 22],
          [Plain EXCEPT !.maxFee = 0, !.maxTip = 0]}
MCTxs == {[t EXCEPT !.nonce = n] : t \in Kinds, n \in 0..1}

\* Everything that was given, nothing, or some of each; state gas given back.
MCUses == {[regular |-> 6, state |-> 0, refund |-> 0], [regular |-> 4, state |-> 0, refund |-> 2],
           [regular |-> 0, state |-> 0, refund |-> 0], [regular |-> 3, state |-> 3, refund |-> 0],
           [regular |-> 1, state |-> -4, refund |-> 0]}

-----------------------------------------------------------------------------
K1 == <<"system", "k1">>
K2 == <<"system", "k2">>
Nothing == [error |-> FALSE, touched |-> {}, installs |-> {}, slots |-> {},
            writes |-> [p \in {} |-> 0]]
Running == [Nothing EXCEPT !.touched = {"system"}]
MCEffects == {Nothing,
              [Running EXCEPT !.slots = {K2}],
              [Running EXCEPT !.slots = {K1}, !.writes = K1 :> 0],
              [Running EXCEPT !.slots = {K1}, !.writes = K1 :> 1],
              [Running EXCEPT !.slots = {K1, K2}, !.writes = K1 :> 0 @@ K2 :> 1],
              [Running EXCEPT !.installs = {"system"}, !.slots = {K1}, !.writes = K1 :> 1],
              [Nothing EXCEPT !.error = TRUE, !.touched = {"miner"}]}
MCWithdrawals == {{}, {[to |-> "alice", amount |-> 3], [to |-> "miner", amount |-> 1]}}
=============================================================================
