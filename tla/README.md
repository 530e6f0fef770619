# A verification development for the stateless guest

The repository holds a program in Pancake, `src/guest/src/*.pnk`, that decides
whether a stateless payload (an Ethereum block with a witness of the state it
touches) is valid, and the tools around it, `src/tools`, that write its inputs
and test vectors, run it, measure it and decide whether a build may replace
another one.

The guest is one deterministic thread on a RISC-V machine without an operating
system: no processes, no messages, no clock. What makes it hard is elsewhere:
four kinds of maps that must be rolled back through an undo journal, nested call
frames that live in an arena with two ends and lend each other memory, gas in two
dimensions that moves between frames, hash tables whose entries move, tries of
which only a part is there, and arithmetic whose rare branches random tests do
not reach. The tools are the other way round: simple steps, but run by pools of
threads, stopped at any point, over files that outlive every run.

This directory models those parts in TLA+, checks them with TLC on small
instances, and proves the most important results for all instances with TLAPS.

## 1. Inventory

| Component | Source | State it keeps | Operations | Right when |
|---|---|---|---|---|
| State tracker | `state.pnk` | block layer `bs`, transaction layer `ts`, undo journal | set/destroy account and storage, transient storage, code, ether, nonce; snapshot, restore; merge | a rollback gives back the four write maps exactly; what was touched is never forgotten; the merge loses nothing |
| Hash table | `lib/htab.pnk` | slots, iteration order, reverse order | set, del, truncate, grow, iterate | every key stays findable, probes end, order matches slots |
| Call frames and gas | `evm_calls.pnk`, `evm.pnk` | stack of frames, gas, state gas, accessed sets, delete sets | every opcode, calls, creations, dispatch of a transaction | gas is conserved, state gas pays for what exists, a failed frame leaves no trace, the loop ends |
| Arenas | `lib/mem.pnk` | heap pointer, frame memory from below, scratch from above | alloc, mark, release | live slices do not overlap, none is released while borrowed |
| Block access list | `bal.pnk` | builder, index, values at index start | record changes and reads, incorporate, sort and encode | a change is listed exactly if it differs from the start of its index |
| Block and settlement | `fork.pnk`, `block.pnk`, `main.pnk` | gas pools, receipts, requests | system transactions, transactions, withdrawals, requests; rejection | pools and ether add up, phases in order, every exception becomes a rejection |
| Transactions | `tx.pnk` | none | decode, validate, recover the sender | accepts exactly the canonical ones |
| Headers | `header.pnk`, `config.h` | none | checks, base fee, blob fee | arithmetic matches the fork |
| Tries | `mpt.pnk` | nodes with cached encodings | look up, insert, delete, root | the root is that of the map; only missing nodes stop an operation |
| RLP, SSZ | `lib/rlp.pnk`, `ssz.pnk` | none | encode, decode, hash tree root | what is accepted is the encoding of what it decodes to |
| Integers | `lib/u256.pnk`, `lib/arith.pnk` | none | 256-bit arithmetic on four limbs | equals arithmetic mod 2^256 |
| Precompiles | `precompiles*.pnk` | none | gas and input checks, dispatch | charge before running, fail closed |
| Curves and hashes | `lib/*.pnk` | none | field, curve and compression functions | equal their mathematical definitions |
| Regression gate | `tools/eest-run.py`, `eest-baseline.py`, `check_all.sh` | output files, results file, baseline | run fixtures on a pool of threads, rerun labels, check, update | a pass is about what was measured; the baseline is never half written |
| Benchmark | `tools/bench.py`, `bench_compare.py` | output files, snapshots | measure guests over a manifest, compare two snapshots | what counts gave the right answer; a growth is not hidden |
| Vector generators | `tools/gen_*_vectors.py`, `blsref.py`, `ssz-inputs.py` | none | reference implementations and the cases they write | the references agree with the guest and with mathematics |
| Client comparison | `tools/compare-clients.py` | none | rewrite inputs between layouts, recover keys | a rewritten input means the same |

Interaction. `fork.pnk` opens a scope of the tracker (`state_fresh_tx`) for each
system transaction, each transaction and the withdrawals, calls
`process_message_call`, settles, and merges the scope (`incorporate_tx_into_block`,
which first updates the access list). `evm_calls.pnk` keeps its own stack of
continuations: `run_frames` is the one loop, and a call opcode pushes a frame.
Each frame records a journal length, the sizes of two shared hash tables and two
arena marks, and uses them if it fails or when it ends. A thrown `EvmErr` is
caught by the loop and ends a frame; a `StateErr` rejects the block; a trap
(`trap_with`) halts the machine. When all scopes are merged, `block.pnk` writes
the changes into partial tries, insertions first, and compares the root.

The tools call the guest as a process and speak to each other through files.
`check_all.sh` starts `eest-run.py`, whose jobs run in a pool of threads, each
writing the output file named after its row's label; the main thread writes the
results to a JSON file, in place, once all jobs are through; `check_all.sh` looks
at the exit status and lets `eest-baseline.py` compare that file with the
baseline. Output files, results, snapshots and the baseline stay for later runs,
whatever stopped the earlier ones.

The list of what is hard to test, each item at its line, is `hazards` in
`PROJECT.json`. In the guest it is all about long legal sequences, partial
failures, stale copies and limits; in the tools about interleavings, stops and
files left behind.

## 2. Modules

* **`StateTracker`** models `state.pnk` and the way `fork.pnk` and
  `evm_calls.pnk` drive it. `tx` is the transaction layer (`tx.tab` its five
  kinds of tables), `bs` the block layer, `marks` the snapshot handles, `phase`
  where `fork.pnk` is. Storage has two levels, as in the program, with numbered
  inner tables. `state_restore` is one action per turn of its loop. The journal
  holds `<<table, key, old binding>>`. `tx.hist` and `saved` are history
  variables: no action reads them.
* **`SnapshotStore`** is what `state.pnk` promises in its first lines: to be
  observationally equal to a reference that copies the maps at a snapshot and
  puts the copy back.
* **`StateTrackerProofs`**: the proofs (section 5).
* **`Htab`** models `lib/htab.pnk` slot by slot: probing, backward shift,
  growth, the order and the reverse order, truncation. The hash is any function
  of a given set. **`OrderedMap`** is what the rest of the guest may assume, and
  **`HtabProofs`** proves that the table is one.
* **`Frames`** models the frame driver on one transaction. The variable `vm` is
  the whole machine, and the functions of the source are operators from machine
  to machine, composed in the order of the code. A thrown `EvmErr` is `vm.err`,
  a trap is `vm.trap`, and nothing happens after either within an instruction.
  **`FramesInvariant`**, **`FramesSteps`**, **`FramesProofs`** prove its properties:
  the helpers and the inductive invariant, the instructions and the ends of
  frames, the transaction and the theorems.
* **`Block`** models `execute_block` and the access list. `phase` and `left` say
  which scope comes next, `index` is `bal_index`, `list` and `memo` are the
  builder and the values at the start of the index, `world` is the block layer
  over the witness, `pools` the counters of gas. One scope, from
  `state_fresh_tx` to `incorporate_tx_into_block`, is one action:
  `UncheckedSystemTransaction`, `Transaction` (check, charge, message, settle),
  `ProcessWithdrawals`, `CheckedSystemTransaction`; `Finish` encodes the list and
  gives the verdict. What a message does is an input: `Effects` on storage and
  code and `Uses` of gas, restricted to what `Frames` shows (`MayUse`).
  **`BlockProofs`** proves its three properties.
* **`Mpt`** models `mpt.pnk` as `gen_mpt_vectors.py` drives it: a witness is
  decoded, values are set and deleted, roots are computed in between. `tree` is
  the partial trie with its cached references, `map` what it should hold. The
  two passes of `compute_state_root` are `InPasses`.
* **`Curve`**, **`Rlp`**, **`U256`**, **`Ssz`**, **`Bls`** are pure. Each defines
  the reference of a generator (affine points, recursive decoder, unbounded
  integers, the encoder of `ssz-inputs.py`, the pairing of `blsref.py`) next to
  what the guest computes, in its own way: joint ladders in Jacobian
  coordinates, a loop with a stack, long division with corrections, checks of
  offsets. `Bls` has the reference and the input checks only; what it must equal
  is the arithmetic of discrete logarithms. Where the generator of the BLS vectors
  multiplies py_ecc's pairings, `ProductOf` multiplies those of `blsref.py`. In `Rlp`
  the checks of one header (`ItemHeader`) are one definition for both sides: their
  order is the same in both sources, and what is compared is how they are put
  together.
* **`MCVectors`** runs these and `Mpt` together: `what` says which of them an
  execution is about, `case` is the input as it is built, in the forms that the
  generators write (random and fixed records, blobs with a cell or an offset
  changed or the end cut off).
* **`EestGate`** models the gate: `job` is the pool of `eest-run.py`, one entry
  per row, `file` the output files, `runner` and `exit` the process, `json` the
  results file (`Torn` while it is written), `baseline` and `tmp` those of
  `eest-baseline.py`, `verdict` what `check_all.sh` concluded. The actions are
  the steps between which threads are switched or a process is stopped:
  `StartJob`, `Emulate`, `ReadOutput`, `RaiseInJob`, `Traceback`, `OpenJson`,
  `WriteJson`, `Kill`, `Gate`, `BeginUpdate`, `WriteTmp`, `Replace`,
  `StopUpdate`, and `NewBuild`, which puts another guest in place.
  **`EestGateProofs`** proves its safety properties.
* **`Bench`** models `bench.py` and `bench_compare.py`, and **`BenchProofs`** proves
  its two properties. **`MCTools`** runs it and `EestGate`: they share no file, so an
  execution is of one of them.
* **`MCStateTracker`**, **`MCHtab`**, **`MCFrames`**, **`MCFramesInvariant`**,
  **`MCFramesTurns`**, **`MCBlock`**, **`MCTools`**, **`MCVectors`** give the constants for TLC.

Operators described as mistakes or as changes for the worse are not part of any
specification: each is a plausible bug put in place of one definition, to see
that a property notices it (`mutants` in `PROJECT.json`).

### What the models abstract

* Accounts are nonce, balance and code hash; a code is its hash. The witness is
  a constant. `TS_CODE_READS` (for the witness only) and
  `BS_PRE_READS` (the addresses whose storage root `compute_state_root` may
  take from the witness, `block.pnk:265-279`) are left out.
* The block layer's storage is one level: nothing removes a binding from it.
* In `Frames` the state is the set of things that exist and did not before the
  transaction (accounts, slots, codes, delegations, first nonces): what state
  gas is paid for. The journal is the sequence of earlier sets; that the real
  journal restores exactly is what `StateTracker` shows.
* In `Frames` memory is counted in cells with one price per cell instead of the
  quadratic formula; a call has one range for input and output; the initial
  accessed set is the target and the identity precompile; loading a delegated
  code and its access charge, and the nonce of a creating contract, are left
  out; at most one authorization, with all its checks passed. A transaction
  that creates at an address that is taken, which ends before a frame exists, is
  not a start state. Opcodes that only compute are a push, a pop, or an
  extension of memory; `LOG` and `TSTORE` are left out, so `StaticWritesNothing` does not
  speak of them. Initcode that is too long is a halt, as of any charge
  that fails, and has no guard of its own.
* `EV_REGULAR_GAS_USED` is modelled (`used`), though the value that is handed on
  (`MCO_REGULAR_GAS_USED`) is not read by `fork.pnk`, which subtracts instead:
  that is why `GasConserved` matters.
* In `Block` a legacy transaction is one whose tip is its whole fee; intrinsic
  costs are inputs; the system contracts share one address; the comparisons with
  the header are one free choice, because the header is an input; checks that only
  reject (count and version of blobs, an empty list of authorizations, the greatest
  nonce) are left out; a sender with code is refused unless the code is a delegation;
  receipts,
  logs, deposits, `BLOCKHASH` and the clearing of selfdestructed accounts are
  left out.
* In `Mpt` a hash is the content it stands for, so Keccak is taken to be
  injective. There are no nodes so short that they stand in their parent: every
  node is referred to by its hash, so that each can be missing from the witness.
* In `Ssz` a cell stands for a byte, an offset takes two of them, other scalars
  one; in `Rlp` the classes of the first byte keep their order and meaning and
  shrink.
* In `EestGate` the emulator's answer is a root, a success flag, a tail and a
  debug code; that the emulator exits with 0 only after it wrote its output is
  an assumption on it (`GateAssumption`). In `Bench` step counts stand for every
  metric.

## 3. Runs

| Run | Question | Instance | Distinct states |
|---|---|---|---|
| `tracker` | rollback, inner tables, what is touched | one scope, 2 addresses, 1 slot, 2 codes, 4 journal records, 1 snapshot at a time | 254 878 |
| `tracker_block` | merge and code look-up over several scopes | 2 records, block layer restricted to one account's reads | 608 642 |
| `tracker_refines` | implements `SnapshotStore` | 3 records, 2 nested snapshots, nonces fixed | 52 984 |
| `htab` | findable keys, probes, order, truncation, implements `OrderedMap` | 4 keys, 2 values, capacity 4 growing to 8, hashes onto the first, a middle and the last slot in any pattern in which some key belongs in the last, 2 remembered counts | 185 620 |
| `htab_order` | the header comment on iteration order | expected violation | |
| `frames` | gas, failures, static calls, selfdestruct | 3 frames deep, 4 gas, reservoir 1 | 118 230 |
| `frames_arena` | overlap, borrowed views, traps | 3 frames, 24 cells, memory that grows from 1 to 4 cells, stacks from 1 to 2 | 134 804 |
| `frames_ends` | termination | 3 frames deep, 7 gas, every instruction has a price | 26 329 |
| `block` | access list, ether, gas pools | 3 accounts, 2 slots, 2 transactions of 7 kinds, 2 + 4 system transactions, 14 gas | 295 482 |
| `vectors` | algorithms against their references | see below | 223 985 |
| `tools` | gate and benchmark | 2 or 3 rows, 2 threads, 2 guests | 345 628 |
| `tools_stale` | a comment in `check_all.sh` on exit statuses | expected violation | |

Why the bounds are enough.

* *Tracker*: four records allow a storage write (two records: outer and inner), a
  deletion of the account (two more) and an undo of all; two inner tables allow
  one to be dropped and a second allocated; one account exists before the
  transaction with a slot and one does not. The capacity is reached in every run,
  so the trap is too.
* *Htab*: the hash values are the first, a middle and the last slot of the arrays
  of four and of eight, so runs wrap around, and the table grows once while it
  holds entries. Keys are interchangeable, so hash functions are taken in
  ascending order. With two remembered counts one truncation can undo another's.
* *Frames*: three frames make a parent, a child that is itself a parent, and a
  leaf; prices are small so that all outcomes of a charge occur, free operands
  let three calls fit in four units of gas, the reservoir is smaller than the
  price of an account so that state gas spills. In `frames_arena` all three
  frames can have grown, and both traps of the arena occur.
* *Block*: two transactions and the withdrawals make three indices after the
  index 0 that the two first system transactions share; the four last ones share
  the index of the withdrawals, so that a later scope of one index can undo an
  earlier one. The transactions are cheap and dear ones: with data floors, blobs,
  creations paid with state gas, worst cases beyond the balance and beyond a word.
  The limit of 14 is less than two transactions may ask for.
* *Mpt*: six keys of two or three nibbles, one a prefix of others; all sets of
  them to begin with, all sets of withheld nodes, any sequence of writes. Leaves,
  extensions and branches split and merge at every depth.
* *Curve*: the curve of secp256k1 (a = 0, b = 7) over the field of 43 has 31
  points, and one with a = -3 for P-256 has 37, so the abscissas r + n occur and
  digests wrap around the order. All r of a word, the boundary values of s.
* *Bls*: the curve of the same family with x = -5, a field of 7207 and a group of
  601, small enough to compute and with the congruences that the tower of fields
  needs. Pairs of multiples of the generators, the infinity and products that cancel
  among them, and points off the curve, off the subgroup and
  out of the field.
* *U256*: three limbs of four bits, two digits or two bytes each. As a every number
  whose limbs are 0, 1, 8 or 15; as b, which also counts bits and bytes, all lowest
  limbs under least, middle and greatest ones; five m. So every shift count up to
  twice the width occurs, carries run through all limbs, and each branch of the
  division, which 32-bit digits take once in 2^31 times, occurs often. Three limbs
  make a first, a middle and a last column of a product; four would make a second
  middle one, and products beyond TLC's integers.
* *Rlp*: every string of up to four bytes of a base of ten, and of up to six bytes of a
  choice of six: short and long forms, three levels of nesting. *Ssz*: an input
  with empty lists and one with every list in use, each cell changed, any two
  offsets set to boundary values, every cut.
* *Gate*: two threads and three rows, so that one waits; a label that occurs twice;
  a guest that is wrong, one that traps without an output, one that stops with half
  an answer. Runs, kills, reruns and updates follow each other without a bound.
  *Benchmark*: two guests, two rows, any selection and any number of runs.

Constraints: `OneScope` and `SmallBlock` stop at states whose block layer is no
longer small. `CHECK_DEADLOCK FALSE` where the program may stop: after a trap or
`StateErr`, at the end of a transaction or a block, after an error of a trie. The
hash table and the tools never stop.

Fairness. `frames_ends` has weak fairness of the loop's step: one thread executes
it, and nothing else could run. `MCFramesTurns` adds a bit that flips with each
turn, so that a turn that changes nothing counts as an endless loop and not as a
step that was not taken. `tools` has weak fairness of `RunnerStep`: the operating
system schedules the threads of `eest-run.py`, and the emulator has a cap on
steps. There is none for what somebody would have to do (`Kill`, `NewBuild`,
`Start`, an update).

## 4. What the runs show

* `RollbackExact`, `HistoryOK`: the journal can be replayed backwards to every
  earlier state of the tables, so that a rollback gives back the maps of the
  snapshot. `NoSharedTable`: never two addresses with one inner table, at any
  length the journal can go back to. `StorageHasAccount`: deleting an account
  takes its storage along, also through rollbacks. `TouchedNeverForgotten`: reads
  survive rollbacks and destroyed storage.
* `CodeResolvable`, `MergeKeepsReads`: what the next scope reads is what this one
  would have read.
* `RefinesReference`: the tracker implements the copying reference.
* `EveryKeyFound`, `ProbesEnd`, `RefinesOrderedMap`, `TruncateRestores`: the hash
  table is an ordered map, whatever collides; its `TypeOK` includes that the order
  and the slots match.
* `GasConserved`: a frame's regular gas is what it has, used, spilled or lent, so
  the subtraction in `process_transaction` does not wrap. It is stated between
  instructions, and not after a trap, which may fall in the middle of a call.
* `StateGasPaysForGrowth`: state gas used is the price of exactly what came to
  exist, through spills, repayments, credits and failures.
* `FailureLeavesNoTrace`, `StaticWritesNothing`, `DoomedWereCreated`.
* `SlicesApart`: the only frame that may grow its memory in place is the last in
  the arena. `ViewsLive`: an output that is a view of memory is still there when
  the parent copies it.
* `Terminates`: each transaction ends.
* `AccessListIsNet`: the list is what each index changed in the end, one entry per
  change, with every account touched and every slot read but not changed, and the
  limit counts exactly these. `EtherConserved`: balances change in sum by the
  withdrawals, less the base fee and the blob fee. `PoolsHold`: no pool of gas is
  exceeded.
* `RootIsOfMap`: after any writes, with any nodes missing, a root that is computed
  is that of the map. `OnlyMissingNodesFail`: no other error can occur.
  `InsertionsFirstSuffices`: if some order of a block's writes needs no missing
  node, the two passes of `compute_state_root` need none either.
* `SignaturesAgree`: recovery finds the signer, means the same as verification, and
  guest and reference agree on it. `RlpAgrees`, `SszAcceptsEncodings`: what is
  accepted is the encoding of what it decodes to, and rewriting between clients'
  layouts keeps it.
* `ArithmeticAgrees`: each of the 22 results that `t_u256.pnk` writes, of which the
  flags are taken one by one, is what unbounded integers give. The guest works on
  limbs with carries, on columns of products, on digits, and bit by bit for a
  quotient of words; numbers of one limb take their own branches. The index
  arguments are cut as the test cuts them (`b & 511`, `b & 63`).
* `PairingDecides`: the reference's pairing product is one exactly if the logarithms
  say so.
* `ResultsAreOwn`: unless labels repeat, each result is the guest's own, in spite
  of shared names and files left behind: a stale output is only read when the
  emulator failed, which its status tells. `PassMeansMeasured`: the gate passes
  only results of a guest that earns a pass for every label that passed when the
  baseline was recorded, whatever was stopped. `BaselineIsSummary`: the baseline is
  never half written, and lists the failures one guest earned. `RunEnds`.
* `OnlyLeftoversMislead`: `bench.py` counts a wrong guest as right only by a file of
  an earlier run. `TotalWithinThreshold`: comparing each fixture alone bounds the
  growth of the total.

Two disagreements between a comment and the code.

* `lib/htab.pnk:5` says iteration order is insertion order. A deletion moves the
  last entry into the gap, so it is not, once anything but the last entry was
  deleted (`htab_order`). Nothing in the guest depends on it: tables that are
  truncated see no other deletion, which `htab.pnk:335` states, and `state.pnk`
  says order is not observable.
* `check_all.sh:147` says that `eest-run.py` returns 1 when a fixture failed and 2 or
  more on errors of its own. An exception in a job, such as an emulator that cannot
  be started, ends it with Python's status 1 before the results are written. The
  baseline checker then reads the results of the run before, and the gate passes for
  a build that was not measured (`tools_stale`). `PassMeansMeasured` says what
  remains true: the pass is about the build that was measured last.

Beside these, the first lines of `bench.py` say that only fixtures whose output
matches the manifest count. They mean the output file, which may be of an earlier
run: that is what the exception in `OnlyLeftoversMislead` stands for.

## 5. Proofs

`StateTrackerProofs` proves, for all addresses, slots, codes, word sizes, journal
capacities and numbers of inner tables,

* `TypeCorrect`: `Spec => []TypeOK`
* `HistoryCorrect`: `Spec => []HistoryOK`
* `TablesNotShared`: `Spec => []NoSharedTable`
* `RollbackCorrect`: `Spec => []RollbackExact`
* `StorageAlwaysHasAccount`: `Spec => []StorageHasAccount`
* `CodeAlwaysResolves`: `Spec => []CodeResolvable`, if the witness has the code of each
  of its accounts
* `NothingForgotten`: `Spec => TouchedNeverForgotten`
* `MergeLosesNothing`: `Spec => MergeKeepsReads`

which are all the tracker's properties but the refinement, from `TrackerAssumption`
alone (it says that the constants have their types and that `Absent` and `None` are
not values), apart from the hypothesis of `CodeAlwaysResolves`. The code does not
promise that one: a witness may lack a code, and the guest then rejects the block.
`MapsStand` says what holds of any witness: a code hash in use is the
empty one, or the witness's own, or was recorded. The inductive invariant `Inv` is the
conjunction of the first three. Neither is inductive alone: that the undo of a
record gives back the tables of one record earlier needs the history, which
needs types; that a write goes to the right inner table needs the ownership of
the tables at every length the journal may return to, because a rollback brings
back outer bindings. `RollbackExact` follows: when the loop stops, the
journal's length is the mark, and the history at the mark is what was saved.
The operators of the tracker are handled once each: `Leads(x, y, t)` says that a
call takes a good `TransactionState` x to a good y that extends x's history and,
unless the guest stopped, has the tables t. Calls compose (`LeadsTrans`), so each
action follows from the lemmas of the calls it makes.

What must survive a rollback has to hold not only of the present tables but where the
journal can lead back to. `StandInv` says that the tables are `Sound` (an address with
an inner table has an account, the code of every account is known) between two calls,
at every length an outstanding snapshot marks, and of empty tables over the block
layer, which is what the next scope starts from. Within a call they are not: an account
left empty is first written and then deleted with its storage. `SeenInv` says more of
less: at *every* length of the journal, because every turn of the loop of
`state_restore` shows its tables, the slots written were read. `Keeps` composes like
`Leads`. It follows that what `destroy_storage` moves from the written to the read
slots was among the latter before, since `op_sstore` reads a slot first. Both
invariants were also checked by TLC on the instances of `tracker` and
`tracker_block`.

Its last part proves `Implements`: `Spec => RefinesReference`. The
mapping reads the maps through both storage levels; while the loop of
`state_restore` runs it already shows the saved copy, so the step that begins
the rollback is the reference's `Restore` and every turn of the loop is a
stutter. A trap maps to the reference's `Stop`.

`BlockProofs` proves, for all transactions, limits and prices,

* `PoolsAlwaysHold`: `Spec => []PoolsHold`
* `RefundNotNegative`: a transaction that passes the checks pays between its floor
  and its gas limit, so that the subtraction for the refund does not wrap
* `ListIsAlwaysNet`: `Spec => []AccessListIsNet`
* `EtherIsConserved`: `Spec => []EtherConserved`

from `BlockAssumption` (the constants are numbers) and `MayUse`, which is what
`GasConserved` of `Frames` promises of a message. `ListIsAlwaysNet` also needs
`WorldAssumption`: addresses and slots are finite sets, worlds are total, and a
message reads a slot before it writes it and touches the account the slot is of
(`op_sstore`, `op_sload`). `EtherIsConserved` also needs `EtherAssumption`: what the
accounts hold at first, with what the payload withdraws, is below 2^256. The code does
not check that (`create_ether` wraps); it holds of the ether there is by a factor of
2^169, and without it the property is false.

*Pools.* The inductive invariant `PoolsOK` adds to `PoolsHold` that `pools` is a
record of numbers. The argument:
regular gas is `intrinsic + regular`, because state gas cancels out of the
subtraction (`RegularWithinCap`), and that is within what the message got and what
`check_transaction` compared with the pool; state gas, clamped at zero, is within
the gas of the transaction (`StateWithinGas`). No assumption on the width of the
words is needed, because nothing wraps.

*The access list.* `AccessListIsNet` speaks of the present index and of those that are
over, but the list does not tell them apart. `ListInv` adds what does: no entry is of
an index to come, so an index that is over keeps its entries (`NothingLater`);
`MemoIsStart`, which says that the memo holds what the world was when the index began,
for all that was written since; and `ListIsRead`, that what the list has changes of was
touched or read. One scope is one lemma, `IncorporateIsNet`: of each field and
each slot the entry at the present index is there if and only if the value differs from
that at the start (`NoteIs`, `NoteSlotsIs`, `ComparesWithStart`), and all others stay.
For `Finish`, `ItemsAre` counts: pairs of accounts and slots, the changed and the other
ones, are together the slots read. `Items` counts pairs of account and slot in the
model rather than adding up sizes account by account, which comes to the same and can be
reasoned about.

*Ether.* `Ether` and `Brought` are sums over sets, and nothing in the library says what
such a sum does. `Adds(b, S, g)` says that g gives the sum of b over each subset
of S by the equation by which `MapThenSumSet` is defined, which picks any
element; there is exactly one such g (`AddsExists`, `AddsUnique`), whatever is taken
away first (`AddsRemove`), and if one number changes, so does the sum
(`AddsChange`). The induction on sets these need goes by a least set that is an
exception (`Minimal`). `EtherInv` adds to `EtherConserved` that the accounts are whole and
that the supply, with whatever may still be withdrawn, is below 2^256. Then no credit
wraps (`CreditAdds`) and no debit goes below zero (`DebitTakes`): the charge and the
value are covered by the worst case the balance was compared with (`CostCovered`), what
is given back and the tip by the charge (`SettledIs`). The withdrawals are shared out
among accounts by their addresses and still add up (`Shared`).

`ListInv` and `EtherInv` were checked by TLC on the instance of `block` first.

`HtabProofs` proves, for all keys, values, sets of hash functions, capacities and
numbers of remembered counts,

* `HtabInvariant`: `Spec => []Inv`
* `ArraysMatch`: `Spec => []TypeOK`
* `KeysAreFound`: `Spec => []EveryKeyFound`
* `ProbesStop`: `Spec => []ProbesEnd`
* `TableIsOrderedMap`: `Spec => RefinesOrderedMap`
* `TruncateUndoes`: `Spec => TruncateRestores`

which are all the table's properties, from `HtabAssumption` alone: a hash is a
number, a new table has at least two slots and fits the heap, and a free slot is not
an entry. That capacities are powers of two is not needed, as a mask is modelled as
a remainder.

`Inv` says of the table that it is `Sound` and at most half full, and of the
remembered counts that they are `Marked`. `Sound` has what the properties leave
out: keys are `Unique`, order and reverse order are `Paired` (one the inverse
of the other), and `Reach`, that all slots between the home of an entry and the entry
are in use. `EveryKeyFound` follows from `Reach` and `Unique`, and is not inductive: that
a probe finds its key does not say that it will after an entry is moved. `Marked` says
that the keys recorded with a count are still the first ones, and that later
counts are no smaller, so that truncating to one keeps the earlier.

*Deletion* is the hard part. `Dist(c, h, i)` is how far i is from h around a
circle of c slots; the test of `htab_del`, with its two cases for runs that wrap around
the end, says that the hole is nearer to the entry's home than the entry is
(`MovableIs`). The loop keeps `Shifting`: the table is `Opened`, that is, has the entries
it had but the one deleted, apart from what the hole still holds, and `Passed`,
no entry between the hole and the slot looked at may move back to the hole. A move
takes the hole along (`MoveOpens`), and when a free slot is met no entry needs the
hole (`EndIsShifted`). Half the slots are free, so it is met in no more turns than
there are slots.

*Loops* are recursive functions here (`ShiftBack`, `Grow`, `Truncated`). The library's
theorems on recursive definitions take operators as parameters, so `LoopRuns`
states that such a function exists for a turn given as a function, and `LoopKeeps`
that what every turn keeps holds in the end; both follow from a least
counterexample. Growth is a loop of insertions that has copied the first n entries
after n turns (`GrowCopies`), truncation one of deletions of the last entry, which
leaves the others where they were in the order (`CutShortens`).

Each operation is then a step of `OrderedMap` on the items (`StepGood`). `Inv` was
checked by TLC first, on an instance of two slots growing to eight with three
keys and two remembered counts (38 799 states).

`EestGateProofs` proves, for all manifests, rows, guests, numbers of threads and
any sequence of runs, kills, reruns, updates and new builds,

* `ClassesAreOwn`: `Spec => []ResultsAreOwn`
* `PassIsEarned`: `Spec => []PassMeansMeasured`
* `BaselineIsWhole`: `Spec => []BaselineIsSummary`

from `GateAssumption`, whose one hypothesis on the world is that the emulator
answers 0 only after it wrote its output. `Inv` has one part for each process:
`RunnerInv` (what a job that ran or is done knows of its own guest, while its
labels are unique), `ResultsInv`, `BaselineInv` (of the temporary file too, and
that nothing runs while it exists) and `VerdictInv`. Labels may repeat: a rerun
then takes the first row of a label, so both the results and the baseline are
about first rows (`FirstRow`), found as the least index (`Smallest`).

`BenchProofs` proves, for all manifests, guests and thresholds,

* `BenchInvariant`: `BenchSpec => []Inv`
* `LeftoversOnly`: `BenchSpec => []OnlyLeftoversMislead`
* `TotalBounded`: `BenchSpec => []TotalWithinThreshold`

from `BenchAssumption` (steps are integers, a threshold is a natural number), which
TLC evaluates in `MCTools`. `OnlyLeftoversMislead` is not inductive: a guest that
writes nothing is judged by the file that is there, so `Inv` also says that files of
places the run has not come to are none of its own (`Reached`). It rests on
`Places`: the loops over rows and variants come to each place once.
`TotalWithinThreshold` is about snapshots whose rows may be in another order, and
`Total` adds up along the sequence. `SumsWithin` takes the fixtures of the new snapshot
one by one, each with its `peer` of the same label in the old one, whose labels
are distinct because `load_snapshot` refused others (`LoadableDistinct`); the old
elements taken so far are a `Part` of the old sum, which grows by one element
at a time (`PartAdds`). `Inv` was checked by TLC first, on three rows with a
repeated label and two guests (2 939 927 states).

`FramesProofs` proves, for all accounts, slots, prices, limits, sizes of the arena
and gas of the transaction,

* `InvHolds`: `Spec => []Inv`
* `TypeCorrect`, `GasIsConserved`, `GrowthIsPaidFor`, `DoomedStand`, `ArenaIsShared`,
  `ViewsStayLive`: `Spec => []P` for `P` each of `TypeOK`, `GasConserved`,
  `StateGasPaysForGrowth`, `DoomedWereCreated`, `SlicesApart`, `ViewsLive`
* `FailureIsUndone`: `Spec => FailureLeavesNoTrace`
* `StaticIsStatic`: `Spec => StaticWritesNothing`

from `FramesAssumption`: prices are natural numbers, the stipend is less than the
price of a value transfer (or a call would make gas), a stack can hold the operands
of a call, and accounts, slots and what belongs to accounts are different things.

None of the properties is inductive. `Inv` says of a running machine that it is
`Good`, or that the arena has run out and the program has stopped (`Trapped`); of a
finished one that it is `Ended`. `Good` relates each frame to the one above it:

* `Slices`, `Views`: where the slices of a frame end and its child's begin, and
  which frame lends what.
* `History`, `Snaps`, `Births`: a nonce once written stays in all later worlds of the
  journal, the rollback points of frames are ordered as the frames are, an account
  whose code runs, or that is doomed, has its nonce since before the point its frame
  can be rolled back to, and what is being created never had code. Without
  them a rollback could take away an account that a frame above it has paid for or
  marked for deletion.
* `Static`: everything above a static frame is static and has written nothing.
* `Warmth`: what was accessed at a frame's start is still the first part of the lists,
  so cutting them back to the recorded lengths restores them.
* `Flow`, `Balanced`: only the top frame may have failed; a suspended one has lent all
  of its reservoir and has room for the result; the gas of each is what it holds and
  what it lent.
* `LowerPaid`, `FirstPaid`, `TopPaid`: a suspended frame has paid for the world it gave
  to its child and for the reservoir it lent; the authorizations' state gas is paid
  apart; the top frame, unless it failed, has paid for the present world.

The proof goes along the code. `Local(v, y, d)` says that a helper changed the top
frame and the arena only, kept its regular gas and used d more state gas; it is
proved once for each helper and composes, so an instruction is a chain of helpers.
`Sane(v, d)` is the state within an instruction, when d state gas is paid for what
is still to be written (`WriteSane` uses it up), and `After` the state behind the
handler of exceptions. A child starts from a parent that is a good host (`Hosts`):
its frame, account and value transfer then make a sane machine (`ChildSane`). At its
end the epilogue makes the machine `Over` in all three cases (success, failure,
creation), and `finish_child` gives the parent what `Resumed` says, from which
each part of `Good` follows for one frame less (`ResumeGood`). The first frame is
prepared in steps that keep `Boot`. For `StaticIsStatic`, `Shows` follows the world
through every helper, and after the first refusal no helper does anything (`Stuck`).

`Inv` was checked before it was proved: `tlc -config MCFramesInvariant.cfg
MCFramesInvariant` takes it as the invariant of an instance with three nested frames,
of which the third exhausts the arena (67 259 states). It is no run of its own, as
the theorem says more.

Two things had to change in the model to be reasoned about: fields of a frame that
were given by functions over infinite sets now have named sets (`View`, `Before`),
and `FramesAssumption` says that the kinds of things in a world are disjoint. In `Htab`
the loops, once recursive operators, are recursive functions of the number of turns,
and the capacity of a new table is within the largest one. In `Bench` a selection
is given by its ascending places, and what counts by places too, instead of
`SelectSeq`, which the provers cannot expand.

Only model-checked:

* `Mpt`, `Curve`, `Rlp`, `Ssz`, `U256` and `Bls`: they recurse over nodes, bytes
  and digits, which needs an induction over data that the provers do not have, or
  compute what is only meaningful for the primes at hand;
* termination of the frames and `RunEnds`, which are liveness.

## 6. Plan

1. *Done*: `StateTracker`, `SnapshotStore` and their proofs; `Htab`; `Frames`;
   `Block`; `Mpt` and the pure libraries against their
   references; `EestGate` and `Bench`.
2. `Headers`: base fee, blob fee and the comparisons with the parent; decoding of
   transactions and `calculate_intrinsic_cost`; the output of `main.pnk` and the
   ladder of handlers.
3. The rest of the libraries: hash tree roots, `modexp.pnk`, bn254, the price formulas of the precompiles.
4. Composition: `Frames` as the message of `Block`, instead of `Effects` and `Uses`;
   `StateTracker` as its two layers.
5. Proofs: done for the tracker, `Htab`, `Frames`, `Block`, `EestGate` and `Bench`.

### Not modelled

* `header.pnk`, `config.h`: pure comparisons and two short formulas (planned).
* Compression functions (`keccak`, `sha256`, `blake2`, `ripemd160`): no state beyond
  a call, no small instance, and no reference in the repository but test vectors.
* Montgomery limbs of `fp384.pnk` and the guest's own Miller loop: the smallest
  instance in which they differ from `blsref.py` has the full width.
* `gen_kzg_vectors.py`, `gen_fp384_vectors.py`, `gen_bn254_vectors.py`,
  `gen_precompile_vectors.py`, `unit.py` and the shell scripts: cases and wrappers
  around what is modelled elsewhere or around external programs.
* The emulator drivers (`src/tools/spike`, `spike_prof`), which wrap a library that
  is not in the repository.
* The Lean development beside the guest (`src/Guest`), which has its own checker.
* The journal's compile-time bound (`fork.pnk:27`), which depends on the price of
  each opcode.
