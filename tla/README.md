# Nimiq Albatross in TLA+

A verification development for the Rust implementation of the Albatross proof-of-stake chain in this repository.
It has TLA+ modules for the parts that carry the protocol, TLC configurations for small instances of them and
TLAPS proofs of the properties that matter most. `PROJECT.json` maps every definition to the lines it models.

1. [The system](#the-system): the parts, their state, how they interact, what is hard about them
2. [The modules](#the-modules): how the models correspond to the code
3. [The runs](#the-runs): what TLC checks, on which instances, and why the bounds are enough
4. [The proofs](#the-proofs): what holds for every value of the constants, and along which argument
5. [Where code and documentation disagree](#where-code-and-documentation-disagree)
6. [Plan](#plan): the modules, runs and theorems to come
7. [What is not modelled](#what-is-not-modelled)

## The system

A chain of blocks is cut into batches and epochs. Most blocks are micro blocks: the owner of the slot, drawn from
the seed of the previous block, produces one alone. When it does not, the validators agree on a view change and the
next owner takes its turn. The last block of a batch is a macro block, on which the validators agree with
Tendermint; the last one of an epoch elects the next validators. Micro blocks may fork, macro blocks are final.

| Part (crate) | State | Operations | Talks to |
|---|---|---|---|
| Tendermint (`tendermint`) | round, step, lock, valid value, current proposal | `expect_block` and its handlers in `protocol.rs` and `network.rs` | the outside dependencies, by awaiting their answers |
| Outside dependencies (`validator`) | cached body, aggregation adapter | `get_value`, `propose_value`, `await_proposal`, `broadcast_and_aggregate`, `get_aggregation`, `assemble_block` | network, block producer, chain |
| Aggregation (`handel`, adapter in `validator`) | best contribution per level, pending updates, one aggregation per round and step | updates in, the best aggregate out | network |
| Validator (`validator`) | macro and micro producers, saved Tendermint state, fork proof pool | `poll` over consensus, chain and fork events and both producers | consensus, chain, mempool |
| Micro producer (`validator`) | block number and seed at its start, view number | produce, wait, change the view | chain, view change aggregation |
| Blockchain (`blockchain-albatross`) | head, macro head, election head, slots, transaction cache | `push`, `extend`, `rebranch`, `push_history_sync`, `load` | store, accounts, history; notifies validator, mempool, consensus |
| Chain store (`blockchain-albatross`) | chain infos, blocks, height index, receipts | put, get, lookup by height, walk backwards | database |
| Accounts, staking contract (`accounts`, `primitives/account`) | balances, validators, stakes, parking, lost rewards, disabled slots | commit and revert of transactions and inherents | chain |
| Mempool (`mempool`) | transactions by hash, fee, sender, recipient | push, evict on a new head, restore on a rebranch | chain, accounts, block producer |
| Sync queue (`consensus-albatross`) | ids to request, requests in flight, objects that came early, peers | add and cut ids, add peers, `poll_next` | peers |
| History sync (`consensus-albatross`) | clusters of epoch ids, clusters per peer | cluster ids, request epochs and history chunks, push them | sync queue, chain |
| Block queue (`consensus-albatross`) | buffered blocks by height | announcements, missing blocks, pushes | chain, peers |
| Consensus (`consensus-albatross`) | established or not, head requests | decide when the node follows the chain of its peers | all of the above |

What makes each part correct, and what is hard about it:

- **Tendermint.** Two macro blocks of one height are never both certified. Every validator is its own task; votes
  and proposals are delayed, lost and reordered; proposals carry no round; up to a third of the slots may do
  anything. The lock has to survive round changes, jumps to a later round and re-proposals of an old value.
- **Validator loop.** Both producers are built anew on every event of the chain, so the state of an interrupted
  Tendermint instance has to be saved at the right moment and read back.
- **Blockchain.** Blocks of many branches arrive in any order. Flags, successors, receipts, accounts, history and
  transaction cache have to describe the same chain after every rebranch, failed rebranch and restart; the head may
  only move to a better chain and never behind a macro block.
- **Accounts and staking contract.** Every commit has a revert that restores the state exactly, in the order the
  chain uses it; stake is neither made nor lost; slashes survive the ends of batches and epochs as long as they should.
- **Mempool.** Four indexes agree; the transactions of one sender can be paid together on the current head; the
  head moves while transactions are being checked, under two locks.
- **View change and micro blocks.** One block per slot from an honest validator; a view change and the late block of
  the old view race; two thirds of the slots must be enough everywhere or nowhere.
- **Sync queue.** Objects come back in the order of their ids although peers answer in any order, fail and leave; no
  id is lost or returned twice; memory is bounded; every id leaves the queue in the end.
- **History sync, block queue, consensus.** Clusters keep their offsets while the chain advances; answers are stale
  when they arrive; peers leave between request and answer; a node with honest peers is established in the end.
- **Handel.** The best contribution of a level only grows; every contribution reaches everyone in the end.
- **Rewards and inherents.** What a batch pays out is its reward, whatever slots were slashed; windows are exact at
  the ends of batches and epochs.

`PROJECT.json` lists these hazards at the lines where they bite, with the properties that cover them, and for those
that no property covers yet, why.

## The modules

| Module | Models | Used by |
|---|---|---|
| `Tendermint` | all honest validators of one height with what the network may deliver | `MCTendermint`, `TendermintProofs`, `TendermintRestart` |
| `TendermintRestart` | the same, with producers that are started again (`EXTENDS Tendermint`) | `MCTendermintRestart` |
| `Blockchain` | the chain of one node: push, rebranch, history sync, restart | `MCBlockchain` |
| `Ledger` | abstract: what the chain promises to the rest of the node | `MCBlockchain`, as a refinement |
| `SyncQueue` | the ordered stream of requested objects | `MCSyncQueue` |
| `TendermintProofs` | theorems about `Tendermint` | |

Definitions whose name ends in an underscore and a remark (`OnPolka_KeepsLock`) are mutated forms of the definition
that follows them. A run in which the definition is replaced by its mutated form violates the property the mutant is
for, which shows that the property depends on that code.

### Tendermint

The variables are the fields of `TendermintState`, one function from validators for each, plus what has been
broadcast. `pc` is the await in which a validator's task is suspended; it stands for `step` and `current_checkpoint`.
An action runs from one await to the next, as `poll_macro` polls the stream until it is pending:

| Action | Code |
|---|---|
| `StartRoundPropose`, `StartRoundWait` | `start_round`, with or without our turn |
| `AwaitProposal`, `AwaitProposalTimeout` | the answers of `await_proposal`, followed by `on_proposal`, `on_past_proposal` or `on_timeout_propose` |
| `AwaitPrevotes` | the aggregate of the prevotes, then `on_polka`, `on_nil_polka` or `on_timeout_prevote` |
| `AwaitPrecommits` | the aggregate of the precommits, then `on_decision` or `on_timeout_precommit` |
| `NewRound` | `AggregationResult::NewRound`, more than f slots heard of in a later round |
| `DepsFail` | an error from any dependency, which ends the stream |

Every validator owns one slot, so a count of slots is a count of validators; the code counts slots as well. The votes
of a faulty slot count for every value in every round, and a faulty proposer shows any acceptable proposal to each
validator separately. The contributors of a later round are counted before any signature is checked, so one faulty
slot is enough for `NewRound`. An aggregate may lack votes that were sent, so an answer needs the votes it reports but may
come without them: Handel's timeouts are a choice of the environment. Loss, delay and reordering of messages are
covered by this. `is_our_turn` and `await_proposal` use the view numbers the code gives them, which differ by the
view number of the head (`HeadView`). The body cache of `TendermintInterface` and the check of it in
`assemble_block` are modelled. Headers and bodies are values; `verify_state` always answers true, as in the code.

`TendermintRestart` adds `macro_state` of `Validator`, what `poll_macro` stores in it and when, and the two ways a
producer starts again, in the same process and in a new one. `poll_macro` writes the state to a database transaction that is not committed, so a new
process finds none.

### Blockchain

The tree of blocks that pass the checks on a single block is a constant. `Push(b)` is the whole of `push` for one
block: `order_chains`, the lookup of the slot owner, the fork check and then `extend`, `rebranch` or storing it as a
fork. A push holds `push_lock` and writes one database transaction, so it is one step. `PushHistorySync(b)` is
`push_history_sync` with `extend_history_sync`, `Load` is a restart. Blocks may come in any order that has the parent
first; orphans and known blocks change nothing.

The disk is `known` (chain infos and blocks), `onMain` and `succ` (flags in the chain infos), `heightIdx`,
`receipts` and `accounts`, the sequence of blocks that accounts and history tree consist of. The memory is
`BlockchainState` and the transaction cache. A step that runs into an `assert`, `expect` or `panic` of the code
changes nothing on disk and names the check in `fault`; only `Load` follows it, as a restart would. Lookups by
height read the index in the order of the hashes and stop at an entry without a chain info, as the cursor does.

`VerifiedBlocks` states what is assumed of the tree: the view numbers are those the justification check lets pass,
transactions are within their validity window, and there is one macro block per height, which is the Agreement
that `Tendermint` establishes. This is where the two modules meet.

`Ledger` is the promise the other parts rely on: the head moves only to a better chain, where better means a higher
view number at the first difference, or else more blocks, and never leaves a macro block it has adopted.

### SyncQueue

`add_peer` takes a peer that is in the list already; `MaxPeers` bounds the length of the list. A poll is split into the
iterations of its loops (`phase`), because a peer may leave between any two of them; the
owner acts only between polls, as `poll_next` borrows the queue. `peers` holds weak references: a peer that left is
still alive while a request to it is in flight (`Upgrades`). `get_next_peer` drops dead peers from the position it
starts at and may run past the end of the list, which sets `panic`; an answer for an empty list of peers does too.
The heap and the set of futures are sets: the heap is only looked at for its smallest index, the futures complete in
any order. `output` records what was returned.

## The runs

All runs take less than three minutes; the passing ones have between 2,900 and 664,000 distinct states. Deadlock is checked where the system cannot stop; in the other runs validators
finish or give up, a node stops at a failed check or a queue has returned everything.

| Run | Instance | Properties |
|---|---|---|
| `tendermint_byz` | 4 slots, one faulty that owns both rounds, 2 headers | a header is precommitted only on 2f+1 prevotes; nobody votes twice; Agreement; the inductive invariant of the proofs |
| `tendermint_rounds` | 3 honest slots, 3 rounds, 2 headers, alternating proposers, one of which may stop at a failed call | types, locks are justified and respected, Agreement, rounds and locks only move forward |
| `tendermint_proposer` | 3 slots, head of view 1 | violated: see below |
| `tendermint_restart` | 4 slots, one faulty, one restart | violated: see below |
| `blockchain_forks` | 18 blocks in two batches of 3, one that the accounts refuse, window 5 | types; flags and successors form one chain; accounts and receipts are those of the head; no transaction twice; every fork is reported; an inferior chain never becomes better; slot owners are those of the block's own branch; no check of the code fails but one; restarts succeed and recover the memory; refines `Ledger` |
| `blockchain_faults` | 20 blocks in two batches of 4, with a fork block the accounts refuse and an extending block with a wrong state root, window 3, with history sync | one chain, accounts of the head with its state roots, refinement, in spite of failed rebranches, failed checks and synced batches |
| `blockchain_state`, `blockchain_restart`, `blockchain_revert`, `blockchain_replay` | the tree of `blockchain_faults` with a wrong state root on a fork; 10 blocks with history sync; a macro block of view 1; the 10 blocks again | violated: see below |
| `sync_queue` | 2 peers in a list of at most 3, 3 ids, 2 requests at a time | types and bounds on tries and positions; order; every index is accounted for once and belongs to the id of its rank; memory is bounded; every id leaves, or an error or a panic follows |
| `sync_queue_error` | the same | violated: see below |

Why the bounds are enough to be interesting:

- *Tendermint.* Four slots with one faulty are the smallest set in which two quorums meet in a single honest slot.
  Two rounds let a faulty proposer split the votes in the first and try the other header in the second. Three rounds
  let a validator lock in the first, be overtaken in the second and see the old value proposed again in the third,
  with a valid round. The general case is the proof's.
- *Blockchain.* The trees are chosen, not generated: they have forks of equal view numbers, forks one and two view
  changes ahead, forks over several heights, a macro block on one of the branches, transactions that repeat on the
  same and on another branch inside and at the edge of the window, and windows shorter and longer than a batch. All
  arrival orders and restarts at every point are explored. `blockchain_faults` keeps wrong state roots off the forks,
  where `blockchain_state` shows what happens to them.
- *SyncQueue.* With three ids and two places one id always waits; two peers are enough for a retry, for both to
  leave and for the position to run past the end, and a third entry for one of them to be in the list twice.

**Fairness.** Only `sync_queue` and `sync_queue_error` use it. Weak fairness on
the steps of a poll says that its loops go on. Weak fairness on `Poll` is a duty of the owner, and not something the
queue brings about: when nothing is in flight, `poll_next` requests more and returns `Poll::Pending` without polling
the new futures (`sync_queue.rs:255`), and ids added after a poll wake nobody. An owner that is polled for other reasons
as well, as consensus is by the events of its peers, polls the queue again; one that waits for the queue's waker alone
does not meet the assumption. A request ends at some time, by an answer or by the
timeout of the request, but a poll that finds it unfinished returns; so the answer for each id is enabled again and
again rather than continuously, hence strong fairness on it. Nothing is assumed of the peers: they may all leave.
What `IdsLeave` does not show: it excuses a queue that has returned an error or run into a panic; `sync_queue_error`
is about the first, the second is a hazard without a property.

## The proofs

`TendermintProofs` proves, for any number of slots and headers, any assignment of proposers and seeds, any head view
number and any bound on the rounds:

| Theorem | Statement |
|---|---|
| `TypeCorrect` | `Spec => []TypeOK` |
| `Inductive` | `Spec => []IndInv` |
| `Safety` | `Spec => []Agreement`: no two headers ever both carry 2f+1 precommits |
| `Progressive` | `Spec => ForwardOnly`: no step leads back to an earlier round or lock |

*Assumptions.* There are finitely many slots and less than a third of them are faulty; nil is not a header; the
functions given as constants have their types. Nothing is assumed of delivery or timing, nor that proposer and
listeners agree on the view number, nor that the dependencies work. Validators that start again are not part of
`Spec`; for them see `tendermint_restart`.

*Argument.* Agreement is not inductive: it says nothing of how certificates come about. `IndInv` adds what each vote
was based on:

- `NoEquivocation`: one prevote and one precommit per round, none for rounds not reached. It needs the position of a
  validator within its round, so it relates votes to `pc` and `round`.
- `PrecommitsJustified`: a precommitted header has 2f+1 prevotes in that round (a polka).
- `LocksJustified`: the lock is the last precommitted header, its polka exists, and it is the valid value.
- `LockRespected`: whoever precommitted x and later prevotes y has seen a polka for y in between.
- `DecisionsJustified`: a block is handed out on a certificate.

`QuorumIntersection` shows from the arithmetic of `TWO_THIRD_SLOTS` that two sets of 2f+1 slots share an honest one.
`StepKinds` reduces the actions to three kinds of step: one that prevotes, one that precommits and one that does
neither; each kind preserves each part of `IndInv` (`PrevotePreserves`, `PrecommitPreserves`, `MovePreserves`).
`IndInv` then gives Agreement: let x have a certificate in r, and let k be the first round from r on with a polka for
another y. An honest slot took part in both. For k = r it prevoted twice, as x has a polka in r as well; for k > r
`LockRespected` gives a polka for y in an earlier round, which contradicts the choice of k.

*Only model-checked:* everything about `Blockchain`, `Ledger` and `SyncQueue`. Liveness (`IdsLeave`) rests on fairness
and on `ENABLED`, which the prover does not handle. The contents of sequences built by recursion or folds (caches,
chains) would need induction over data, which is out of the prover's reach too; for `Blockchain` the parts that are
sets and functions can be proved and are in the plan.

## Where code and documentation disagree

All but the last have a run that is expected to violate the property stating what the documentation says.

- **The proposer is not the one awaited** (`tendermint_proposer`). `is_our_turn` asks for the slot owner of view
  number `round`, `await_proposal` for that of the head's view number plus `round`. After a micro block with a view
  number above zero the validator that proposes may not be the one the others listen to. Safety is not concerned:
  the theorems hold for any owner and any head view.
- **A resumed instance forgets its last lock** (`tendermint_restart`). A state update is yielded before the next
  handler sets its lock and sends its precommit; a second start finds no state, since the first has taken it; and
  the database transaction with the state is never committed. A validator that starts again may prevote against its
  own precommit.
- **State roots of a fork** (`blockchain_state`). `extend` calls `verify_block_state` after committing a block,
  `rebranch` does not. A fork block whose state root is not that of the accounts becomes the head, and the check of
  `load` that "chain/accounts state is consistent" refuses the store on every start from then on.
- **Restart after history sync** (`blockchain_restart`). Only the macro blocks of synced batches are stored. `load`
  fills the transaction cache from the stored blocks and asserts that it has the whole window; it has not.
- **Reverting the first block of a batch** (`blockchain_revert`). `commit_accounts` is given `next_view_number()` of
  the predecessor, `revert_accounts` is given `view_number()`. After a macro block with a view number above zero the
  slash inherents differ and the assertion on the accounts fails.
- **Transactions after history sync** (`blockchain_replay`). `extend_history_sync` leaves the transaction cache as it
  was, so the check against repeated transactions does not see those of synced batches.
- **Objects after an error** (`sync_queue_error`). When an id cannot be resolved `poll_next` returns an error without
  advancing `next_outgoing_index`; objects of later ids that were received stay in the heap for good.
- **Requests in flight** (`PendingBounded` of `sync_queue`, which passes). A comment of `try_push_futures` says that
  there can be more than `desired_pending_size` when a request is repeated. The repeated request replaces the one that
  failed, and the bound holds.

Paths on which the code stops at an assertion are taken by the models and recorded in `fault` or `panic`.
`OtherChecksHold` of `blockchain_forks` shows that pushes without history sync run into one of them only, the assertion
of `rebranch` against a macro block on a fork (`push.rs:247`), on a tree whose macro blocks have view number zero and
whose invalid fork is one stored block long. Of a longer one `remove_chain_info` leaves index entries without a chain
info, which a lookup may meet (`blockchain_faults`); the main chain and its accounts stay as they were. The hazards list both, and the panics of
`get_next_peer`, as not covered by a property that forbids them.

## Plan

The order is that of importance for the chain. Runs that ask a question which a proof has settled give way to runs of
new modules.

1. `StakingContract` with the order of commit and revert in `Accounts`: validators, stakes, inactive stakes, parking,
   lost rewards and disabled slots. Properties: the balance is the sum of all stakes; the sorted set and the map of
   validators agree; reverting a block restores the state; slashes last exactly as long as they should. Two
   validators, two stakers, blocks of up to two transactions.
2. `Rewards`: policy arithmetic and `finalize_previous_batch` as operators, checked against reference definitions for
   all block numbers of three epochs and all sets of slashed slots of a few bands.
3. `ViewChange`: several validators with micro producers, view change aggregation and `ForkProofPool`, composed with
   an abstract chain that orders branches as `Ledger` does. Properties: an honest validator never produces two blocks
   of one slot; a view change has a proof the chain accepts; a proof is included once; the chain grows in the end.
4. `Mempool`: pushes, evictions and restores against a moving head, with the locks as state. Properties: the indexes
   agree; no sender's transactions exceed its funds once the events are handled; no lock is waited for for ever.
5. `BlockQueue` with the consensus state and head requests: buffered blocks are pushed or dropped, the buffer is
   bounded, a node with honest peers is established in the end.
6. `HistorySync` over `SyncQueue`: offsets of clusters, counts of clusters per peer, peers that leave.
7. `Handel`: store, levels and partitioner of three to five nodes, refining the abstract aggregation that `Tendermint`
   uses; `TendermintAdapter` between the two.
8. `Contracts`: HTLC and vesting caps around their time limits.
9. A passing run of `TendermintRestart` for what still holds: Agreement as long as restarts and faulty slots together
   are fewer than a third.

Further hazards these modules are to cover, beside the ones `PROJECT.json` lists:

- `StakingContract`: an operation that fails after it removed an entry (`actions/staker.rs:141`); slashing, unparking
  and retiring around the end of an epoch (`actions/mod.rs:418`).
- `Rewards`: the window in which a fork proof is valid (`fork_proof.rs:58`).
- `ViewChange`: block number and seed kept from the start of the producer (`micro.rs:52`); fork proofs that a rebranch
  returns to the pool (`slash.rs:41`).
- `Mempool`: a full pool in which the new transaction itself is the one to leave (`mempool/src/lib.rs:279`);
  transactions of reverted blocks whose funds are taken (`mempool/src/lib.rs:498`).
- `BlockQueue`: a buffer full of blocks that cannot be reached (`block_queue.rs:106`); a locator above the target
  (`handlers.rs:148`).
- `HistorySync`: the offset once known ids are removed, and a peer all of whose ids are known (`history.rs:387`, `390`).
- `Handel`: nothing larger to send on a level whose peers missed the last update (`level.rs:117`).

Abstract specifications worth stating: `Ledger` (done), an ordered stream for `SyncQueue`, an aggregation that only
grows for `Handel`, a multiset of funded transactions for `Mempool`.

Theorems, in this order: `IndicesAccounted` and `PendingBounded` of `SyncQueue`; that `Blockchain` keeps its flags and
successors linked; that each step of it is a step of `Ledger` or a stutter; conservation of stake in
`StakingContract`; consistency of the indexes in `Mempool`; that an honest validator produces one block per slot in
`ViewChange`.

## What is not modelled

- Not yet: the parts in the plan, which `PROJECT.json` lists as `not_modelled` with the module planned for them.
- The verification of a single block, header or transaction: its result is a constant of the models. The same holds
  for signatures and hashes, which are ideal, and for slot selection, a function of the seed.
- Serialization, the account trie, the database, the network and its discovery, RPC, wallet, client, metrics and
  nano sync: input and output, data structures or algebra without protocol state of their own. Database transactions
  are taken as atomic.
- The content of accounts and history in `Blockchain`: they are the sequence of blocks applied. That applying and
  reverting a block really are inverse is a property of `StakingContract`, in the plan.
- The notifications of the chain: listeners run after a push, in an order between threads that belongs to the
  validator loop.
