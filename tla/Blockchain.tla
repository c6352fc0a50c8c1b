----------------------------- MODULE Blockchain -----------------------------
(***************************************************************************)
(* The chain of one node: `Blockchain` of the blockchain-albatross crate   *)
(* with its ChainStore, TransactionCache and accounts.  Blocks is the tree *)
(* of blocks that pass verify_block_header, verify_block_justification and *)
(* verify_block_body; they arrive in any order, any number of times.       *)
(*                                                                         *)
(* A push holds push_lock and writes one database transaction, so it is    *)
(* one step; a step that runs into a failed assertion, an expect or a      *)
(* failed load leaves the disk as it was and names the check in `fault`.   *)
(***************************************************************************)
EXTENDS Integers, Sequences, SequencesExt

CONSTANTS
  Blocks, Genesis, None,
  Parent, Number, View,   \* header fields, as functions on Blocks
  Txs,                    \* the transactions in the body of each block
  Uncommittable,          \* blocks that accounts.commit refuses
  WrongState,             \* blocks whose state root is not that of their chain
  HashRank,               \* the order of the hashes, in which LMDB keeps duplicates
  BATCH_LENGTH, EPOCH_LENGTH,
  WINDOW,                 \* TRANSACTION_VALIDITY_WINDOW
  HistorySync             \* whether the node takes part in history sync

ASSUME TreeAssumption ==
  /\ Genesis \in Blocks /\ None \notin Blocks
  /\ Number \in [Blocks -> Nat] /\ View \in [Blocks -> Nat]
  /\ Parent \in [Blocks \ {Genesis} -> Blocks]
  /\ Number[Genesis] = 0
  /\ \A b \in Blocks \ {Genesis} : Number[b] = Number[Parent[b]] + 1
ASSUME PolicyAssumption ==
  /\ BATCH_LENGTH \in Nat \ {0} /\ EPOCH_LENGTH \in Nat \ {0} /\ WINDOW \in Nat \ {0}
  /\ EPOCH_LENGTH % BATCH_LENGTH = 0
  /\ HistorySync \in BOOLEAN

\* policy.rs
IsMacro(b) == Number[b] % BATCH_LENGTH = 0
IsElection(b) == Number[b] % EPOCH_LENGTH = 0
LastMacroBlock(n) == (n \div BATCH_LENGTH) * BATCH_LENGTH
LastElectionBlock(n) == (n \div EPOCH_LENGTH) * EPOCH_LENGTH
EpochAt(n) == (n + EPOCH_LENGTH - 1) \div EPOCH_LENGTH

\* The view number the block after b starts from.
NextViewNumber(b) == IF IsMacro(b) THEN 0 ELSE View[b]

\* What verify_block_justification and verify_block_body guarantee of the tree, and
\* what the Agreement of Tendermint guarantees: one macro block at each height.
VerifiedBlocks ==
  /\ \A b \in Blocks \ {Genesis} : ~IsMacro(b) => View[b] >= NextViewNumber(Parent[b])
  /\ \A b, c \in Blocks : IsMacro(b) /\ Number[b] = Number[c] => b = c
  /\ \A b, c \in Blocks : Txs[b] \cap Txs[c] # {} => Number[b] < Number[c] + WINDOW
ASSUME VerifiedAssumption == VerifiedBlocks

\* The chain of a block, its member at a height, and parts of it.
Chain[b \in Blocks] == IF b = Genesis THEN {b} ELSE Chain[Parent[b]] \cup {b}
At(b, n) == CHOOSE x \in Chain[b] : Number[x] = n
After(a, b) == {x \in Chain[b] : Number[x] > Number[a]}
Segment(b, from, to) == [i \in 1 .. to - from + 1 |-> At(b, from + i - 1)]
ParentElection(b) == At(b, LastElectionBlock(Number[b] - 1))

VARIABLES
  known,         \* chain_db and block_db
  onMain, succ,  \* ChainInfo::on_main_chain, ChainInfo::main_chain_successor
  heightIdx,     \* height_idx, a set of <<height, block>>
  receipts,      \* receipt_db: the block whose receipts are stored at each height
  accounts,      \* the blocks committed to the accounts and the history tree
  head,          \* HEAD_KEY and BlockchainState::head_hash
  macroHead, electionHead, currentSlots, previousSlots,   \* BlockchainState
  cache,         \* TransactionCache::block_order
  forks,         \* the pairs of blocks reported as ForkEvent::Detected
  ignored,       \* blocks that got PushResult::Ignored
  fault          \* the check that failed, or "none"

disk == <<known, onMain, succ, heightIdx, receipts, accounts>>
memory == <<macroHead, electionHead, currentSlots, previousSlots, cache>>
vars == <<disk, head, memory, forks, ignored, fault>>

Heights == {Number[b] : b \in Blocks}

Init ==
  /\ known = {Genesis} /\ onMain = {Genesis}
  /\ succ = [b \in Blocks |-> None]
  /\ heightIdx = {<<0, Genesis>>}
  /\ receipts = [n \in Heights |-> None]
  /\ accounts = <<Genesis>>
  /\ head = Genesis /\ macroHead = Genesis /\ electionHead = Genesis
  /\ currentSlots = Genesis /\ previousSlots = None
  /\ cache = <<>>
  /\ forks = {} /\ ignored = {} /\ fault = "none"

Fail(what) == fault' = what /\ UNCHANGED <<disk, head, memory, ignored>>

-----------------------------------------------------------------------------
(* ChainStore.                                                             *)

\* get_chain_info_at reads the index in hash order and stops at the first entry
\* that is on the main chain or that has no ChainInfo.
Indexed(n) == {b \in Blocks : <<n, b>> \in heightIdx}
InHashOrder(S) == CHOOSE b \in S : \A c \in S : HashRank[b] <= HashRank[c]
GetBlockAt(n) ==
  LET stops == {b \in Indexed(n) : b \in onMain \/ b \notin known}
  IN  IF stops = {} THEN None ELSE InHashOrder(stops)
CanGetBlockAt(n) == GetBlockAt(n) \in known
GetFault(n, otherwise) == IF GetBlockAt(n) = None THEN otherwise ELSE "index"

\* get_blocks_at stops at the first entry that has no ChainInfo.
GetBlocksAt_OnlyMain(n) == Indexed(n) \cap onMain
GetBlocksAt(n) ==
  {b \in Indexed(n) : \A c \in Indexed(n) : HashRank[c] <= HashRank[b] => c \in known}

\* get_blocks_backward: the predecessors of b that are stored without a gap.
GetBlocksBackward(b, count) ==
  LET stored == {x \in Chain[b] \ {b} : \A y \in Chain[b] \ {b} : Number[y] >= Number[x] => y \in known}
      found == {x \in stored : Number[x] >= Number[b] - count}
  IN  Segment(b, Number[b] - Cardinality(found), Number[b] - 1)

-----------------------------------------------------------------------------
(* TransactionCache.                                                       *)

TransactionHashes(c) == UNION {Txs[c[i]] : i \in 1 .. Len(c)}
ContainsAny(c, b) == Txs[b] \cap TransactionHashes(c) # {}

PushBlock_ShiftsEarly(c, b) ==
  IF Len(c) + 1 >= WINDOW THEN Tail(Append(c, b)) ELSE Append(c, b)
PushBlock(c, b) ==
  IF Len(c) + 1 > WINDOW THEN Tail(Append(c, b)) ELSE Append(c, b)
PushBlockFits(c, b) == c # <<>> => c[Len(c)] = Parent[b]
MissingBlocks(c) == WINDOW - Len(c)
\* What the assertions after filling the cache up to block number n expect.
ExpectedMissing(n) == IF n + 1 < WINDOW THEN WINDOW - (n + 1) ELSE 0

-----------------------------------------------------------------------------
(* order_chains.                                                           *)

\* The first predecessor on the main chain, and the blocks after it.
Ancestor(b) == CHOOSE a \in Chain[Parent[b]] \cap onMain :
                 \A x \in Chain[Parent[b]] \cap onMain : Number[x] <= Number[a]
Branch(b) == After(Ancestor(b), b)

\* The first common height at which the view numbers differ or the main chain has
\* no block decides; without one the longer chain is better.
OrderChains_Longest(b) ==
  IF Parent[b] = head THEN "Extend"
  ELSE IF Number[head] < Number[b] THEN "Better" ELSE "Unknown"
OrderChains_LongestFirst(b) ==
  CASE Parent[b] = head -> "Extend"
    [] Parent[b] # head /\ Number[head] < Number[b] -> "Better"
    [] Parent[b] # head /\ Number[head] >= Number[b] ->
         CASE View[head] < View[b] -> "Better"
           [] View[head] > View[b] -> "Inferior"
           [] OTHER -> "Unknown"
OrderChains(b) ==
  LET common == Number[Ancestor(b)] + 1 .. Min({Number[head], Number[b]})
      decides == {n \in common : ~CanGetBlockAt(n) \/ View[GetBlockAt(n)] # View[At(b, n)]}
      n == Min(decides)
  IN  CASE Parent[b] = head -> "Extend"
        [] Parent[b] # head /\ decides = {} ->
             IF Number[head] < Number[b] THEN "Better" ELSE "Unknown"
        [] Parent[b] # head /\ decides # {} ->
             CASE ~CanGetBlockAt(n) -> "Fail"
               [] View[GetBlockAt(n)] < View[At(b, n)] -> "Better"
               [] OTHER -> "Inferior"

\* The assertion and the expects of the walk back to the main chain, and the
\* expect of the comparison.
OrderFault(b) ==
  LET walk == Branch(b) \ {b} IN
  IF Parent[b] = head THEN "none"
  ELSE IF \E x \in walk : x \notin known THEN "fork predecessor"
  ELSE IF \E x \in walk : IsMacro(x) THEN "macro block on a fork"
  ELSE IF OrderChains(b) # "Fail" THEN "none"
  ELSE GetFault(Min({n \in Number[Ancestor(b)] + 1 .. Number[b] : ~CanGetBlockAt(n)}),
                "main chain equivalent")

\* get_slot_owner_at has the slots of block number n in memory, except for those of
\* the epoch after an election block and of epochs further away.
FromCurrentSlots(n) == EpochAt(Number[head]) = EpochAt(n) /\ ~IsElection(head)
FromPreviousSlots(n) ==
  \/ EpochAt(Number[head]) = EpochAt(n) /\ IsElection(head)
  \/ EpochAt(Number[head]) = EpochAt(n) + 1 /\ ~IsElection(head)

\* It then wants the election block for its slots, and in any case the preceding macro
\* block for its disabled slots and the preceding block for its seed, all three from
\* the main chain.
SlotOwnerFault(b) ==
  LET n == Number[b]
      inMemory == FromCurrentSlots(n) \/ FromPreviousSlots(n)
      wanted == {n - 1, LastMacroBlock(n - 1)}
                  \cup (IF inMemory THEN {} ELSE {LastElectionBlock(n - 1)})
      missing == {k \in wanted : ~CanGetBlockAt(k)}
  IN  IF FromPreviousSlots(n) /\ previousSlots = None THEN "missing slots"
      ELSE IF missing = {} THEN "none" ELSE GetFault(Min(missing), "can't fetch block")

-----------------------------------------------------------------------------
(* extend and rebranch.                                                    *)

\* commit_accounts for one block: macro blocks clear the receipts.
CommitReceipts_NotStored(r, b) ==
  IF IsMacro(b) THEN [n \in Heights |-> None] ELSE r
CommitReceipts(r, b) ==
  IF IsMacro(b) THEN [n \in Heights |-> None] ELSE [r EXCEPT ![Number[b]] = b]

PutChainInfo_NotStored(b) == /\ known' = known
                             /\ heightIdx' = heightIdx \cup {<<Number[b], b>>}
PutChainInfo(b) == /\ known' = known \cup {b}
                   /\ heightIdx' = heightIdx \cup {<<Number[b], b>>}

CommitFails_NoStateCheck(b) == b \in Uncommittable
CommitFails(b) == b \in Uncommittable \/ b \in WrongState

Extend(b) ==
  LET refused == ContainsAny(cache, b) \/ CommitFails(b) IN
  \/ refused /\ UNCHANGED <<disk, head, memory, ignored, fault>>
  \/ ~refused /\ ~PushBlockFits(cache, b) /\ Fail("transaction cache order")
  \/ /\ ~refused /\ PushBlockFits(cache, b)
     /\ PutChainInfo(b)
     /\ onMain' = onMain \cup {b}
     /\ succ' = [succ EXCEPT ![Parent[b]] = b]
     /\ receipts' = CommitReceipts(receipts, b)
     /\ accounts' = Append(accounts, b)
     /\ head' = b
     /\ cache' = PushBlock(cache, b)
     /\ macroHead' = IF IsMacro(b) THEN b ELSE macroHead
     /\ IF IsElection(b)
          THEN electionHead' = b /\ previousSlots' = currentSlots /\ currentSlots' = b
          ELSE UNCHANGED <<electionHead, previousSlots, currentSlots>>
     /\ UNCHANGED <<ignored, fault>>

\* revert_accounts takes whatever receipts are stored at the height; those of another
\* block do not give back the accounts of the predecessor.  It is given view_number()
\* of the predecessor where commit_accounts was given next_view_number(): the slash
\* inherents must still be the same ones.
RevertFault(b) ==
  IF b \in WrongState \/ Parent[b] \in WrongState \/ accounts[Len(accounts)] # head
    THEN "inconsistent state"
  ELSE IF receipts[Number[b]] = None THEN "missing receipts"
  ELSE IF \/ receipts[Number[b]] # b
          \/ NextViewNumber(Parent[b]) .. View[b] - 1 # View[Parent[b]] .. View[b] - 1
    THEN "inconsistent state"
  ELSE "none"

\* cache_txn once the blocks after the ancestor are reverted and the missing ones
\* are fetched, and the assertions on the way.
RevertedCache(anc) ==
  SubSeq(cache, 1, Len(cache) - Min({Len(cache), Number[head] - Number[anc]}))
FilledCache_NotFetched(anc) == RevertedCache(anc)
FilledCache(anc) ==
  LET c == RevertedCache(anc)
      start == IF c = <<>> THEN succ[anc] ELSE c[1]
  IN  GetBlocksBackward(start, MissingBlocks(c)) \o c
CacheFault(anc) ==
  LET c == RevertedCache(anc) IN
  IF \/ \E i \in Len(c) + 1 .. Len(cache) : cache[i] # At(head, Number[head] - Len(cache) + i)
     \/ c # <<>> /\ c[Len(c)] # anc
    THEN "transaction cache order"
  ELSE IF MissingBlocks(FilledCache(anc)) # ExpectedMissing(Number[anc])
    THEN "transaction cache length"
  ELSE "none"

\* The cache before each block of the fork is checked and committed.
ForkCaches_NotPushed(anc, b) ==
  [i \in 1 .. Number[b] - Number[anc] + 1 |-> FilledCache(anc)]
ForkCaches(anc, b) ==
  LET fork == Segment(b, Number[anc] + 1, Number[b])
      c[i \in 1 .. Len(fork) + 1] ==
        IF i = 1 THEN FilledCache(anc) ELSE PushBlock(c[i - 1], fork[i - 1])
  IN  c

\* Deletes the first bad block and all after it, each from the height of the first.
RemoveInvalidFork(fork, bad) ==
  LET removed == {fork[i] : i \in bad .. Len(fork)} IN
  /\ known' = known \ removed
  /\ heightIdx' = heightIdx \ {<<Number[fork[bad]], b>> : b \in removed}
  /\ UNCHANGED <<onMain, succ, receipts, accounts, head, memory, ignored, fault>>

\* main_chain_successor after a rebranch.
Successors_KeepsReverted(anc, fork, reverted) ==
  [x \in Blocks |->
     CASE x = anc -> fork[1]
       [] \E i \in 1 .. Len(fork) - 1 : x = fork[i] -> At(fork[Len(fork)], Number[x] + 1)
       [] OTHER -> succ[x]]
Successors(anc, fork, reverted) ==
  [x \in Blocks |->
     CASE x = anc -> fork[1]
       [] \E i \in 1 .. Len(fork) - 1 : x = fork[i] -> At(fork[Len(fork)], Number[x] + 1)
       [] x \in reverted \cup {fork[Len(fork)]} -> None
       [] OTHER -> succ[x]]

\* Flips the flags of both branches and moves the head; the macro state stays.
Adopt(anc, fork, reverted, newCache) ==
  LET b == fork[Len(fork)] IN
  /\ PutChainInfo(b)
  /\ onMain' = (onMain \ reverted) \cup {fork[i] : i \in 1 .. Len(fork)}
  /\ succ' = Successors(anc, fork, reverted)
  /\ receipts' = FoldLeft(CommitReceipts, receipts, fork)
  /\ accounts' = SubSeq(accounts, 1, Len(accounts) - Cardinality(reverted)) \o fork
  /\ head' = b
  /\ cache' = newCache
  /\ UNCHANGED <<macroHead, electionHead, currentSlots, previousSlots, ignored, fault>>

\* "Check if ancestor is in current epoch": its number against the last macro block.
InFinalizedEpoch(anc) == Number[anc] < Number[macroHead]

Rebranch(b) ==
  LET anc == Ancestor(b)
      fork == Segment(b, Number[anc] + 1, Number[b])
      reverted == After(anc, head)
      faults == ({RevertFault(x) : x \in reverted} \cup {CacheFault(anc)}) \ {"none"}
      caches == ForkCaches(anc, b)
      bad == {i \in 1 .. Len(fork) : ContainsAny(caches[i], fork[i]) \/ fork[i] \in Uncommittable}
  IN
  \/ /\ \E i \in 1 .. Len(fork) : IsMacro(fork[i])
     /\ Fail("macro block on a fork")
  \/ /\ \A i \in 1 .. Len(fork) : ~IsMacro(fork[i])
     /\ \/ /\ InFinalizedEpoch(anc)
           /\ UNCHANGED <<disk, head, memory, ignored, fault>>
        \/ /\ ~InFinalizedEpoch(anc)
           /\ \/ \E what \in faults : Fail(what)
              \/ faults = {} /\ bad # {} /\ RemoveInvalidFork(fork, Min(bad))
              \/ faults = {} /\ bad = {} /\ Adopt(anc, fork, reverted, caches[Len(fork) + 1])

-----------------------------------------------------------------------------
(* push, push_history_sync and load.                                       *)

StoreFork(b) ==
  /\ PutChainInfo(b)
  /\ UNCHANGED <<onMain, succ, receipts, accounts, head, memory, ignored, fault>>

\* Known blocks, orphans and macro blocks of another epoch change nothing.
Push(b) ==
  /\ fault = "none"
  /\ b \notin known /\ Parent[b] \in known
  /\ \/ /\ OrderFault(b) # "none"
        /\ Fail(OrderFault(b)) /\ UNCHANGED forks
     \/ /\ OrderFault(b) = "none" /\ OrderChains(b) = "Inferior"
        /\ ignored' = ignored \cup {b}
        /\ UNCHANGED <<disk, head, memory, forks, fault>>
     \/ /\ OrderFault(b) = "none" /\ OrderChains(b) # "Inferior"
        /\ \/ /\ SlotOwnerFault(b) # "none"
              /\ Fail(SlotOwnerFault(b)) /\ UNCHANGED forks
           \/ /\ SlotOwnerFault(b) = "none"
              /\ IsMacro(b) => ParentElection(b) = electionHead
              /\ forks' = IF IsMacro(b) THEN forks
                          ELSE forks \cup {{x, b} : x \in {y \in GetBlocksAt(Number[b]) : View[y] = View[b]}}
              /\ \/ OrderChains(b) = "Extend" /\ Extend(b)
                 \/ OrderChains(b) = "Better" /\ Rebranch(b)
                 \/ OrderChains(b) = "Unknown" /\ StoreFork(b)

\* The head is the last election block of b, or an earlier macro block of its epoch.
IsSuccessor_AfterElection(b) ==
  IF IsElection(head) THEN TRUE
  ELSE ParentElection(b) = ParentElection(head) /\ Number[b] > Number[head]
IsSuccessor(b) ==
  IF IsElection(head) THEN ParentElection(b) = head
  ELSE ParentElection(b) = ParentElection(head) /\ Number[b] > Number[head]

\* The head becomes the stored predecessor of b, although blocks in between are missing.
SyncSuccessors_Missing(b) == succ
SyncSuccessors(b) == [succ EXCEPT ![head] = b]

\* The part of the history of b's epoch that is not in the accounts yet.
NewHistory(b) == Segment(b, Number[head] + 1, Number[b])

\* push_history_sync and extend_history_sync, with the history that belongs to b.  One
\* that the accounts refuse is aborted and changes nothing.
PushHistorySync(b) ==
  /\ HistorySync /\ fault = "none"
  /\ IsMacro(b) /\ b \notin known
  /\ \/ ~IsMacro(head) /\ Fail("head is a micro block")
     \/ /\ IsMacro(head)
        /\ IsSuccessor(b)
        /\ Range(NewHistory(b)) \cap Uncommittable = {}
        /\ PutChainInfo(b)
        /\ onMain' = onMain \cup {b}
        /\ succ' = SyncSuccessors(b)
        /\ receipts' = [n \in Heights |-> None]
        /\ accounts' = accounts \o NewHistory(b)
        /\ head' = b /\ macroHead' = b
        /\ IF IsElection(b)
             THEN electionHead' = b /\ previousSlots' = currentSlots /\ currentSlots' = b
             ELSE UNCHANGED <<electionHead, previousSlots, currentSlots>>
        /\ UNCHANGED <<cache, ignored, fault>>
  /\ UNCHANGED forks

\* The process starts again, after a crash or a failed check: Blockchain::load.
LoadedCache == GetBlocksBackward(head, WINDOW - 1) \o <<head>>
LoadFault ==
  LET wanted == {LastMacroBlock(Number[head]), LastElectionBlock(Number[head])} IN
  IF head \in WrongState \/ accounts[Len(accounts)] # head THEN "load: inconsistent state"
  ELSE IF \E n \in wanted : ~CanGetBlockAt(n) THEN "load: main chain"
  ELSE IF MissingBlocks(LoadedCache) # ExpectedMissing(Number[head])
    THEN "load: transaction cache length"
  ELSE "none"

Load ==
  /\ fault \notin {"load: inconsistent state", "load: main chain", "load: transaction cache length"}
  /\ \/ LoadFault # "none" /\ Fail(LoadFault)
     \/ /\ LoadFault = "none"
        /\ fault' = "none"
        /\ cache' = LoadedCache
        /\ macroHead' = GetBlockAt(LastMacroBlock(Number[head]))
        /\ electionHead' = GetBlockAt(LastElectionBlock(Number[head]))
        /\ currentSlots' = electionHead'
        /\ previousSlots' = IF electionHead' = Genesis THEN None ELSE ParentElection(electionHead')
        /\ UNCHANGED <<disk, head, ignored>>
  /\ UNCHANGED forks

Next ==
  \/ \E b \in Blocks \ {Genesis} : Push(b) \/ PushHistorySync(b)
  \/ Load

Spec == Init /\ [][Next]_vars

-----------------------------------------------------------------------------
(* Properties.                                                             *)

\* Every field of the store and of BlockchainState has its type.
TypeOK ==
  /\ known \subseteq Blocks /\ onMain \subseteq known
  /\ succ \in [Blocks -> Blocks \cup {None}]
  /\ heightIdx \subseteq Heights \X Blocks
  /\ receipts \in [Heights -> Blocks \cup {None}]
  /\ accounts \in Seq(Blocks) /\ cache \in Seq(Blocks)
  /\ {head, macroHead, electionHead, currentSlots} \subseteq Blocks
  /\ previousSlots \in Blocks \cup {None}
  /\ ignored \subseteq Blocks

\* The flags and successors that extend, rebranch and history sync maintain describe
\* one chain that ends in the head: walking forward from any block on the main chain
\* visits every later block of the main chain, and no other block has a successor.
MainChainLinked ==
  /\ onMain \subseteq Chain[head] /\ head \in onMain
  /\ \A b \in Blocks :
       IF b \in onMain \ {head}
         THEN /\ succ[b] \in onMain
              /\ {x \in onMain : Number[b] < Number[x] /\ Number[x] < Number[succ[b]]} = {}
         ELSE succ[b] = None

\* "Check that chain/accounts state is consistent." (load): every block of the main
\* chain has been committed with the state root its header has, "Verify the state
\* against the block." (extend), so a restart finds the accounts its head names.
StateRootsMatch == onMain \cap WrongState = {}

\* The accounts are those of the head's chain, with the state roots of its blocks,
\* whatever was reverted and committed on the way, and the receipts needed to revert to
\* the last macro block are there.
AccountsMatchHead ==
  /\ accounts = Segment(head, 0, Number[head])
  /\ StateRootsMatch
  /\ \A b \in onMain : Number[b] > Number[macroHead] => receipts[Number[b]] = b

\* No transaction is twice on the main chain: the transaction cache still covers the
\* validity window after shifts, rebranches and restarts.
TransactionsOnce ==
  \A b, c \in Chain[head] : Txs[b] \cap Txs[c] # {} => b = c

\* Two stored micro blocks of one height and view number have been reported as a
\* fork, in whatever order and on whatever branch they arrived.
ForksReported ==
  \A b, c \in known :
    b # c /\ Number[b] = Number[c] /\ View[b] = View[c] => {b, c} \in forks

\* "If it is an inferior chain, we ignore it as it cannot become better at any
\* point in time" (push).
InferiorForever == \A b \in ignored : Parent[b] \in known => OrderChains(b) = "Inferior"

\* push finds the slot owner of a block from the seed of the main chain block before
\* it; a seed is made of its predecessors' view numbers, so the view numbers of both
\* chains have to be the same up to there.
SlotOwnerOfBranch ==
  fault = "none" =>
    \A b \in Blocks \ (known \cup {Genesis}) :
      (/\ Parent[b] \in known /\ OrderFault(b) = "none" /\ SlotOwnerFault(b) = "none"
       /\ OrderChains(b) # "Inferior")
      => \A n \in 1 .. Number[b] - 1 : View[At(b, n)] = View[At(head, n)]

\* A restart succeeds, at any time and after any failed check, and brings back what the
\* pushes had built up in memory; only the genesis block, which init leaves out of the
\* cache, may be added to it.
Recovers ==
  Load =>
    /\ fault' = "none"
    /\ UNCHANGED <<macroHead, electionHead, currentSlots, previousSlots>>
    /\ SelectSeq(cache', LAMBDA b : b # Genesis) = SelectSeq(cache, LAMBDA b : b # Genesis)
LoadRecovers == [][Recovers]_vars

\* Of all the assertions and expects that push and load can run into, on blocks of any
\* branch in any order, one fails: that of rebranch against a macro block on a fork.
\* (Macro blocks of a higher view number and invalid forks of several blocks set aside.)
\* The receipts, the transaction cache, the index and the slots never fail theirs.
OtherChecksHold == fault \in {"none", "macro block on a fork"}

\* "assert_eq!(transaction_cache.missing_blocks(), TRANSACTION_VALIDITY_WINDOW..." (load):
\* a node that stops finds on its disk the blocks that the transaction cache is filled
\* from, and starts again.
CacheLoads == fault # "load: transaction cache length"

\* Reverting a block gives the accounts of its predecessor, "Failed to revert main
\* chain while rebranching - inconsistent state" (rebranch).
RevertsToPredecessor == fault # "inconsistent state"

=============================================================================
