----------------------------- MODULE Tendermint -----------------------------
(***************************************************************************)
(* The Tendermint state machine of the `tendermint` crate, run by every    *)
(* honest validator for one macro block height, on top of what the crate   *)
(* asks of `TendermintOutsideDeps` and of what `TendermintInterface` in    *)
(* the `validator` crate implements.                                       *)
(*                                                                         *)
(* Every validator owns one slot.  An action runs from one suspension in a *)
(* call to the dependencies to the next: the answer selects a checkpoint,  *)
(* and poll_macro, which polls the stream until it is pending, runs the    *)
(* handler of that checkpoint in the same poll.  A slot in Faulty may vote *)
(* for anything at any time and may show a different proposal to everyone. *)
(***************************************************************************)
EXTENDS Integers, FiniteSets

CONSTANTS
  Slots,       \* the validator slots
  Faulty,      \* the slots of validators that need not follow the protocol
  Values,      \* the macro headers that verify at this height
  None,        \* Option::None for a proposal, and the nil vote
  BodyOf,      \* the macro body each header commits to
  SeedOf,      \* the slot whose key signed the seed of each header
  Owner,       \* the slot that get_slot_owner_at returns, by view number
  HeadView,    \* the view number of the head of the chain
  MaxRound,    \* bound on the rounds explored
  Unreliable   \* the slots at which a call to the dependencies may return an error

Honest == Slots \ Faulty
Rounds == 0 .. MaxRound
NoRound == -1

ASSUME SlotsAssumption == IsFiniteSet(Slots) /\ Faulty \subseteq Slots
ASSUME FaultyAssumption == 3 * Cardinality(Faulty) < Cardinality(Slots)
ASSUME ValuesAssumption == None \notin Values
ASSUME SeedAssumption == SeedOf \in [Values -> Slots]
ASSUME RoundAssumption == MaxRound \in Nat /\ HeadView \in Nat
ASSUME OwnerAssumption == Owner \in [0 .. MaxRound + HeadView -> Slots]
ASSUME UnreliableAssumption == Unreliable \subseteq Slots

\* policy.rs: ceil(2 * SLOTS / 3), as (2 * SLOTS + 3 - 1) / 3.
SLOTS == Cardinality(Slots)
TWO_THIRD_SLOTS_RoundedDown == (2 * SLOTS) \div 3
TWO_THIRD_SLOTS == (2 * SLOTS + 2) \div 3

Awaits == {"AwaitProposal", "AwaitPrevotes", "AwaitPrecommits"}

VARIABLES
  pc,           \* what the validator's task is suspended in, which fixes its step
  round, lockedValue, lockedRound, validValue, validRound,
  proposal, proposalVr,   \* current_proposal, current_proposal_vr
  cacheBody,    \* TendermintInterface::cache_body
  decision,     \* the header of the block yielded as TendermintReturn::Result
  aggregations, \* the rounds this validator aggregates prevotes of
  proposals, prevotes, precommits   \* what honest validators have broadcast

votes == <<prevotes, precommits>>
locks == <<lockedValue, lockedRound, validValue, validRound>>
current == <<proposal, proposalVr, cacheBody>>
network == <<aggregations, proposals, votes>>
vars == <<pc, round, locks, current, decision, network>>

Vote == [slot : Honest, round : Rounds, value : Values \cup {None}]
Proposal == [from : Slots, value : Values, vr : Rounds \cup {NoRound}]

Init ==
  /\ pc = [s \in Honest |-> "StartRound"]
  /\ round = [s \in Honest |-> 0]
  /\ lockedValue = [s \in Honest |-> None]
  /\ lockedRound = [s \in Honest |-> NoRound]
  /\ validValue = [s \in Honest |-> None]
  /\ validRound = [s \in Honest |-> NoRound]
  /\ proposal = [s \in Honest |-> None]
  /\ proposalVr = [s \in Honest |-> NoRound]
  /\ cacheBody = [s \in Honest |-> None]
  /\ decision = [s \in Honest |-> None]
  /\ aggregations = [s \in Honest |-> {}]
  /\ proposals = {}
  /\ prevotes = {}
  /\ precommits = {}

-----------------------------------------------------------------------------
(* What an aggregation can contain.                                        *)

Voters(vs, r, x) ==
  {s \in Honest : [slot |-> s, round |-> r, value |-> x] \in vs} \cup Faulty

\* x.1 >= TWO_THIRD_SLOTS in aggregation_to_vote and has_2f1_votes.
Has2f1Votes(vs, r, x) == Cardinality(Voters(vs, r, x)) >= TWO_THIRD_SLOTS

\* The contributors that messages for a later round name, prevotes and precommits
\* alike.  They are counted without a check of the signatures, so that a single faulty
\* validator can name every slot.
Contributors(r) ==
  IF Faulty # {} THEN Slots
  ELSE {s \in Honest : \E v \in prevotes \cup precommits : v.slot = s /\ v.round = r}

\* More than f slots make the aggregation report the round.
NewRoundReported(r) == Cardinality(Contributors(r)) > SLOTS - TWO_THIRD_SLOTS

\* is_our_turn and await_proposal do not ask for the same view number.
IsOurTurn(s, r) == Owner[r] = s
AwaitedProposer(r) == Owner[HeadView + r]

\* Proposals do not name a round: await_proposal takes any message signed by the
\* proposer it waits for, and then wants the seed of the header signed by it too.
Sent(r) == {p \in proposals : p.from = AwaitedProposer(r)}
             \cup (IF AwaitedProposer(r) \in Faulty
                     THEN [from : {AwaitedProposer(r)}, value : Values, vr : Rounds \cup {NoRound}]
                     ELSE {})
Acceptable(r) == {p \in Sent(r) : SeedOf[p.value] = AwaitedProposer(r)}

-----------------------------------------------------------------------------
(* protocol.rs: what each handler does once its checkpoint is reached.  The *)
(* handlers' assertions on the step are the value of pc they start from.    *)

BroadcastAndAggregatePrevote(s, x) ==
  /\ prevotes' = prevotes \cup {[slot |-> s, round |-> round[s], value |-> x]}
  /\ aggregations' = [aggregations EXCEPT ![s] = @ \cup {round[s]}]
  /\ pc' = [pc EXCEPT ![s] = "AwaitPrevotes"]
  /\ UNCHANGED precommits

BroadcastAndAggregatePrecommit(s, x) ==
  /\ precommits' = precommits \cup {[slot |-> s, round |-> round[s], value |-> x]}
  /\ pc' = [pc EXCEPT ![s] = "AwaitPrecommits"]
  /\ UNCHANGED <<aggregations, prevotes>>

\* The prevote for a proposal without, and with, a valid round (unwrap_or(0)).
OnProposalVote_IgnoresLock(s, x) == x
OnProposalVote(s, x) ==
  IF lockedRound[s] = NoRound \/ lockedValue[s] = x THEN x ELSE None

OnPastProposalVote_IgnoresLock(s, x, vr) == x
OnPastProposalVote(s, x, vr) ==
  IF (IF lockedRound[s] = NoRound THEN 0 ELSE lockedRound[s]) <= vr \/ lockedValue[s] = x
    THEN x ELSE None

OnProposal(s, x) ==
  /\ proposal' = [proposal EXCEPT ![s] = x]
  /\ UNCHANGED proposalVr
  /\ BroadcastAndAggregatePrevote(s, OnProposalVote(s, x))

OnPastProposal(s, x, vr) ==
  /\ proposal' = [proposal EXCEPT ![s] = x]
  /\ proposalVr' = [proposalVr EXCEPT ![s] = vr]
  /\ BroadcastAndAggregatePrevote(s, OnPastProposalVote(s, x, vr))

OnTimeoutPropose(s) ==
  /\ UNCHANGED <<proposal, proposalVr>>
  /\ BroadcastAndAggregatePrevote(s, None)

OnPolka_KeepsLock(s) ==
  /\ validValue' = [validValue EXCEPT ![s] = proposal[s]]
  /\ validRound' = [validRound EXCEPT ![s] = round[s]]
  /\ UNCHANGED <<lockedValue, lockedRound>>
  /\ BroadcastAndAggregatePrecommit(s, proposal[s])
OnPolka(s) ==
  /\ validValue' = [validValue EXCEPT ![s] = proposal[s]]
  /\ validRound' = [validRound EXCEPT ![s] = round[s]]
  /\ lockedValue' = [lockedValue EXCEPT ![s] = proposal[s]]
  /\ lockedRound' = [lockedRound EXCEPT ![s] = round[s]]
  /\ BroadcastAndAggregatePrecommit(s, proposal[s])

\* on_nil_polka, and on_timeout_prevote, which does the same.
OnNilPolka(s) ==
  /\ UNCHANGED locks
  /\ BroadcastAndAggregatePrecommit(s, None)

\* assemble_block refuses to use the cached body of another header.
OnDecision(s) ==
  /\ UNCHANGED <<round, votes, aggregations>>
  /\ IF cacheBody[s] = BodyOf[proposal[s]]
       THEN /\ decision' = [decision EXCEPT ![s] = proposal[s]]
            /\ pc' = [pc EXCEPT ![s] = "Done"]
       ELSE /\ decision' = decision
            /\ pc' = [pc EXCEPT ![s] = "Error"]

\* A later round begins: on_timeout_precommit, and VoteResult::NewRound.
EnterRound(s, r) ==
  /\ round' = [round EXCEPT ![s] = r]
  /\ pc' = [pc EXCEPT ![s] = "StartRound"]
  /\ UNCHANGED <<votes, aggregations, decision>>

-----------------------------------------------------------------------------
(* The steps of a validator: start_round, and the answers of network.rs     *)
(* followed by the handler they select.                                     *)

\* What start_round proposes: the valid value, or else a new one from get_value.
ProposedValues(s) ==
  IF validValue[s] = None THEN {x \in Values : SeedOf[x] = s} ELSE {validValue[s]}

\* start_round when it is our turn.
StartRoundPropose(s) ==
  /\ pc[s] = "StartRound"
  /\ IsOurTurn(s, round[s])
  /\ \E x \in ProposedValues(s) :
       /\ proposal' = [proposal EXCEPT ![s] = x]
       /\ cacheBody' = [cacheBody EXCEPT ![s] = IF validValue[s] = None THEN BodyOf[x] ELSE @]
       /\ proposals' = proposals \cup {[from |-> s, value |-> x, vr |-> validRound[s]]}
       /\ BroadcastAndAggregatePrevote(s, x)
  /\ proposalVr' = [proposalVr EXCEPT ![s] = validRound[s]]
  /\ UNCHANGED <<round, locks, decision>>

\* start_round when it is not our turn.
StartRoundWait(s) ==
  /\ pc[s] = "StartRound"
  /\ ~IsOurTurn(s, round[s])
  /\ proposal' = [proposal EXCEPT ![s] = None]
  /\ proposalVr' = [proposalVr EXCEPT ![s] = NoRound]
  /\ pc' = [pc EXCEPT ![s] = "AwaitProposal"]
  /\ UNCHANGED <<round, locks, cacheBody, decision, network>>

\* get_aggregate has a result of the prevotes of a round for certain when they were
\* answered, which led to a precommit.
Answered(s, r) ==
  r \in aggregations[s] /\ \E u \in precommits : u.slot = s /\ u.round = r

\* A proposal with a valid round is taken when the aggregation of that round
\* shows 2f+1 prevotes for it.  The aggregation may still miss votes, and it
\* is an error to ask for one that has no result yet or was never started.
AwaitProposal(s) ==
  /\ pc[s] = "AwaitProposal"
  /\ \E p \in Acceptable(round[s]) :
       /\ cacheBody' = [cacheBody EXCEPT ![s] = BodyOf[p.value]]
       /\ \/ /\ p.vr = NoRound
             /\ OnProposal(s, p.value)
          \/ /\ p.vr # NoRound /\ p.vr < round[s]
             /\ p.vr \in aggregations[s]
             /\ Has2f1Votes(prevotes, p.vr, p.value)
             /\ OnPastProposal(s, p.value, p.vr)
          \/ /\ p.vr # NoRound
             /\ p.vr < round[s] => p.vr \in aggregations[s]
             /\ OnTimeoutPropose(s)
          \/ /\ p.vr # NoRound /\ p.vr < round[s]
             /\ ~Answered(s, p.vr)
             /\ pc' = [pc EXCEPT ![s] = "Error"]
             /\ UNCHANGED <<proposal, proposalVr, aggregations, votes>>
  /\ UNCHANGED <<round, locks, decision, proposals>>

\* The timeout, and a first message whose header does not verify.
AwaitProposalTimeout(s) ==
  /\ pc[s] = "AwaitProposal"
  /\ OnTimeoutPropose(s)
  /\ UNCHANGED <<round, locks, cacheBody, decision, proposals>>

\* aggregation_to_vote on the prevotes: Block; Nil and Timeout lead to the same
\* precommit, and the aggregation returned may miss votes.
AwaitPrevotes_AnyVotes(s) ==
  /\ pc[s] = "AwaitPrevotes"
  /\ (proposal[s] # None /\ OnPolka(s)) \/ OnNilPolka(s)
  /\ UNCHANGED <<round, current, decision, proposals>>
AwaitPrevotes(s) ==
  /\ pc[s] = "AwaitPrevotes"
  /\ \/ proposal[s] # None /\ Has2f1Votes(prevotes, round[s], proposal[s]) /\ OnPolka(s)
     \/ OnNilPolka(s)
  /\ UNCHANGED <<round, current, decision, proposals>>

\* aggregation_to_vote on the precommits: Block; Nil is treated as Timeout.
AwaitPrecommits_CountsPrevotes(s) ==
  /\ pc[s] = "AwaitPrecommits"
  /\ \/ proposal[s] # None /\ Has2f1Votes(prevotes, round[s], proposal[s]) /\ OnDecision(s)
     \/ round[s] < MaxRound /\ EnterRound(s, round[s] + 1)
  /\ UNCHANGED <<locks, current, proposals>>
AwaitPrecommits(s) ==
  /\ pc[s] = "AwaitPrecommits"
  /\ \/ proposal[s] # None /\ Has2f1Votes(precommits, round[s], proposal[s]) /\ OnDecision(s)
     \/ round[s] < MaxRound /\ EnterRound(s, round[s] + 1)
  /\ UNCHANGED <<locks, current, proposals>>

\* AggregationResult::NewRound, for a round later than the one of the request.
NewRound_SameRound(s) ==
  /\ pc[s] \in {"AwaitPrevotes", "AwaitPrecommits"}
  /\ \E r \in Rounds : r >= round[s] /\ NewRoundReported(r) /\ EnterRound(s, r)
  /\ UNCHANGED <<locks, current, proposals>>
NewRound_AnyRound(s) ==
  /\ pc[s] \in {"AwaitPrevotes", "AwaitPrecommits"}
  /\ \E r \in Rounds : NewRoundReported(r) /\ EnterRound(s, r)
  /\ UNCHANGED <<locks, current, proposals>>
NewRound_RoundAfter(s) ==
  /\ pc[s] \in {"AwaitPrevotes", "AwaitPrecommits"}
  /\ \E r \in Rounds : r > round[s] /\ NewRoundReported(r) /\ EnterRound(s, r + 1)
  /\ UNCHANGED <<locks, current, proposals>>
NewRound(s) ==
  /\ pc[s] \in {"AwaitPrevotes", "AwaitPrecommits"}
  /\ \E r \in Rounds : r > round[s] /\ NewRoundReported(r) /\ EnterRound(s, r)
  /\ UNCHANGED <<locks, current, proposals>>

\* Any call to the dependencies may fail, get_value and propose_value of a proposer
\* included; expect_block yields the error and ends.
DepsFail(s) ==
  /\ s \in Unreliable
  /\ pc[s] \in Awaits \/ (pc[s] = "StartRound" /\ IsOurTurn(s, round[s]))
  /\ pc' = [pc EXCEPT ![s] = "Error"]
  /\ UNCHANGED <<round, locks, current, decision, network>>

Step(s) ==
  \/ StartRoundPropose(s) \/ StartRoundWait(s)
  \/ AwaitProposal(s) \/ AwaitProposalTimeout(s)
  \/ AwaitPrevotes(s) \/ AwaitPrecommits(s) \/ NewRound(s) \/ DepsFail(s)

Next == \E s \in Honest : Step(s)

Spec == Init /\ [][Next]_vars

-----------------------------------------------------------------------------
(* Properties.                                                             *)

\* Every field of TendermintState, and every message, has its type.
TypeOK ==
  /\ pc \in [Honest -> Awaits \cup {"StartRound", "Done", "Error"}]
  /\ round \in [Honest -> Rounds]
  /\ lockedValue \in [Honest -> Values \cup {None}]
  /\ lockedRound \in [Honest -> Rounds \cup {NoRound}]
  /\ validValue \in [Honest -> Values \cup {None}]
  /\ validRound \in [Honest -> Rounds \cup {NoRound}]
  /\ proposal \in [Honest -> Values \cup {None}]
  /\ proposalVr \in [Honest -> Rounds \cup {NoRound}]
  /\ decision \in [Honest -> Values \cup {None}]
  /\ aggregations \in [Honest -> SUBSET Rounds]
  /\ proposals \subseteq Proposal
  /\ prevotes \subseteq Vote
  /\ precommits \subseteq Vote

Polka(r, x) == Has2f1Votes(prevotes, r, x)
Certificate(r, x) == Has2f1Votes(precommits, r, x)

\* Where a validator has not voted in its round yet.
BeforePrevote == {"StartRound", "AwaitProposal"}
BeforePrecommit == BeforePrevote \cup {"AwaitPrevotes"}

\* A block is handed out only on 2f+1 precommits for its header.
DecisionsJustified ==
  \A s \in Honest : decision[s] # None => \E r \in Rounds : Certificate(r, decision[s])

\* An honest validator votes at most once in a round and step, and only in
\* rounds it has reached: no path through the handlers votes twice.
VotesOnce(vs, Before) ==
  /\ \A u, t \in vs : u.slot = t.slot /\ u.round = t.round => u = t
  /\ \A u \in vs : /\ u.round <= round[u.slot]
                   /\ pc[u.slot] \in Before => u.round < round[u.slot]
NoEquivocation == VotesOnce(prevotes, BeforePrevote) /\ VotesOnce(precommits, BeforePrecommit)

\* A validator precommits a header only in a round with 2f+1 prevotes for it.
PrecommitsJustified ==
  \A u \in precommits : u.value # None => Polka(u.round, u.value)

\* The lock is the last header the validator precommitted, and 2f+1 prevotes
\* stand behind it; the valid value is the locked one.
LocksJustified ==
  /\ \A s \in Honest :
       /\ lockedValue[s] = None <=> lockedRound[s] = NoRound
       /\ lockedRound[s] # NoRound => Polka(lockedRound[s], lockedValue[s])
       /\ lockedRound[s] <= round[s]
       /\ pc[s] \in BeforePrecommit => lockedRound[s] < round[s]
       /\ validValue[s] = lockedValue[s] /\ validRound[s] = lockedRound[s]
  /\ \A u \in precommits :
       u.value # None => /\ lockedRound[u.slot] >= u.round
                         /\ lockedRound[u.slot] = u.round => lockedValue[u.slot] = u.value

\* Having precommitted a header, a validator prevotes another one only after
\* 2f+1 validators prevoted that one in between: the locking rule of
\* on_proposal and on_past_proposal, across any number of rounds.
LockRespected ==
  \A u \in precommits, t \in prevotes :
    (/\ u.slot = t.slot /\ u.round < t.round
     /\ u.value # None /\ t.value # None /\ u.value # t.value)
    => \E k \in u.round .. t.round - 1 : Polka(k, t.value)

\* No two macro blocks of this height can both carry 2f+1 precommits, whether
\* assembled by on_decision or received from other validators.
Agreement ==
  \A x, y \in Values : \A r, k \in Rounds :
    Certificate(r, x) /\ Certificate(k, y) => x = y

\* The inductive invariant behind Agreement.
IndInv ==
  /\ TypeOK
  /\ DecisionsJustified
  /\ NoEquivocation
  /\ PrecommitsJustified
  /\ LocksJustified
  /\ LockRespected

\* Rounds and locks only move forward: neither a late answer nor the NewRound
\* result takes a validator back to a round or a lock it has left.
Forward == \A s \in Honest : round'[s] >= round[s] /\ lockedRound'[s] >= lockedRound[s]
ForwardOnly == [][Forward]_vars

-----------------------------------------------------------------------------
(* What the documentation says, and the code does not do.                  *)

\* "Wait for a proposal for a given round from that round's proposer" (network.rs):
\* a validator whose turn it is is the one the others wait for.
ProposerIsAwaited ==
  \A s \in Honest : pc[s] = "AwaitPrevotes" /\ IsOurTurn(s, round[s]) => AwaitedProposer(round[s]) = s

=============================================================================
