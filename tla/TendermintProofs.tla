-------------------------- MODULE TendermintProofs --------------------------
(***************************************************************************)
(* Agreement of the Tendermint state machine, for every number of slots,   *)
(* every assignment of proposers and any number of rounds, as long as less *)
(* than a third of the slots is faulty.                                    *)
(***************************************************************************)
EXTENDS Tendermint, FiniteSetTheorems, WellFoundedInduction, TLAPS

\* Finiteness of the slots, and the arithmetic of TWO_THIRD_SLOTS.
LEMMA SlotsFinite ==
  /\ IsFiniteSet(Slots) /\ IsFiniteSet(Faulty)
  /\ SLOTS \in Nat /\ Cardinality(Faulty) \in Nat
  /\ TWO_THIRD_SLOTS \in Nat
  /\ 2 * TWO_THIRD_SLOTS > SLOTS + Cardinality(Faulty)
  /\ TWO_THIRD_SLOTS > Cardinality(Faulty)
<1>1. IsFiniteSet(Slots) /\ IsFiniteSet(Faulty)
  BY SlotsAssumption, FS_Subset
<1>2. SLOTS \in Nat /\ Cardinality(Faulty) \in Nat
  BY <1>1, FS_CardinalityType DEF SLOTS
<1>3. 3 * Cardinality(Faulty) < SLOTS
  BY FaultyAssumption DEF SLOTS
<1> QED
  BY <1>1, <1>2, <1>3 DEF TWO_THIRD_SLOTS

\* Two sets of TWO_THIRD_SLOTS slots share an honest one.
LEMMA QuorumIntersection ==
  ASSUME NEW P \in SUBSET Slots, NEW Q \in SUBSET Slots,
         Cardinality(P) >= TWO_THIRD_SLOTS, Cardinality(Q) >= TWO_THIRD_SLOTS
  PROVE  \E s \in Honest : s \in P /\ s \in Q
<1>1. IsFiniteSet(P) /\ IsFiniteSet(Q)
  BY SlotsFinite, FS_Subset
<1>2. /\ IsFiniteSet(P \cup Q)
      /\ Cardinality(P \cup Q) = Cardinality(P) + Cardinality(Q) - Cardinality(P \cap Q)
  BY <1>1, FS_Union
<1>3. Cardinality(P \cup Q) <= SLOTS
  BY SlotsFinite, FS_Subset DEF SLOTS
<1>4. /\ Cardinality(P) \in Nat /\ Cardinality(Q) \in Nat
      /\ Cardinality(P \cap Q) \in Nat /\ Cardinality(P \cup Q) \in Nat
  BY <1>1, <1>2, FS_CardinalityType, FS_Intersection, Zenon
<1>5. Cardinality(P \cap Q) > Cardinality(Faulty)
  BY <1>2, <1>3, <1>4, SlotsFinite
<1>6. ~(P \cap Q \subseteq Faulty)
  <2> SUFFICES ASSUME P \cap Q \subseteq Faulty PROVE FALSE
    OBVIOUS
  <2>1. Cardinality(P \cap Q) <= Cardinality(Faulty)
    BY SlotsFinite, FS_Subset
  <2> QED
    BY <2>1, <1>4, <1>5, SlotsFinite
<1> QED
  BY <1>6 DEF Honest

\* The slots that count for a vote are slots.
LEMMA VotersAreSlots ==
  ASSUME NEW vs, NEW r, NEW x
  PROVE  Voters(vs, r, x) \in SUBSET Slots
BY SlotsAssumption DEF Voters, Honest

\* 2f+1 votes for x in r and 2f+1 votes for y in k: some honest slot cast both.
LEMMA CommonVoter ==
  ASSUME NEW vs, NEW ws, NEW r, NEW k, NEW x, NEW y,
         Has2f1Votes(vs, r, x), Has2f1Votes(ws, k, y)
  PROVE  \E s \in Honest : /\ [slot |-> s, round |-> r, value |-> x] \in vs
                           /\ [slot |-> s, round |-> k, value |-> y] \in ws
<1>1. PICK s \in Honest : s \in Voters(vs, r, x) /\ s \in Voters(ws, k, y)
  BY VotersAreSlots, QuorumIntersection DEF Has2f1Votes
<1> QED
  BY <1>1 DEF Voters, Honest

\* Votes are never withdrawn, so 2f+1 votes stay 2f+1 votes.
LEMMA QuorumsGrow ==
  ASSUME NEW vs, NEW ws, vs \subseteq ws, NEW r, NEW x, Has2f1Votes(vs, r, x)
  PROVE  Has2f1Votes(ws, r, x)
<1>1. Voters(vs, r, x) \in SUBSET Voters(ws, r, x)
  BY DEF Voters
<1>2. IsFiniteSet(Voters(ws, r, x))
  BY VotersAreSlots, SlotsFinite, FS_Subset
<1>3. /\ Cardinality(Voters(vs, r, x)) <= Cardinality(Voters(ws, r, x))
      /\ Cardinality(Voters(vs, r, x)) \in Nat /\ Cardinality(Voters(ws, r, x)) \in Nat
  BY <1>1, <1>2, FS_Subset, FS_CardinalityType
<1> QED
  BY <1>3, SlotsFinite DEF Has2f1Votes

-----------------------------------------------------------------------------
(* Type correctness.                                                       *)

\* What the provers need of rounds: they are integers, and NoRound is not one.
LEMMA RoundFacts ==
  /\ MaxRound \in Nat
  /\ \A r \in Rounds : r \in Nat /\ r <= MaxRound
  /\ \A r \in Nat : r <= MaxRound => r \in Rounds
  /\ NoRound \in Int /\ NoRound < 0 /\ NoRound \notin Rounds
  /\ 0 \in Rounds
BY RoundAssumption DEF Rounds, NoRound

\* The state ProduceMacroBlock::new starts from is well typed.
LEMMA InitTypeOK == Init => TypeOK
BY RoundFacts, SMTT(30) DEF Init, TypeOK, Awaits

\* Every handler keeps the state well typed.
LEMMA NextTypeOK == TypeOK /\ [Next]_vars => TypeOK'
<1> SUFFICES ASSUME TypeOK, [Next]_vars PROVE TypeOK'
  BY Zenon
<1> USE DEF TypeOK
<1>1. ASSUME NEW s \in Honest, StartRoundPropose(s) PROVE TypeOK'
  BY <1>1, SlotsAssumption DEF StartRoundPropose, ProposedValues, BroadcastAndAggregatePrevote, locks, Proposal, Vote,
     Awaits, Honest
<1>2. ASSUME NEW s \in Honest, StartRoundWait(s) PROVE TypeOK'
  BY <1>2, Zenon DEF StartRoundWait, locks, network, votes, Awaits
<1>3. ASSUME NEW s \in Honest, AwaitProposal(s) PROVE TypeOK'
  <2>1. PICK p \in Acceptable(round[s]) :
          \/ OnProposal(s, p.value)
          \/ p.vr # NoRound /\ p.vr < round[s] /\ OnPastProposal(s, p.value, p.vr)
          \/ OnTimeoutPropose(s)
          \/ /\ pc' = [pc EXCEPT ![s] = "Error"]
             /\ UNCHANGED <<proposal, proposalVr, aggregations, votes>>
    BY <1>3, Zenon DEF AwaitProposal
  <2>2. UNCHANGED <<round, locks, decision, proposals>>
    BY <1>3 DEF AwaitProposal
  <2>3. p.value \in Values /\ p.vr \in Rounds \cup {NoRound}
    BY DEF Acceptable, Sent, Proposal
  <2> QED
    BY <2>1, <2>2, <2>3, SMTT(30) DEF OnProposal, OnProposalVote, OnPastProposal, OnPastProposalVote,
       OnTimeoutPropose, BroadcastAndAggregatePrevote, locks, votes, Vote, Awaits
<1>4. ASSUME NEW s \in Honest, AwaitProposalTimeout(s) PROVE TypeOK'
  BY <1>4 DEF AwaitProposalTimeout, OnTimeoutPropose, BroadcastAndAggregatePrevote, locks, Vote, Awaits
<1>5. ASSUME NEW s \in Honest, AwaitPrevotes(s) PROVE TypeOK'
  BY <1>5 DEF AwaitPrevotes, OnPolka, OnNilPolka, BroadcastAndAggregatePrecommit, locks, current,
     Vote, Awaits
<1>6. ASSUME NEW s \in Honest, AwaitPrecommits(s) PROVE TypeOK'
  BY <1>6, RoundFacts DEF AwaitPrecommits, OnDecision, EnterRound, locks, current, votes, Awaits
<1>7. ASSUME NEW s \in Honest, NewRound(s) PROVE TypeOK'
  BY <1>7 DEF NewRound, EnterRound, locks, current, votes, Awaits
<1>8. ASSUME NEW s \in Honest, DepsFail(s) PROVE TypeOK'
  BY <1>8 DEF DepsFail, locks, current, network, votes, Awaits
<1>9. CASE UNCHANGED vars
  BY <1>9 DEF vars, locks, current, network, votes
<1> QED
  BY <1>1, <1>2, <1>3, <1>4, <1>5, <1>6, <1>7, <1>8, <1>9, Zenon DEF Next, Step

\* TypeOK holds in every reachable state, for every value of the constants: no
\* handler stores anything but a round, a header or None in TendermintState.
THEOREM TypeCorrect == Spec => []TypeOK
<1> QED
  BY InitTypeOK, NextTypeOK, PTL DEF Spec

-----------------------------------------------------------------------------
(* The three kinds of step that matter to the votes.                       *)

VoteOf(s, x) == [slot |-> s, round |-> round[s], value |-> x]

\* A prevote, for a header only as the locking rule allows it.
PrevoteStep(s, x) ==
  /\ pc[s] \in BeforePrevote /\ pc' = [pc EXCEPT ![s] = "AwaitPrevotes"]
  /\ prevotes' = prevotes \cup {VoteOf(s, x)}
  /\ UNCHANGED <<round, locks, decision, precommits>>
  /\ \/ x = None \/ lockedRound[s] = NoRound \/ lockedValue[s] = x
     \/ \E k \in Rounds : lockedRound[s] <= k /\ k < round[s] /\ Polka(k, x)

\* A precommit, for a header only with 2f+1 prevotes for it, which it then locks.
PrecommitStep(s, x) ==
  /\ pc[s] = "AwaitPrevotes" /\ pc' = [pc EXCEPT ![s] = "AwaitPrecommits"]
  /\ precommits' = precommits \cup {VoteOf(s, x)}
  /\ UNCHANGED <<round, decision, prevotes>>
  /\ \/ x = None /\ UNCHANGED locks
     \/ /\ x # None /\ Polka(round[s], x)
        /\ lockedValue' = [lockedValue EXCEPT ![s] = x]
        /\ lockedRound' = [lockedRound EXCEPT ![s] = round[s]]
        /\ validValue' = [validValue EXCEPT ![s] = x]
        /\ validRound' = [validRound EXCEPT ![s] = round[s]]

\* Any other step: no vote and no lock changes, and a validator that moves to
\* where it has yet to vote moves to a later round.
MoveStep(s) ==
  /\ UNCHANGED <<locks, votes>>
  /\ \E q \in Awaits \cup {"StartRound", "Done", "Error"}, r \in Rounds :
       /\ pc' = [pc EXCEPT ![s] = q] /\ round' = [round EXCEPT ![s] = r]
       /\ \/ r > round[s]
          \/ r = round[s] /\ (q \in {"Done", "Error"} \/ (pc[s] \in BeforePrevote /\ q \in BeforePrevote))
  /\ \/ decision' = decision
     \/ /\ decision' = [decision EXCEPT ![s] = proposal[s]]
        /\ Certificate(round[s], proposal[s])

\* Every step is of one of these kinds.
LEMMA StepKinds ==
  ASSUME TypeOK, LocksJustified, Next
  PROVE  \E s \in Honest : \/ \E x \in Values \cup {None} : PrevoteStep(s, x) \/ PrecommitStep(s, x)
                           \/ MoveStep(s)
<1>1. PICK s \in Honest : Step(s)
  BY DEF Next
<1> USE DEF VoteOf, BeforePrevote
<1>2. CASE StartRoundPropose(s)
  <2>1. PICK x \in Values :
          /\ validValue[s] = None \/ validValue[s] = x
          /\ BroadcastAndAggregatePrevote(s, x)
    BY <1>2, Zenon DEF StartRoundPropose, ProposedValues, TypeOK
  <2>2. lockedRound[s] = NoRound \/ lockedValue[s] = x
    BY <2>1, Zenon DEF LocksJustified
  <2>3. PrevoteStep(s, x)
    BY <1>2, <2>1, <2>2 DEF StartRoundPropose, ProposedValues, BroadcastAndAggregatePrevote, PrevoteStep
  <2> QED
    BY <2>3, Zenon
<1>3. CASE StartRoundWait(s)
  <2>1. MoveStep(s)
    BY <1>3 DEF StartRoundWait, MoveStep, network, Awaits, TypeOK
  <2> QED
    BY <2>1, Zenon
<1>4. CASE AwaitProposal(s)
  <2> DEFINE Rest == UNCHANGED <<round, locks, decision>>
  <2>1. Rest /\ pc[s] = "AwaitProposal"
    BY <1>4, Zenon DEF AwaitProposal
  <2>2. PICK p \in Acceptable(round[s]) :
          \/ OnProposal(s, p.value)
          \/ /\ p.vr # NoRound /\ p.vr < round[s] /\ Polka(p.vr, p.value)
             /\ OnPastProposal(s, p.value, p.vr)
          \/ OnTimeoutPropose(s)
          \/ pc' = [pc EXCEPT ![s] = "Error"] /\ UNCHANGED votes
    BY <1>4, Zenon DEF AwaitProposal, Polka
  <2>3. p.value \in Values /\ p.vr \in Rounds \cup {NoRound}
    BY DEF Acceptable, Sent, Proposal, TypeOK
  <2>4. CASE OnProposal(s, p.value)
    <3>1. PrevoteStep(s, OnProposalVote(s, p.value))
      BY <2>1, <2>4 DEF OnProposal, OnProposalVote, BroadcastAndAggregatePrevote, PrevoteStep
    <3>2. OnProposalVote(s, p.value) \in Values \cup {None}
      BY <2>3 DEF OnProposalVote
    <3> QED
      BY <3>1, <3>2, Zenon
  <2>5. CASE /\ p.vr # NoRound /\ p.vr < round[s] /\ Polka(p.vr, p.value)
             /\ OnPastProposal(s, p.value, p.vr)
    <3> DEFINE x == OnPastProposalVote(s, p.value, p.vr)
    <3>1. \/ x = None \/ lockedRound[s] = NoRound \/ lockedValue[s] = x
          \/ \E k \in Rounds : lockedRound[s] <= k /\ k < round[s] /\ Polka(k, x)
      BY <2>3, <2>5, Zenon DEF OnPastProposalVote
    <3>2. PrevoteStep(s, x)
      BY <2>1, <2>5, <3>1, Zenon DEF OnPastProposal, BroadcastAndAggregatePrevote, PrevoteStep
    <3>3. x \in Values \cup {None}
      BY <2>3 DEF OnPastProposalVote
    <3> QED
      BY <3>2, <3>3, Zenon
  <2>6. CASE OnTimeoutPropose(s)
    <3>1. PrevoteStep(s, None)
      BY <2>1, <2>6 DEF OnTimeoutPropose, BroadcastAndAggregatePrevote, PrevoteStep
    <3> QED
      BY <3>1, Zenon
  <2>7. CASE pc' = [pc EXCEPT ![s] = "Error"] /\ UNCHANGED votes
    <3>1. MoveStep(s)
      BY <2>1, <2>7, Zenon DEF MoveStep, TypeOK
    <3> QED
      BY <3>1
  <2> QED
    BY <2>2, <2>4, <2>5, <2>6, <2>7, Zenon
<1>5. CASE AwaitProposalTimeout(s)
  <2>1. PrevoteStep(s, None)
    BY <1>5, Zenon DEF AwaitProposalTimeout, OnTimeoutPropose, BroadcastAndAggregatePrevote, PrevoteStep
  <2> QED
    BY <2>1, Zenon
<1>6. CASE AwaitPrevotes(s)
  <2>1. CASE proposal[s] # None /\ Polka(round[s], proposal[s]) /\ OnPolka(s)
    <3>1. PrecommitStep(s, proposal[s])
      BY <1>6, <2>1 DEF AwaitPrevotes, OnPolka, BroadcastAndAggregatePrecommit, PrecommitStep
    <3> QED
      BY <3>1, Zenon DEF TypeOK
  <2>2. CASE OnNilPolka(s)
    <3>1. PrecommitStep(s, None)
      BY <1>6, <2>2, Zenon DEF AwaitPrevotes, OnNilPolka, BroadcastAndAggregatePrecommit, PrecommitStep
    <3> QED
      BY <3>1, Zenon
  <2> QED
    BY <1>6, <2>1, <2>2 DEF AwaitPrevotes, Polka
<1>7. CASE AwaitPrecommits(s)
  <2>1. MoveStep(s)
    BY <1>7, RoundFacts DEF AwaitPrecommits, OnDecision, EnterRound, MoveStep, Certificate, TypeOK
  <2> QED
    BY <2>1
<1>8. CASE NewRound(s)
  <2>1. MoveStep(s)
    BY <1>8, Zenon DEF NewRound, EnterRound, MoveStep
  <2> QED
    BY <2>1
<1>9. CASE DepsFail(s)
  <2>1. MoveStep(s)
    BY <1>9, Zenon DEF DepsFail, MoveStep, network, TypeOK
  <2> QED
    BY <2>1
<1> QED
  BY <1>1, <1>2, <1>3, <1>4, <1>5, <1>6, <1>7, <1>8, <1>9, Zenon DEF Step

-----------------------------------------------------------------------------
(* Each part of the inductive invariant is preserved by each kind of step. *)

\* 2f+1 prevotes stay when votes are only added.
LEMMA PolkasStay ==
  ASSUME prevotes \subseteq prevotes'
  PROVE  \A r, x : Polka(r, x) => Polka(r, x)'
BY QuorumsGrow DEF Polka

\* 2f+1 precommits stay when votes are only added.
LEMMA CertificatesStay ==
  ASSUME precommits \subseteq precommits'
  PROVE  \A r, x : Certificate(r, x) => Certificate(r, x)'
BY QuorumsGrow, Zenon DEF Certificate

\* What NoEquivocation and TypeOK say of a single vote.
LEMMA VotesInReach ==
  ASSUME IndInv
  PROVE  /\ \A s \in Honest : round[s] \in Nat
         /\ \A u \in prevotes : /\ u.slot \in Honest /\ u.round \in Nat /\ u.round <= round[u.slot]
                                /\ pc[u.slot] \in BeforePrevote => u.round < round[u.slot]
         /\ \A u \in precommits : /\ u.slot \in Honest /\ u.round \in Nat /\ u.round <= round[u.slot]
                                  /\ pc[u.slot] \in BeforePrecommit => u.round < round[u.slot]
<1>1. \A s \in Honest : round[s] \in Nat
  BY RoundFacts DEF IndInv, TypeOK
<1>2. \A u \in prevotes \cup precommits : u.slot \in Honest /\ u.round \in Nat
  BY RoundFacts DEF IndInv, TypeOK, Vote
<1>3. VotesOnce(prevotes, BeforePrevote) /\ VotesOnce(precommits, BeforePrecommit)
  BY DEF IndInv, NoEquivocation
<1>4. \A u \in prevotes : u.round <= round[u.slot] /\ (pc[u.slot] \in BeforePrevote => u.round < round[u.slot])
  BY <1>3 DEF VotesOnce
<1>5. \A u \in precommits : u.round <= round[u.slot] /\ (pc[u.slot] \in BeforePrecommit => u.round < round[u.slot])
  BY <1>3 DEF VotesOnce
<1> QED
  BY <1>1, <1>2, <1>4, <1>5

\* on_proposal, on_past_proposal, on_timeout_propose and start_round: one prevote.
LEMMA PrevotePreserves ==
  ASSUME IndInv, NEW s \in Honest, NEW x \in Values \cup {None}, PrevoteStep(s, x)
  PROVE  /\ DecisionsJustified' /\ NoEquivocation' /\ PrecommitsJustified'
         /\ LocksJustified' /\ LockRespected'
<1>1. /\ prevotes' = prevotes \cup {VoteOf(s, x)} /\ precommits' = precommits
      /\ round' = round /\ decision' = decision
      /\ lockedValue' = lockedValue /\ lockedRound' = lockedRound
      /\ validValue' = validValue /\ validRound' = validRound
      /\ pc[s] \in BeforePrevote /\ pc' = [pc EXCEPT ![s] = "AwaitPrevotes"]
  BY DEF PrevoteStep, locks
<1>2. \A r, y : Polka(r, y) => Polka(r, y)'
  BY <1>1, PolkasStay
<1>3. DecisionsJustified'
  BY <1>1 DEF IndInv, DecisionsJustified, Certificate
<1>4. NoEquivocation'
  <2>1. VotesOnce(prevotes, BeforePrevote)'
    BY <1>1, RoundFacts DEF IndInv, NoEquivocation, VotesOnce, VoteOf, TypeOK, Vote, BeforePrevote
  <2>2. VotesOnce(precommits, BeforePrecommit)'
    BY <1>1, RoundFacts DEF IndInv, NoEquivocation, VotesOnce, TypeOK, Vote, BeforePrecommit, BeforePrevote
  <2> QED
    BY <2>1, <2>2, Zenon DEF NoEquivocation
<1>5. PrecommitsJustified'
  BY <1>1, <1>2, Zenon DEF IndInv, PrecommitsJustified
<1>6. LocksJustified'
  BY <1>1, <1>2, Zenon DEF IndInv, LocksJustified, TypeOK, BeforePrevote, BeforePrecommit
<1>7. LockRespected'
  <2> SUFFICES ASSUME NEW u \in precommits, NEW t \in prevotes',
                      u.slot = t.slot, u.round < t.round,
                      u.value # None, t.value # None, u.value # t.value
               PROVE  \E k \in u.round .. t.round - 1 : Polka(k, t.value)'
    BY <1>1, Zenon DEF LockRespected
  <2>1. CASE t \in prevotes
    BY <2>1, <1>2, Zenon DEF IndInv, LockRespected
  <2>2. CASE t = VoteOf(s, x)
    <3>1. /\ t.slot = s /\ t.round = round[s] /\ t.value = x
          /\ u.round \in Rounds /\ round[s] \in Rounds /\ lockedRound[s] \in Rounds \cup {NoRound}
      BY <2>2, Zenon DEF VoteOf, IndInv, TypeOK, Vote
    <3>2. lockedRound[s] >= u.round /\ lockedRound[s] # NoRound
      BY <3>1, RoundFacts, SMTT(30) DEF IndInv, LocksJustified
    <3>3. lockedRound[s] < round[s] /\ Polka(lockedRound[s], lockedValue[s])
      BY <1>1, <3>2, Zenon DEF IndInv, LocksJustified, BeforePrecommit
    <3>4. \E k \in Rounds : u.round <= k /\ k < round[s] /\ Polka(k, x)
      BY <3>1, <3>2, <3>3, RoundFacts DEF PrevoteStep
    <3> QED
      BY <3>1, <3>4, <1>2, RoundFacts
  <2> QED
    BY <2>1, <2>2, <1>1, Zenon
<1> QED
  BY <1>3, <1>4, <1>5, <1>6, <1>7, Zenon

\* on_polka, on_nil_polka and on_timeout_prevote: one precommit and its lock.
LEMMA PrecommitPreserves ==
  ASSUME IndInv, NEW s \in Honest, NEW x \in Values \cup {None}, PrecommitStep(s, x)
  PROVE  /\ DecisionsJustified' /\ NoEquivocation' /\ PrecommitsJustified'
         /\ LocksJustified' /\ LockRespected'
<1>1. /\ precommits' = precommits \cup {VoteOf(s, x)} /\ prevotes' = prevotes
      /\ round' = round /\ decision' = decision
      /\ pc[s] = "AwaitPrevotes" /\ pc' = [pc EXCEPT ![s] = "AwaitPrecommits"]
  BY DEF PrecommitStep
<1>2. \/ /\ x = None
         /\ lockedValue' = lockedValue /\ lockedRound' = lockedRound
         /\ validValue' = validValue /\ validRound' = validRound
      \/ /\ x # None /\ Polka(round[s], x)
         /\ lockedValue' = [lockedValue EXCEPT ![s] = x]
         /\ lockedRound' = [lockedRound EXCEPT ![s] = round[s]]
         /\ validValue' = [validValue EXCEPT ![s] = x]
         /\ validRound' = [validRound EXCEPT ![s] = round[s]]
  BY DEF PrecommitStep, locks
<1>3. \A r, y : Polka(r, y)' <=> Polka(r, y)
  BY <1>1 DEF Polka
<1>4. \A r, y : Certificate(r, y) => Certificate(r, y)'
  BY <1>1, CertificatesStay, Zenon
<1>5. DecisionsJustified'
  BY <1>1, <1>4, Zenon DEF IndInv, DecisionsJustified
<1>6. NoEquivocation'
  <2>1. VotesOnce(precommits, BeforePrecommit)'
    BY <1>1, RoundFacts DEF IndInv, NoEquivocation, VotesOnce, VoteOf, TypeOK, Vote, BeforePrevote, BeforePrecommit
  <2>2. VotesOnce(prevotes, BeforePrevote)'
    BY <1>1, RoundFacts, Zenon DEF IndInv, NoEquivocation, VotesOnce, TypeOK, Vote, BeforePrevote
  <2> QED
    BY <2>1, <2>2, Zenon DEF NoEquivocation
<1>7. PrecommitsJustified'
  BY <1>1, <1>2, <1>3, SMTT(30) DEF IndInv, PrecommitsJustified, VoteOf
<1>8. LocksJustified'
  <2>1. ASSUME NEW q \in Honest
        PROVE  (/\ lockedValue[q] = None <=> lockedRound[q] = NoRound
                /\ lockedRound[q] # NoRound => Polka(lockedRound[q], lockedValue[q])
                /\ lockedRound[q] <= round[q]
                /\ pc[q] \in BeforePrecommit => lockedRound[q] < round[q]
                /\ validValue[q] = lockedValue[q] /\ validRound[q] = lockedRound[q])'
    <3>1. /\ lockedValue[q] = None <=> lockedRound[q] = NoRound
          /\ lockedRound[q] # NoRound => Polka(lockedRound[q], lockedValue[q])
          /\ lockedRound[q] <= round[q]
          /\ pc[q] \in BeforePrecommit => lockedRound[q] < round[q]
          /\ validValue[q] = lockedValue[q] /\ validRound[q] = lockedRound[q]
      BY Zenon DEF IndInv, LocksJustified
    <3>2. /\ round[s] \in Nat /\ round[s] # NoRound
          /\ pc \in [Honest -> Awaits \cup {"StartRound", "Done", "Error"}]
          /\ lockedValue \in [Honest -> Values \cup {None}] /\ validValue \in [Honest -> Values \cup {None}]
          /\ lockedRound \in [Honest -> Rounds \cup {NoRound}] /\ validRound \in [Honest -> Rounds \cup {NoRound}]
      BY RoundFacts, Zenon DEF IndInv, TypeOK, NoRound
    <3>3. CASE q # s
      <4>1. /\ pc'[q] = pc[q] /\ round'[q] = round[q]
            /\ lockedValue'[q] = lockedValue[q] /\ lockedRound'[q] = lockedRound[q]
            /\ validValue'[q] = validValue[q] /\ validRound'[q] = validRound[q]
        BY <1>1, <1>2, <3>2, <3>3, Zenon
      <4> QED
        BY <1>3, <3>1, <4>1, Zenon
    <3>4. CASE q = s
      <4>1. pc'[q] \notin BeforePrecommit /\ round'[q] = round[q]
        BY <1>1, <3>2, <3>4, Zenon DEF BeforePrecommit, BeforePrevote
      <4>2. CASE x = None
        <5>1. /\ lockedValue'[q] = lockedValue[q] /\ lockedRound'[q] = lockedRound[q]
              /\ validValue'[q] = validValue[q] /\ validRound'[q] = validRound[q]
          BY <1>2, <4>2, Zenon
        <5> QED
          BY <1>3, <3>1, <4>1, <5>1, Zenon
      <4>3. CASE x # None
        <5>1. /\ lockedValue'[q] = x /\ lockedRound'[q] = round[q] /\ Polka(round[q], x)
              /\ validValue'[q] = x /\ validRound'[q] = round[q]
          BY <1>2, <3>2, <3>4, <4>3, Zenon
        <5> QED
          BY <1>3, <3>2, <3>4, <4>1, <4>3, <5>1
      <4> QED
        BY <4>2, <4>3, Zenon
    <3> QED
      BY <3>3, <3>4, ZenonT(30)
  <2>2. ASSUME NEW u \in precommits', u.value # None
        PROVE  /\ lockedRound'[u.slot] >= u.round
               /\ lockedRound'[u.slot] = u.round => lockedValue'[u.slot] = u.value
    <3>1. CASE u \in precommits
      <4>1. u.slot = s => u.round < round[s]
        BY <3>1, <1>1, VotesInReach, Zenon DEF BeforePrecommit
      <4>2. u.slot \in Honest /\ u.round \in Nat /\ round[s] \in Nat
        BY <3>1, RoundFacts, Zenon DEF IndInv, TypeOK, Vote
      <4> QED
        BY <3>1, <4>1, <4>2, <1>2, <2>2, SMTT(30) DEF IndInv, LocksJustified, TypeOK
    <3>2. CASE u = VoteOf(s, x)
      BY <3>2, <1>2, <2>2, RoundFacts, SMTT(30) DEF VoteOf, IndInv, TypeOK
    <3> QED
      BY <3>1, <3>2, <1>1, <2>2, Zenon
  <2> QED
    BY <2>1, <2>2, Zenon DEF LocksJustified
<1>9. LockRespected'
  <2> SUFFICES ASSUME NEW u \in precommits', NEW t \in prevotes,
                      u.slot = t.slot, u.round < t.round,
                      u.value # None, t.value # None, u.value # t.value
               PROVE  \E k \in u.round .. t.round - 1 : Polka(k, t.value)
    BY <1>1, <1>3, Zenon DEF LockRespected
  <2>1. u \in precommits
    <3> SUFFICES ASSUME u = VoteOf(s, x) PROVE FALSE
      BY <1>1, Zenon
    <3>1. t.round <= round[s]
      BY VotesInReach, Zenon DEF VoteOf
    <3>2. t.round \in Nat /\ round[s] \in Nat
      BY RoundFacts DEF IndInv, TypeOK, Vote
    <3> QED
      BY <3>1, <3>2 DEF VoteOf
  <2> QED
    BY <2>1, Zenon DEF IndInv, LockRespected
<1> QED
  BY <1>5, <1>6, <1>7, <1>8, <1>9

\* Steps that cast no vote: waiting, entering a round, deciding, failing.
LEMMA MovePreserves ==
  ASSUME IndInv, NEW s \in Honest, MoveStep(s)
  PROVE  /\ DecisionsJustified' /\ NoEquivocation' /\ PrecommitsJustified'
         /\ LocksJustified' /\ LockRespected'
<1>1. /\ prevotes' = prevotes /\ precommits' = precommits
      /\ lockedValue' = lockedValue /\ lockedRound' = lockedRound
      /\ validValue' = validValue /\ validRound' = validRound
  BY DEF MoveStep, locks, votes
<1>2. PICK q \in Awaits \cup {"StartRound", "Done", "Error"}, r \in Rounds :
        /\ pc' = [pc EXCEPT ![s] = q] /\ round' = [round EXCEPT ![s] = r]
        /\ \/ r > round[s]
           \/ r = round[s] /\ (q \in {"Done", "Error"} \/ (pc[s] \in BeforePrevote /\ q \in BeforePrevote))
  BY Zenon DEF MoveStep
<1>3. /\ \A k, y : Polka(k, y)' <=> Polka(k, y)
      /\ \A k, y : Certificate(k, y)' <=> Certificate(k, y)
  BY <1>1, Zenon DEF Polka, Certificate
<1>4. DecisionsJustified'
  BY <1>3, Zenon DEF MoveStep, IndInv, DecisionsJustified, TypeOK
<1>5. NoEquivocation'
  <2>1. /\ \A u, t \in prevotes : u.slot = t.slot /\ u.round = t.round => u = t
        /\ \A u, t \in precommits : u.slot = t.slot /\ u.round = t.round => u = t
    BY Zenon DEF IndInv, NoEquivocation, VotesOnce
  <2>2. \A z \in Honest : /\ round'[z] = IF z = s THEN r ELSE round[z]
                          /\ pc'[z] = IF z = s THEN q ELSE pc[z]
    BY <1>2, Zenon DEF IndInv, TypeOK
  <2>3. r \in Nat /\ r >= round[s]
    BY <1>2, RoundFacts, VotesInReach, SMTT(30)
  <2>4. ASSUME NEW u \in prevotes
        PROVE  u.round <= round'[u.slot] /\ (pc'[u.slot] \in BeforePrevote => u.round < round'[u.slot])
    BY <1>2, <2>2, <2>3, VotesInReach, SMTT(30) DEF BeforePrevote
  <2>5. ASSUME NEW u \in precommits
        PROVE  u.round <= round'[u.slot] /\ (pc'[u.slot] \in BeforePrecommit => u.round < round'[u.slot])
    <3>1. r > round[s] \/ q \notin BeforePrecommit \/ pc[s] \in BeforePrecommit
      BY <1>2, Zenon DEF BeforePrecommit, BeforePrevote
    <3> QED
      BY <1>2, <2>2, <2>3, <3>1, VotesInReach
  <2> QED
    BY <1>1, <2>1, <2>4, <2>5, Zenon DEF NoEquivocation, VotesOnce
<1>6. PrecommitsJustified' /\ LockRespected'
  BY <1>1, <1>3, ZenonT(30) DEF IndInv, PrecommitsJustified, LockRespected
<1>7. LocksJustified'
  BY <1>1, <1>2, <1>3, RoundFacts, SMTT(30) DEF IndInv, LocksJustified, TypeOK, BeforePrevote, BeforePrecommit
<1> QED
  BY <1>4, <1>5, <1>6, <1>7, Zenon

\* No votes, no locks: the inductive invariant holds at the start.
LEMMA InitIndInv == Init => IndInv
<1> SUFFICES ASSUME Init PROVE IndInv
  OBVIOUS
<1>1. TypeOK
  BY InitTypeOK, Zenon
<1>2. LocksJustified
  BY RoundFacts DEF Init, LocksJustified, BeforePrecommit, BeforePrevote
<1> QED
  BY <1>1, <1>2, Zenon DEF Init, IndInv, DecisionsJustified, NoEquivocation, VotesOnce, PrecommitsJustified,
     LockRespected

\* Every step preserves the inductive invariant.
LEMMA NextIndInv == IndInv /\ [Next]_vars => IndInv'
<1> SUFFICES ASSUME IndInv, [Next]_vars PROVE IndInv'
  OBVIOUS
<1>1. TypeOK'
  BY NextTypeOK DEF IndInv
<1>2. CASE Next
  <2>1. PICK s \in Honest : \/ \E x \in Values \cup {None} : PrevoteStep(s, x) \/ PrecommitStep(s, x)
                            \/ MoveStep(s)
    BY <1>2, StepKinds, Zenon DEF IndInv
  <2>2. /\ DecisionsJustified' /\ NoEquivocation' /\ PrecommitsJustified'
        /\ LocksJustified' /\ LockRespected'
    BY <2>1, PrevotePreserves, PrecommitPreserves, MovePreserves
  <2> QED
    BY <1>1, <2>2 DEF IndInv
<1>3. CASE UNCHANGED vars
  <2>1. /\ pc' = pc /\ round' = round /\ decision' = decision
        /\ lockedValue' = lockedValue /\ lockedRound' = lockedRound
        /\ validValue' = validValue /\ validRound' = validRound
        /\ prevotes' = prevotes /\ precommits' = precommits
    BY <1>3 DEF vars, locks, network, votes
  <2>2. /\ \A k, y : Polka(k, y)' <=> Polka(k, y)
        /\ \A k, y : Certificate(k, y)' <=> Certificate(k, y)
    BY <2>1, Zenon DEF Polka, Certificate
  <2>3. DecisionsJustified' /\ PrecommitsJustified' /\ LocksJustified' /\ LockRespected'
    BY <2>1, <2>2, ZenonT(30) DEF IndInv, DecisionsJustified, PrecommitsJustified, LocksJustified, LockRespected
  <2>4. NoEquivocation'
    BY <2>1, Zenon DEF IndInv, NoEquivocation, VotesOnce
  <2> QED
    BY <1>1, <2>3, <2>4 DEF IndInv
<1> QED
  BY <1>2, <1>3

\* In every reachable state an honest validator has voted at most once in each
\* round and step, has precommitted only what 2f+1 validators prevoted, and has
\* respected its lock: what the handlers of protocol.rs keep true step by step.
THEOREM Inductive == Spec => []IndInv
<1> QED
  BY InitIndInv, NextIndInv, PTL DEF Spec

-----------------------------------------------------------------------------
(* Agreement.                                                              *)

\* Once x has 2f+1 precommits in round r, nothing else gets 2f+1 prevotes in r
\* or later: a first round to do so would have an honest voter who respected
\* its lock because of an even earlier one.
LEMMA OnlyPolka ==
  ASSUME IndInv, NEW r \in Rounds, NEW x \in Values, Certificate(r, x),
         NEW k \in Rounds, k >= r, NEW y \in Values, Polka(k, y)
  PROVE  x = y
<1> SUFFICES ASSUME x # y PROVE FALSE
  OBVIOUS
<1> DEFINE T == {j \in Nat : j \in Rounds /\ j >= r /\ Polka(j, y)}
<1>1. k \in T
  BY RoundFacts
<1>2. PICK j \in T : \A i \in T : ~(<<i, j>> \in OpToRel(<, Nat))
  BY <1>1, NatLessThanWellFounded, WFMin, Zenon
<1>3. /\ \A i \in T : ~(i < j)
      /\ r \in Nat /\ j \in Nat /\ j \in Rounds /\ j >= r /\ Polka(j, y)
  BY <1>2, RoundFacts, ZenonT(30) DEF OpToRel
<1>4. PICK s \in Honest : /\ [slot |-> s, round |-> r, value |-> x] \in precommits
                          /\ [slot |-> s, round |-> j, value |-> y] \in prevotes
  BY <1>3, CommonVoter, Zenon DEF Certificate, Polka
<1>5. CASE j = r
  <2>1. Polka(r, x)
    BY <1>4, ValuesAssumption, Zenon DEF IndInv, PrecommitsJustified
  <2>2. PICK z \in Honest : /\ [slot |-> z, round |-> r, value |-> x] \in prevotes
                            /\ [slot |-> z, round |-> r, value |-> y] \in prevotes
    BY <1>3, <1>5, <2>1, CommonVoter, ZenonT(30) DEF Polka
  <2> QED
    BY <2>2, Zenon DEF IndInv, NoEquivocation, VotesOnce
<1>6. CASE j > r
  <2>1. PICK i \in r .. j - 1 : Polka(i, y)
    BY <1>4, <1>6, ValuesAssumption, Zenon DEF IndInv, LockRespected
  <2>2. i \in Nat /\ i \in Rounds /\ i >= r /\ i < j
    BY <2>1, <1>3, RoundFacts
  <2> QED
    BY <2>1, <2>2, <1>3, Zenon
<1> QED
  BY <1>3, <1>5, <1>6

\* The inductive invariant excludes two certificates for different headers: of two
\* rounds with certificates the later one has only polkas for the earlier header.
LEMMA IndInvAgreement == IndInv => Agreement
<1> SUFFICES ASSUME IndInv, NEW x \in Values, NEW y \in Values, NEW r \in Rounds, NEW k \in Rounds,
                    Certificate(r, x), Certificate(k, y)
             PROVE  x = y
  BY Zenon DEF Agreement
<1>1. Polka(r, x) /\ Polka(k, y)
  <2>1. \E s \in Honest : [slot |-> s, round |-> r, value |-> x] \in precommits
    BY CommonVoter, Zenon DEF Certificate
  <2>2. \E s \in Honest : [slot |-> s, round |-> k, value |-> y] \in precommits
    BY CommonVoter DEF Certificate
  <2> QED
    BY <2>1, <2>2, ValuesAssumption, Zenon DEF IndInv, PrecommitsJustified
<1>2. CASE r <= k
  BY <1>1, <1>2, OnlyPolka, RoundFacts, Zenon
<1>3. CASE k <= r
  BY <1>1, <1>3, OnlyPolka, RoundFacts
<1> QED
  BY <1>2, <1>3, RoundFacts

\* Whatever the number of slots, the proposers and the rounds, with less than a
\* third of the slots faulty no two macro headers of a height ever both carry
\* 2f+1 precommits of one round each: the handlers of protocol.rs and the
\* thresholds of utils.rs and policy.rs never fork the chain at a macro block.
THEOREM Safety == Spec => []Agreement
<1> QED
  BY Inductive, IndInvAgreement, PTL

-----------------------------------------------------------------------------
(* What a step may never do.                                               *)

\* A lock is set in the current round, which no earlier lock exceeds.
LEMMA StepForward == IndInv /\ [Next]_vars => [Forward]_vars
<1> SUFFICES ASSUME IndInv, Next, NEW s \in Honest
             PROVE  round'[s] >= round[s] /\ lockedRound'[s] >= lockedRound[s]
  BY Zenon DEF Forward
<1>1. /\ round[s] \in Int /\ lockedRound[s] \in Int /\ lockedRound[s] <= round[s]
  BY RoundFacts DEF IndInv, TypeOK, LocksJustified
<1>2. PICK z \in Honest : \/ \E x \in Values \cup {None} : PrevoteStep(z, x) \/ PrecommitStep(z, x)
                          \/ MoveStep(z)
  BY StepKinds, Zenon DEF IndInv
<1>3. CASE \E x \in Values \cup {None} : PrevoteStep(z, x)
  BY <1>1, <1>3, SMTT(30) DEF PrevoteStep, locks
<1>4. CASE \E x \in Values \cup {None} : PrecommitStep(z, x)
  BY <1>1, <1>4 DEF PrecommitStep, locks, IndInv, TypeOK
<1>5. CASE MoveStep(z)
  <2>1. lockedRound' = lockedRound
    BY <1>5, ZenonT(30) DEF MoveStep, locks
  <2>2. PICK r \in Rounds : /\ round' = [round EXCEPT ![z] = r]
                            /\ r > round[z] \/ r = round[z]
    BY <1>5, Zenon DEF MoveStep
  <2>3. round[z] \in Nat /\ r \in Nat
    BY RoundFacts DEF IndInv, TypeOK
  <2>4. r >= round[z]
    BY <2>2, <2>3
  <2> QED
    BY <2>1, <2>2, <2>3, <2>4, <1>1, SMTT(30) DEF IndInv, TypeOK
<1> QED
  BY <1>2, <1>3, <1>4, <1>5, Zenon

\* No step takes a validator back to an earlier round or an earlier lock, for
\* every value of the constants.
THEOREM Progressive == Spec => ForwardOnly
<1> QED
  BY Inductive, StepForward, PTL DEF Spec, ForwardOnly
=============================================================================
