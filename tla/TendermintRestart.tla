------------------------- MODULE TendermintRestart -------------------------
(***************************************************************************)
(* Tendermint under a validator that starts its block producer again at    *)
(* the same height: poll_macro keeps the last TendermintReturn::StateUpdate *)
(* in macro_state, and init_block_producer, called whenever consensus is    *)
(* established again, the head changes or the process starts, builds a new  *)
(* ProduceMacroBlock from it.                                               *)
(***************************************************************************)
EXTENDS Tendermint

CONSTANT MaxRestarts   \* bound on the restarts explored

VARIABLES
  macroState,   \* Validator::macro_state, None or the part that is read back
  restarts      \* how often any validator has started again

restartVars == <<vars, macroState, restarts>>

MacroState(s) == [round |-> round'[s], lockedValue |-> lockedValue[s], lockedRound |-> lockedRound[s],
                  validValue |-> validValue[s], validRound |-> validRound[s]]

RestartInit == Init /\ macroState = [s \in Honest |-> None] /\ restarts = 0

\* poll_macro: a StateUpdate is yielded when a handler returns, which is when it has
\* the answer it awaits.  The update has that answer, and not what the next handler
\* sets and sends; the start of a round awaits first, and an error yields no update.
PollMacro(s) ==
  /\ \/ /\ StartRoundPropose(s) \/ StartRoundWait(s) \/ DepsFail(s)
        /\ UNCHANGED macroState
     \/ /\ \/ AwaitProposal(s) \/ AwaitProposalTimeout(s)
           \/ AwaitPrevotes(s) \/ AwaitPrecommits(s) \/ NewRound(s)
        /\ macroState' = IF pc[s] = "AwaitProposal" /\ pc'[s] = "Error" THEN macroState
                         ELSE [macroState EXCEPT ![s] = MacroState(s)]
  /\ UNCHANGED restarts

\* ProduceMacroBlock::new: at the start of the saved round, with the saved locks,
\* a new TendermintInterface and no aggregations; without a state, at round 0.
StartAgain(s, state) ==
  LET saved == state # None IN
  /\ pc' = [pc EXCEPT ![s] = "StartRound"]
  /\ round' = [round EXCEPT ![s] = IF saved THEN state.round ELSE 0]
  /\ lockedValue' = [lockedValue EXCEPT ![s] = IF saved THEN state.lockedValue ELSE None]
  /\ lockedRound' = [lockedRound EXCEPT ![s] = IF saved THEN state.lockedRound ELSE NoRound]
  /\ validValue' = [validValue EXCEPT ![s] = IF saved THEN state.validValue ELSE None]
  /\ validRound' = [validRound EXCEPT ![s] = IF saved THEN state.validRound ELSE NoRound]
  /\ proposal' = [proposal EXCEPT ![s] = None]
  /\ proposalVr' = [proposalVr EXCEPT ![s] = NoRound]
  /\ cacheBody' = [cacheBody EXCEPT ![s] = None]
  /\ aggregations' = [aggregations EXCEPT ![s] = {}]
  /\ macroState' = [macroState EXCEPT ![s] = None]
  /\ restarts < MaxRestarts /\ restarts' = restarts + 1
  /\ UNCHANGED <<decision, proposals, votes>>

\* init_block_producer takes macro_state, so a second start finds none.
InitBlockProducer(s) == pc[s] # "Done" /\ StartAgain(s, macroState[s])

\* Validator::new in a new process: poll_macro never commits its write transaction.
Restart(s) == pc[s] # "Done" /\ StartAgain(s, None)

RestartNext == \E s \in Honest : PollMacro(s) \/ InitBlockProducer(s) \/ Restart(s)

RestartSpec == RestartInit /\ [][RestartNext]_restartVars

-----------------------------------------------------------------------------
(* Properties.                                                             *)

\* "If, for some reason, Tendermint gets interrupted, we can resume from where we
\* left off by calling expect_block with the last state that we received"
\* (stream.rs): a validator that starts again is bound by the headers it has
\* precommitted, so one that precommitted x prevotes another header only after
\* 2f+1 prevotes for it.
ResumesWhereLeftOff == LockRespected
=============================================================================
