------------------------ MODULE MCTendermintRestart ------------------------
(* Small instances of TendermintRestart for TLC.                           *)
EXTENDS TendermintRestart, TLC

CONSTANTS a, b, c, d, v, w

Values2 == {v, w}
Body == [x \in Values2 |-> x]

\* Four slots: 2f+1 is 3.  d owns both rounds.
Slots4 == {a, b, c, d}
SeedD == [x \in Values2 |-> d]
OwnerD == [n \in 0 .. 1 |-> d]
Sym3 == Permutations({a, b, c})
=============================================================================
