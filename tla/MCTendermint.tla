---------------------------- MODULE MCTendermint ----------------------------
(* Small instances of Tendermint for TLC.                                  *)
EXTENDS Tendermint, TLC

CONSTANTS a, b, c, d, v, w

Values2 == {v, w}
Body == [x \in Values2 |-> x]

\* Four slots, one of them faulty: 2f+1 is 3.  The faulty slot owns both rounds,
\* so it may show two headers to the others in each of them.
Slots4 == {a, b, c, d}
SeedFaulty == [x \in Values2 |-> d]
OwnerFaulty == [n \in 0 .. 1 |-> d]
Sym4 == Permutations({a, b, c})

\* Three honest slots: 2f+1 is 2.  a owns the first and the third round.
Slots3 == {a, b, c}
SeedHonest == (v :> a) @@ (w :> b)
OwnerHonest == (0 :> a) @@ (1 :> b) @@ (2 :> a)
=============================================================================
