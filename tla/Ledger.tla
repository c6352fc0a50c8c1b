------------------------------- MODULE Ledger -------------------------------
(***************************************************************************)
(* What a node's chain promises to the rest of the system: its head only   *)
(* ever moves to a better chain, and never away from a macro block it has  *)
(* once adopted.  A chain is better when at the first height where the     *)
(* view numbers differ its view number is higher, or else when it is       *)
(* longer.                                                                 *)
(***************************************************************************)
EXTENDS Integers, FiniteSetsExt

CONSTANTS Blocks, Genesis, Number, View, Chain, BATCH_LENGTH

VARIABLES head, final

At(b, n) == CHOOSE x \in Chain[b] : Number[x] = n

Better(b, c) ==
  LET differ == {n \in 0 .. Min({Number[b], Number[c]}) : View[At(b, n)] # View[At(c, n)]}
      n == Min(differ)
  IN  IF differ = {} THEN Number[b] > Number[c] ELSE View[At(b, n)] > View[At(c, n)]

LastMacro(b) == At(b, (Number[b] \div BATCH_LENGTH) * BATCH_LENGTH)

Init == head = Genesis /\ final = Genesis

Adopt(b) ==
  /\ Better(b, head)
  /\ final \in Chain[b]
  /\ head' = b
  /\ final' = LastMacro(b)

Next == \E b \in Blocks : Adopt(b)

Spec == Init /\ [][Next]_<<head, final>>
=============================================================================
