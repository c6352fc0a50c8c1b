---------------------------- MODULE MCBlockchain ----------------------------
(* Small block trees for TLC.                                              *)
EXTENDS Blockchain, TLC

Promise == INSTANCE Ledger WITH final <- macroHead

\* A chain of pushes implements the promise: the head only improves and stays on
\* every macro block that extend or push_history_sync has adopted.
ImplementsLedger == Promise!Spec

\* A block is <<number, view, name>>.
NumberOf(B) == [b \in B |-> b[1]]
ViewOf(B) == [b \in B |-> b[2]]

g == <<0, 0, "g">>

Rank(order) == [b \in {order[i] : i \in DOMAIN order} |-> CHOOSE i \in DOMAIN order : order[i] = b]

\* Two batches of three.  In the first, f1, e1 and f2 repeat the views of m1 and m2, h2
\* and k2 change the view once and x2 and y2 twice; the macro block c3 is on h2.  In
\* the second n4 changes the view.  x2 and n5 repeat a transaction, and the accounts
\* refuse e1, which shows when z2 makes its branch the better one.
m1 == <<1, 0, "m1">>
f1 == <<1, 0, "f1">>
e1 == <<1, 0, "e1">>
m2 == <<2, 0, "m2">>
f2 == <<2, 0, "f2">>
h2 == <<2, 1, "h2">>
k2 == <<2, 1, "k2">>
x2 == <<2, 2, "x2">>
y2 == <<2, 2, "y2">>
z2 == <<2, 3, "z2">>
c3 == <<3, 0, "c3">>
m4 == <<4, 0, "m4">>
n4 == <<4, 1, "n4">>
m5 == <<5, 0, "m5">>
n5 == <<5, 1, "n5">>
c6 == <<6, 0, "c6">>
m7 == <<7, 0, "m7">>
ForkTree == (m1 :> g) @@ (f1 :> g) @@ (e1 :> g) @@ (m2 :> m1) @@ (f2 :> f1) @@ (h2 :> m1) @@ (k2 :> f1)
            @@ (x2 :> f1) @@ (y2 :> m1) @@ (z2 :> e1) @@ (c3 :> h2) @@ (m4 :> c3) @@ (n4 :> c3) @@ (m5 :> m4) @@ (n5 :> n4)
            @@ (c6 :> m5) @@ (m7 :> c6)
ForkBlocks == {g} \cup DOMAIN ForkTree
ForkNumber == NumberOf(ForkBlocks)
ForkView == ViewOf(ForkBlocks)
ForkTxs == [b \in ForkBlocks |->
              CASE b \in {m1, f1, x2, n5} -> {"t"}
                [] b \in {m2, h2, k2} -> {"u"}
                [] OTHER -> {}]
ForkUncommittable == {e1}
ForkRank == Rank(<<g, m1, e1, f1, h2, m2, x2, f2, k2, y2, z2, c3, n4, m4, m5, n5, c6, m7>>)

\* An epoch of two batches of four, and the first block after it, for blocks that
\* arrive one by one or with the history of their epoch.  m3 and a3 repeat a view, and
\* the macro block c4 is on m3.  The accounts refuse f1, which a branch of equal views
\* hides until h3 changes the view; k2 repeats a transaction.  w5 has the wrong state
\* root, where only extend can meet it; w2, which changes the view, may be given one for
\* rebranch to meet.
m3 == <<3, 0, "m3">>
a3 == <<3, 0, "a3">>
h3 == <<3, 1, "h3">>
w2 == <<2, 1, "w2">>
x3 == <<3, 2, "x3">>
c4 == <<4, 0, "c4">>
d5 == <<5, 1, "d5">>
w5 == <<5, 0, "w5">>
m6 == <<6, 0, "m6">>
n7 == <<7, 0, "n7">>
c8 == <<8, 0, "c8">>
m9 == <<9, 0, "m9">>
FaultTree == (m1 :> g) @@ (m2 :> m1) @@ (m3 :> m2) @@ (a3 :> m2) @@ (c4 :> m3)
             @@ (f1 :> g) @@ (f2 :> f1) @@ (h3 :> f2) @@ (w2 :> m1) @@ (h2 :> m1)
             @@ (k2 :> m1) @@ (x3 :> w2) @@ (m5 :> c4) @@ (d5 :> c4) @@ (w5 :> c4)
             @@ (m6 :> m5) @@ (n7 :> m6) @@ (c8 :> n7) @@ (m9 :> c8)
FaultBlocks == {g} \cup DOMAIN FaultTree
FaultNumber == NumberOf(FaultBlocks)
FaultView == ViewOf(FaultBlocks)
FaultTxs == [b \in FaultBlocks |-> IF b \in {m1, f2, k2} THEN {"t"} ELSE {}]
FaultUncommittable == {f1}
FaultWrongState == {w5}
RebranchWrongState == {w2}
FaultRank == Rank(<<f1, f2, g, m1, m2, a3, m3, w2, h2, k2, h3, x3, c4, d5, w5, m5, m6, n7, c8, m9>>)

\* Epochs of three batches of two.  b3 and b7 change the view; b7 repeats a transaction.
c2 == <<2, 0, "c2">>
b3 == <<3, 1, "b3">>
b7 == <<7, 1, "b7">>
HistoryTree == (m1 :> g) @@ (c2 :> m1) @@ (m3 :> c2) @@ (b3 :> c2) @@ (c4 :> m3) @@ (m5 :> c4)
               @@ (c6 :> m5) @@ (m7 :> c6) @@ (b7 :> c6)
HistoryBlocks == {g} \cup DOMAIN HistoryTree
HistoryNumber == NumberOf(HistoryBlocks)
HistoryView == ViewOf(HistoryBlocks)
HistoryTxs == [b \in HistoryBlocks |-> IF b \in {m5, b7} THEN {"t"} ELSE {}]
HistoryRank == Rank(<<g, m1, c2, b3, m3, c4, m5, c6, b7, m7>>)

\* A macro block of view 1 whose successors change the view once and twice.
b4 == <<4, 1, "b4">>
v3 == <<3, 1, "v3">>
p4 == <<4, 2, "p4">>
ViewTree == (m1 :> g) @@ (m2 :> m1) @@ (v3 :> m2) @@ (b4 :> v3) @@ (p4 :> v3)
ViewBlocks == {g} \cup DOMAIN ViewTree
ViewNumber == NumberOf(ViewBlocks)
ViewView == ViewOf(ViewBlocks)
ViewTxs == [b \in ViewBlocks |-> {}]
ViewRank == Rank(<<g, m1, m2, v3, b4, p4>>)
=============================================================================
