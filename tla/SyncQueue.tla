----------------------------- MODULE SyncQueue -----------------------------
(***************************************************************************)
(* `SyncQueue` of the consensus-albatross crate: a stream that requests a  *)
(* list of ids from a changing set of peers, a few at a time, and returns  *)
(* the objects in the order of the ids.                                    *)
(*                                                                         *)
(* The owner polls the stream and changes the lists between two polls; the *)
(* network answers requests and drops peers at any time.  A poll is split  *)
(* into the iterations of its loops, as a peer may leave in between.       *)
(***************************************************************************)
EXTENDS Integers, Sequences, FiniteSets, SequencesExt

CONSTANTS
  Peers,         \* the consensus agents the owner may add
  NumIds,        \* bound on the ids added; ids are 1 .. NumIds in this order
  MaxPeers,      \* bound on the entries of the list of peers
  DesiredSize    \* desired_pending_size

ASSUME SyncQueueAssumption ==
  /\ IsFiniteSet(Peers) /\ MaxPeers \in Nat \ {0}
  /\ NumIds \in Nat /\ DesiredSize \in Nat \ {0}

Ids == 1 .. NumIds

VARIABLES
  peers,         \* the weak references, as a sequence of peers
  connected,     \* the peers the network still has an agent for
  added,         \* how many ids have been added
  toRequest,     \* ids_to_request
  pending,       \* pending_futures: the OrderWrappers, with the agent they hold
  queued,        \* queued_outputs
  nextIn, nextOut, currentPeer,   \* next_incoming_index, next_outgoing_index, current_peer_index
  output,        \* what poll_next has returned: Ok or Err, with id and index
  phase,         \* where in poll_next the stream is
  panic          \* whether an index or a remainder has panicked

lists == <<added, toRequest, pending, queued, nextIn, nextOut, output>>
vars == <<peers, connected, lists, currentPeer, phase, panic>>

Phases == {"idle", "push", "check", "loop", "repush"}

Init ==
  /\ peers = <<>> /\ connected = Peers
  /\ added = 0 /\ toRequest = <<>> /\ pending = {} /\ queued = {}
  /\ nextIn = 0 /\ nextOut = 0 /\ currentPeer = 0
  /\ output = <<>> /\ phase = "idle" /\ panic = FALSE

-----------------------------------------------------------------------------
(* The peers.                                                              *)

\* A request in flight keeps its agent alive.
Upgrades(p, futures) == p \in connected \/ \E f \in futures : f.agent = p

\* get_next_peer: drops dead peers at the position it starts from; the position is
\* not wrapped again when the last ones are dropped.
DeadFrom(start, futures) ==
  {i \in start .. Len(peers) : \A j \in start .. i : ~Upgrades(peers[j], futures)}
GetNextPeer(startIndex, futures) ==
  IF peers = <<>> THEN [result |-> "panic", peers |-> peers]
  ELSE LET start == (startIndex % Len(peers)) + 1
           last == start + Cardinality(DeadFrom(start, futures))
           left == SubSeq(peers, 1, start - 1) \o SubSeq(peers, last, Len(peers))
       IN  IF last <= Len(peers) THEN [result |-> "some", agent |-> peers[last], peers |-> left]
           ELSE [result |-> IF left = <<>> THEN "none" ELSE "panic", peers |-> left]

\* add_peer does not look whether the list has the peer already.
AddPeer(p) ==
  /\ phase = "idle"
  /\ p \in connected /\ Len(peers) < MaxPeers
  /\ peers' = Append(peers, p)
  /\ UNCHANGED <<connected, lists, currentPeer, phase, panic>>

PeerLeaves(p) ==
  /\ connected' = connected \ {p}
  /\ p \in connected
  /\ UNCHANGED <<peers, lists, currentPeer, phase, panic>>

-----------------------------------------------------------------------------
(* The ids.                                                                *)

AddIds(n) ==
  /\ phase = "idle"
  /\ added + n <= NumIds
  /\ toRequest' = toRequest \o [i \in 1 .. n |-> added + i]
  /\ added' = added + n
  /\ UNCHANGED <<peers, connected, pending, queued, nextIn, nextOut, output, currentPeer, phase, panic>>

TruncateIds(len) ==
  /\ phase = "idle"
  /\ LET keep == IF len < nextIn THEN 0 ELSE len - nextIn
     IN  keep < Len(toRequest) /\ toRequest' = SubSeq(toRequest, 1, keep)
  /\ UNCHANGED <<peers, connected, added, pending, queued, nextIn, nextOut, output, currentPeer, phase, panic>>

-----------------------------------------------------------------------------
(* poll_next.                                                              *)

Return(tag, id, index) == output' = Append(output, [tag |-> tag, id |-> id, index |-> index])

Poll ==
  /\ phase = "idle" /\ ~panic
  /\ phase' = "push"
  /\ UNCHANGED <<peers, connected, lists, currentPeer, panic>>

\* One iteration of try_push_futures; num_ids_to_request falls by one with each.
WantsMore_IgnoresQueued == toRequest # <<>> /\ Cardinality(pending) < DesiredSize
WantsMore == toRequest # <<>> /\ Cardinality(pending) + Cardinality(queued) < DesiredSize

\* The id that is drained, and those that stay.
Drained_Back == [id |-> Last(toRequest), rest |-> Front(toRequest)]
Drained == [id |-> Head(toRequest), rest |-> Tail(toRequest)]

AfterPush == IF phase = "push" THEN "check" ELSE "idle"

TryPushFutures ==
  LET next == GetNextPeer(currentPeer, pending) IN
  /\ phase \in {"push", "repush"} /\ ~panic
  /\ \/ /\ ~WantsMore
        /\ phase' = AfterPush
        /\ UNCHANGED <<peers, connected, lists, currentPeer, panic>>
     \/ /\ WantsMore /\ next.result = "panic"
        /\ panic' = TRUE
        /\ peers' = next.peers
        /\ UNCHANGED <<connected, lists, currentPeer, phase>>
     \/ /\ WantsMore /\ next.result = "none"
        /\ peers' = next.peers
        /\ phase' = AfterPush
        /\ UNCHANGED <<connected, lists, currentPeer, panic>>
     \/ /\ WantsMore /\ next.result = "some"
        /\ peers' = next.peers
        /\ pending' = pending \cup {[id |-> Drained.id, index |-> nextIn, peer |-> currentPeer,
                                     tries |-> 1, agent |-> next.agent]}
        /\ toRequest' = Drained.rest
        /\ nextIn' = nextIn + 1
        /\ currentPeer' = (currentPeer + 1) % Len(next.peers)
        /\ UNCHANGED <<connected, added, queued, nextOut, output, phase, panic>>

\* "Check to see if we've already received the next value": the top of the heap.
CheckQueued_KeepsIndex ==
  /\ phase = "check"
  /\ \/ \E q \in queued :
          /\ q.index = nextOut
          /\ queued' = queued \ {q}
          /\ Return("Ok", q.id, q.index)
          /\ phase' = "idle" /\ UNCHANGED nextOut
     \/ /\ \A q \in queued : q.index # nextOut
        /\ phase' = "loop"
        /\ UNCHANGED <<queued, nextOut, output>>
  /\ UNCHANGED <<peers, connected, added, toRequest, pending, nextIn, currentPeer, panic>>
CheckQueued ==
  /\ phase = "check"
  /\ \/ \E q \in queued :
          /\ q.index = nextOut /\ \A r \in queued : q.index <= r.index
          /\ queued' = queued \ {q}
          /\ nextOut' = nextOut + 1
          /\ Return("Ok", q.id, q.index)
          /\ phase' = "idle"
     \/ /\ ~\E q \in queued : q.index = nextOut /\ \A r \in queued : q.index <= r.index
        /\ phase' = "loop"
        /\ UNCHANGED <<queued, nextOut, output>>
  /\ UNCHANGED <<peers, connected, added, toRequest, pending, nextIn, currentPeer, panic>>

\* A future is ready with an object.
Resolved_AnyOrder(f) ==
  /\ pending' = pending \ {f}
  /\ nextOut' = nextOut + 1
  /\ Return("Ok", f.id, f.index)
  /\ phase' = "idle"
  /\ UNCHANGED <<peers, connected, added, toRequest, queued, nextIn, currentPeer, panic>>
Resolved(f) ==
  /\ pending' = pending \ {f}
  /\ \/ /\ f.index = nextOut
        /\ nextOut' = nextOut + 1
        /\ Return("Ok", f.id, f.index)
        /\ phase' = "idle"
        /\ UNCHANGED queued
     \/ /\ f.index # nextOut
        /\ queued' = queued \cup {[id |-> f.id, index |-> f.index]}
        /\ UNCHANGED <<nextOut, output, phase>>
  /\ UNCHANGED <<peers, connected, added, toRequest, nextIn, currentPeer, panic>>

\* A future is ready without one: "If we tried all peers for this hash, return an
\* error", or else the request goes to the peer at the next position.
TriedAll_OneMore(f) == f.tries > Len(peers)
TriedAll(f) == f.tries >= Len(peers)

RequestAgain(f, next, agent) ==
  pending' = (pending \ {f}) \cup
               {[f EXCEPT !.peer = next, !.tries = @ + 1, !.agent = agent]}

ReturnErr(f) ==
  /\ pending' = pending \ {f}
  /\ Return("Err", f.id, f.index)
  /\ phase' = "idle"

Unresolved(f) ==
  LET position == (f.peer + 1) % Len(peers)
      next == GetNextPeer(position, pending \ {f})
  IN
  /\ \/ /\ TriedAll(f)
        /\ ReturnErr(f)
        /\ UNCHANGED <<peers, panic>>
     \/ /\ ~TriedAll(f)
        /\ peers' = next.peers
        /\ \/ next.result = "none" /\ ReturnErr(f) /\ UNCHANGED panic
           \/ next.result = "panic" /\ panic' = TRUE /\ UNCHANGED <<pending, output, phase>>
           \/ next.result = "some" /\ RequestAgain(f, position, next.agent) /\ UNCHANGED <<output, phase, panic>>
  /\ UNCHANGED <<connected, added, toRequest, queued, nextIn, nextOut, currentPeer>>

Answer(f) ==
  /\ phase = "loop" /\ ~panic
  /\ Resolved(f) \/ Unresolved(f)

\* No future is ready: Poll::Pending.
NothingReady ==
  /\ phase = "loop" /\ ~panic /\ pending # {}
  /\ phase' = "idle"
  /\ UNCHANGED <<peers, connected, lists, currentPeer, panic>>

\* No future is left: the stream ends, or requests more and is pending.
NothingPending ==
  /\ phase = "loop" /\ pending = {}
  /\ phase' = IF toRequest = <<>> \/ peers = <<>> THEN "idle" ELSE "repush"
  /\ UNCHANGED <<peers, connected, lists, currentPeer, panic>>

Next ==
  \/ \E p \in Peers : AddPeer(p) \/ PeerLeaves(p)
  \/ \E n \in 1 .. NumIds : AddIds(n)
  \/ \E len \in 0 .. NumIds : TruncateIds(len)
  \/ Poll \/ TryPushFutures \/ CheckQueued
  \/ \E f \in pending : Answer(f)
  \/ NothingReady \/ NothingPending

Spec == Init /\ [][Next]_vars

\* A poll ends, and every request is answered some time: a request has a timeout.
\* WF of Poll is asked of the owner.  The stream alone does not bring it about: where
\* poll_next requests more and returns Poll::Pending (repush), and where ids are added
\* after a poll, no future has been polled that would wake the task.
Fairness ==
  /\ WF_vars(Poll) /\ WF_vars(TryPushFutures) /\ WF_vars(CheckQueued)
  /\ WF_vars(NothingReady) /\ WF_vars(NothingPending)
  /\ \A i \in Ids : SF_vars(\E f \in pending : f.id = i /\ Answer(f))
FairSpec == Spec /\ Fairness

-----------------------------------------------------------------------------
(* Properties.                                                             *)

Item == [id : Ids, index : 0 .. NumIds - 1]
Wrapper == [id : Ids, index : 0 .. NumIds - 1, peer : 0 .. MaxPeers - 1,
            tries : 1 .. MaxPeers, agent : Peers]

\* Every field of the queue has its type.  The positions are those of a list of peers,
\* and an id is requested at most once more for every entry of that list.
TypeOK ==
  /\ peers \in Seq(Peers) /\ Len(peers) <= MaxPeers /\ connected \subseteq Peers
  /\ added \in 0 .. NumIds /\ toRequest \in Seq(Ids)
  /\ pending \subseteq Wrapper /\ queued \subseteq Item
  /\ nextIn \in 0 .. NumIds /\ nextOut \in 0 .. nextIn /\ currentPeer \in 0 .. MaxPeers - 1
  /\ output \in Seq([tag : {"Ok", "Err"}, id : Ids, index : 0 .. NumIds - 1])
  /\ phase \in Phases /\ panic \in BOOLEAN

Returned(tag) == {o.index : o \in {x \in Range(output) : x.tag = tag}}

\* "implements an ordered stream over the resulting objects": the objects returned are
\* those of the indices 0, 1, 2 ... in this order, and without a gap.
OutputsInOrder ==
  LET oks == SelectSeq(output, LAMBDA o : o.tag = "Ok") IN
  /\ Len(oks) = nextOut
  /\ \A k \in 1 .. Len(oks) : oks[k].index = k - 1

Numbered == pending \cup queued \cup Range(output)

\* An index that was given to a request is in flight, queued or returned, and only one
\* of them, however often it is requested again.  The indices follow the ids: ids are
\* numbered as the owner adds them, so the one of the smaller index was added earlier,
\* and those still to be requested later than all; an object is never returned at the
\* place of another id.
IndicesAccounted ==
  /\ {x.index : x \in Numbered} = 0 .. nextIn - 1
  /\ Cardinality(pending) + Cardinality(queued) + Len(output) = nextIn
  /\ \A x, y \in Numbered : x.index < y.index => x.id < y.id
  /\ \A x \in Numbered : \A i \in Range(toRequest) : x.id < i

\* No more than desired_pending_size objects are in memory or in flight.  A comment of
\* try_push_futures says the number "can be higher than the desired pending size (e.g.,
\* if there is an error and we re-request)"; a request made again takes the place of
\* the one that failed, and it is not.
PendingBounded == Cardinality(pending) + Cardinality(queued) <= DesiredSize

InQueue(i) ==
  \/ i \in Range(toRequest)
  \/ \E f \in pending : f.id = i
  \/ \E q \in queued : q.id = i

\* Every id is returned or cut off, unless the queue returns an error or get_next_peer
\* panics for want of peers.
IdsLeave ==
  \A i \in Ids : InQueue(i) ~> (~InQueue(i) \/ panic \/ Returned("Err") # {})

\* "implements an ordered stream over the resulting objects. The stream returns an
\* error if an id could not be resolved": an object that was received is returned.
ObjectsReturned ==
  \A i \in Ids : (\E q \in queued : q.id = i) ~> (panic \/ ~\E q \in queued : q.id = i)
=============================================================================
