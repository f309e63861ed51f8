----------------------------- MODULE PeerManager -----------------------------
(***************************************************************************)
(* The sentry's PeerManager (src/sentry/silkworm/sentry/peer_manager.cpp).*)
(*                                                                         *)
(* Two accept loops, one on the rlpx server's peer channel and one on the *)
(* client's, run in one strand: each receives a peer and either spawns    *)
(* drop_peer (when max_peers_ peers are connected) or appends it to       *)
(* peers_, tells the observers, and spawns start_peer.  start_peer runs   *)
(* Peer::start until it ends or throws, then removes the peer and tells   *)
(* the observers.  The strand runs one handler at a time, so nothing     *)
(* else of the strand runs between two co_awaits.  add_observer is       *)
(* called from other threads under observers_mutex_, which does not cover *)
(* peers_: a registration can fall between push_back (51) and the        *)
(* observers() snapshot of on_peer_added (52), or between peers_.remove   *)
(* (70) and the snapshot of on_peer_removed (71), so those are separate   *)
(* steps here.  Observers are held as weak_ptrs and can be destroyed at   *)
(* any time.  Notifications pass std::move(peer) inside the loop over     *)
(* observers; whether that empties the pointer depends on how             *)
(* PeerManagerObserver takes it, which is not in the source               *)
(* (PassByValue).  Peers and observers are abstracted to identities, and  *)
(* each observer to the notifications it has received.                   *)
(***************************************************************************)
EXTENDS Naturals, FiniteSets, SequencesExt

CONSTANTS
  Sources,      \* the peer channels: the rlpx server's and the client's
  Peers,        \* the peers the rlpx server and client may hand over
  Observers,    \* the PeerManagerObservers that may register
  MaxPeers,     \* max_peers_
  PassByValue,  \* whether on_peer_added/removed take the shared_ptr by value
  NullPeer      \* the empty std::shared_ptr<rlpx::Peer> left by std::move

ASSUME MaxPeers \in Nat \ {0}
ASSUME PassByValue \in BOOLEAN
ASSUME NullPeer \notin Peers

VARIABLES
  chan,       \* [Sources -> peers sent on the channel and not yet received]
  arrived,    \* peers that have been sent on a channel
  peers,      \* peers_
  loop,       \* [Sources -> "receive", or "notify" between push_back and on_peer_added]
  pending,    \* [Sources -> the peer the loop is adding]
  task,       \* [Peers -> "none", "start", "removed" (between peers_.remove and
              \*  on_peer_removed), "drop" or "done"]
  observers,  \* observers_: the registered weak_ptrs, in registration order
  alive,      \* observers that have not been destroyed (weak_ptr::lock succeeds)
  notes,      \* [Observers -> the notifications received, in order]
  early       \* [Observers -> peers_ when the observer registered]

vars == <<chan, arrived, peers, loop, pending, task, observers, alive, notes, early>>

Init ==
  /\ chan = [s \in Sources |-> <<>>]
  /\ arrived = {}
  /\ peers = {}
  /\ loop = [s \in Sources |-> "receive"]
  /\ pending = [s \in Sources |-> NullPeer]
  /\ task = [p \in Peers |-> "none"]
  /\ observers = <<>>
  /\ alive = Observers
  /\ notes = [o \in Observers |-> <<>>]
  /\ early = [o \in Observers |-> {}]

-----------------------------------------------------------------------------
(* The strand is between handlers: no loop or start_peer is inside a run  *)
(* of code without a co_await.                                             *)
StrandIdle ==
  /\ \A s \in Sources : loop[s] = "receive"
  /\ \A p \in Peers : task[p] # "removed"

(* observers(): the registered observers whose weak_ptr still locks, in   *)
(* registration order.                                                     *)
IsAlive(o) == o \in alive

LockedObservers == SelectSeq(observers, IsAlive)

(* The pointer the k-th observer of the loop receives: std::move(peer)    *)
(* empties peer at the first call when the parameter is a value.          *)
Passed(k, p) == IF PassByValue /\ k > 1 THEN NullPeer ELSE p

(* on_peer_added / on_peer_removed: the snapshot is taken under           *)
(* observers_mutex_ and each observer of it, kept alive by its            *)
(* shared_ptr, is called in turn.                                          *)
Notify(kind, p) ==
  LET snap == LockedObservers
      k(o) == CHOOSE i \in DOMAIN snap : snap[i] = o
  IN notes' = [o \in Observers |->
                 IF o \in ToSet(snap)
                 THEN Append(notes[o], [kind |-> kind, peer |-> Passed(k(o), p)])
                 ELSE notes[o]]

-----------------------------------------------------------------------------
(* The rlpx server or client hands a new peer over on its channel.        *)
Handover(s, p) ==
  /\ p \notin arrived
  /\ chan' = [chan EXCEPT ![s] = Append(@, p)]
  /\ arrived' = arrived \cup {p}
  /\ UNCHANGED <<peers, loop, pending, task, observers, alive, notes, early>>

\* Mutation: a peer received while full is neither added nor dropped.
Receive_nodrop(s) ==
  /\ StrandIdle
  /\ chan[s] # <<>>
  /\ LET p == Head(chan[s]) IN
       /\ chan' = [chan EXCEPT ![s] = Tail(@)]
       /\ IF Cardinality(peers) >= MaxPeers
            THEN UNCHANGED <<peers, loop, pending, task>>
            ELSE /\ peers' = peers \cup {p}
                 /\ loop' = [loop EXCEPT ![s] = "notify"]
                 /\ pending' = [pending EXCEPT ![s] = p]
                 /\ UNCHANGED task
  /\ UNCHANGED <<arrived, observers, alive, notes, early>>

\* Mutation: push_back left out of the loop.
Receive_nopush(s) ==
  /\ StrandIdle
  /\ chan[s] # <<>>
  /\ LET p == Head(chan[s]) IN
       /\ chan' = [chan EXCEPT ![s] = Tail(@)]
       /\ IF Cardinality(peers) >= MaxPeers
            THEN /\ task' = [task EXCEPT ![p] = "drop"]
                 /\ UNCHANGED <<loop, pending>>
            ELSE /\ loop' = [loop EXCEPT ![s] = "notify"]
                 /\ pending' = [pending EXCEPT ![s] = p]
                 /\ UNCHANGED task
  /\ UNCHANGED <<peers, arrived, observers, alive, notes, early>>

(* start_in_strand on channel s, from receive() to push_back: when        *)
(* max_peers_ are connected drop_peer is spawned and the loop goes on,    *)
(* else the peer is appended to peers_.                                    *)
Receive(s) ==
  /\ StrandIdle
  /\ chan[s] # <<>>
  /\ LET p == Head(chan[s]) IN
       /\ chan' = [chan EXCEPT ![s] = Tail(@)]
       /\ IF Cardinality(peers) >= MaxPeers
            THEN /\ task' = [task EXCEPT ![p] = "drop"]
                 /\ UNCHANGED <<peers, loop, pending>>
            ELSE /\ peers' = peers \cup {p}
                 /\ loop' = [loop EXCEPT ![s] = "notify"]
                 /\ pending' = [pending EXCEPT ![s] = p]
                 /\ UNCHANGED task
  /\ UNCHANGED <<arrived, observers, alive, notes, early>>

(* The rest of the iteration: on_peer_added, then start_peer spawned.     *)
PeerAdded(s) ==
  /\ loop[s] = "notify"
  /\ Notify("added", pending[s])
  /\ task' = [task EXCEPT ![pending[s]] = "start"]
  /\ loop' = [loop EXCEPT ![s] = "receive"]
  /\ pending' = [pending EXCEPT ![s] = NullPeer]
  /\ UNCHANGED <<chan, arrived, peers, observers, alive, early>>

(* start_peer after co_await Peer::start returns, is cancelled or throws  *)
(* (every outcome is caught): peers_.remove.                              *)
StartPeer(p) ==
  /\ StrandIdle
  /\ task[p] = "start"
  /\ peers' = peers \ {p}
  /\ task' = [task EXCEPT ![p] = "removed"]
  /\ UNCHANGED <<chan, arrived, loop, pending, observers, alive, notes, early>>

\* Mutation: start_peer ends without on_peer_removed.
PeerRemoved_nonotify(p) ==
  /\ task[p] = "removed"
  /\ task' = [task EXCEPT ![p] = "done"]
  /\ UNCHANGED <<chan, arrived, peers, loop, pending, observers, alive, notes, early>>

(* The end of start_peer: on_peer_removed.                                *)
PeerRemoved(p) ==
  /\ task[p] = "removed"
  /\ Notify("removed", p)
  /\ task' = [task EXCEPT ![p] = "done"]
  /\ UNCHANGED <<chan, arrived, peers, loop, pending, observers, alive, early>>

(* drop_peer: Peer::drop returns, is cancelled or throws.                 *)
DropPeer(p) ==
  /\ StrandIdle
  /\ task[p] = "drop"
  /\ task' = [task EXCEPT ![p] = "done"]
  /\ UNCHANGED <<chan, arrived, peers, loop, pending, observers, alive, notes, early>>

(* add_observer, from another thread, under observers_mutex_ only.        *)
AddObserver(o) ==
  /\ o \in alive
  /\ o \notin ToSet(observers)
  /\ observers' = Append(observers, o)
  /\ early' = [early EXCEPT ![o] = peers]
  /\ UNCHANGED <<chan, arrived, peers, loop, pending, task, alive, notes>>

(* The observer's owner destroys it; its weak_ptr no longer locks.        *)
DestroyObserver(o) ==
  /\ o \in alive
  /\ alive' = alive \ {o}
  /\ UNCHANGED <<chan, arrived, peers, loop, pending, task, observers, notes, early>>

Next ==
  \/ \E s \in Sources, p \in Peers : Handover(s, p)
  \/ \E s \in Sources : Receive(s) \/ PeerAdded(s)
  \/ \E p \in Peers : StartPeer(p) \/ PeerRemoved(p) \/ DropPeer(p)
  \/ \E o \in Observers : AddObserver(o) \/ DestroyObserver(o)

(* The strand runs every ready handler: an accept loop whose receive()    *)
(* has a peer waiting gets to run, and a handler inside a run of code     *)
(* without a co_await finishes it.  Peer::start and Peer::drop may last   *)
(* for ever, so the peer tasks' ends get no fairness.                      *)
Fairness ==
  /\ \A s \in Sources : WF_vars(Receive(s)) /\ WF_vars(PeerAdded(s))
  /\ \A p \in Peers : WF_vars(PeerRemoved(p))

Spec == Init /\ [][Next]_vars /\ Fairness

-----------------------------------------------------------------------------
Note == [kind : {"added", "removed"}, peer : Peers \cup {NullPeer}]

(* Every variable holds a value of its type, and a loop between           *)
(* push_back and on_peer_added is adding a connected peer.                 *)
TypeOK ==
  /\ chan \in [Sources -> Seq(Peers)]
  /\ arrived \subseteq Peers
  /\ peers \subseteq Peers
  /\ loop \in [Sources -> {"receive", "notify"}]
  /\ pending \in [Sources -> Peers \cup {NullPeer}]
  /\ \A s \in Sources : loop[s] = "notify" => pending[s] \in peers
  /\ task \in [Peers -> {"none", "start", "removed", "drop", "done"}]
  /\ observers \in Seq(Observers)
  /\ alive \subseteq Observers
  /\ notes \in [Observers -> Seq(Note)]
  /\ early \in [Observers -> SUBSET Peers]

(* The peers an observer holds as connected: those whose last             *)
(* notification to it was on_peer_added.                                   *)
Held(o) ==
  {q \in Peers \cup {NullPeer} :
     LET I == {i \in DOMAIN notes[o] : notes[o][i].peer = q}
     IN I # {} /\ notes[o][Max(I)].kind = "added"}

(* Whenever the strand is between handlers, every registered observer    *)
(* that is alive holds no peer that has left peers_, and every peer added *)
(* to peers_ after it registered: however add_observer on another thread *)
(* falls between push_back and on_peer_added or between peers_.remove and *)
(* on_peer_removed, and with every observer of the loop handed the peer.  *)
ObserverViewSound ==
  StrandIdle =>
    \A o \in ToSet(observers) \cap alive :
      peers \ early[o] \subseteq Held(o) /\ Held(o) \subseteq peers

(* An observer is told of a peer's removal only after being told of its   *)
(* addition.                                                               *)
RemovalsFollowAdditions ==
  \A o \in Observers : \A i \in DOMAIN notes[o] :
    notes[o][i].kind = "removed" =>
      \E j \in 1..(i - 1) : notes[o][j] = [kind |-> "added", peer |-> notes[o][i].peer]

(* Every peer the server or client hands over is eventually received and *)
(* given a start_peer or drop_peer task, also while max_peers_ are       *)
(* connected.                                                             *)
EveryPeerHandled == \A p \in Peers : p \in arrived ~> task[p] # "none"

=============================================================================
