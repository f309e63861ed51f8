\* Both accept loops, three peers, max_peers 2, and two observers that
\* register (from another thread, at any point of the strand's handlers)
\* and are destroyed at any point; the observer takes the peer pointer by
\* const reference, so std::move leaves it to every observer.
CONSTANTS
  Sources = {server, client}
  Peers = {p1, p2, p3}
  Observers = {o1, o2}
  MaxPeers = 2
  PassByValue = FALSE
  NullPeer = NullPeer
SPECIFICATION Spec
\* Once every peer has been handled the manager waits on its channels for ever.
CHECK_DEADLOCK FALSE
INVARIANT TypeOK
INVARIANT ObserverViewSound
PROPERTY EveryPeerHandled
