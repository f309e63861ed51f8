\* Two observers that take the peer pointer by value: the loop's
\* std::move(peer) leaves the second observer an empty pointer.
CONSTANTS
  Sources = {server, client}
  Peers = {p1, p2}
  Observers = {o1, o2}
  MaxPeers = 1
  PassByValue = TRUE
  NullPeer = NullPeer
SPECIFICATION Spec
\* Once every peer has been handled the manager waits on its channels for ever.
CHECK_DEADLOCK FALSE
INVARIANT ObserverViewSound
