\* One observer that registers while a peer is connected, or between
\* peers_.remove and on_peer_removed: it is told of a removal it never saw
\* the addition of.
CONSTANTS
  Sources = {server, client}
  Peers = {p1, p2}
  Observers = {o1}
  MaxPeers = 1
  PassByValue = FALSE
  NullPeer = NullPeer
SPECIFICATION Spec
\* Once every peer has been handled the manager waits on its channels for ever.
CHECK_DEADLOCK FALSE
INVARIANT RemovalsFollowAdditions
