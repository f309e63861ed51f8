---------------------------- MODULE MCPeerManager ----------------------------
(***************************************************************************)
(* Model-checking instance of PeerManager: the server and the client      *)
(* channel, three peers, and max_peers 2, so that a third peer arrives    *)
(* while two are connected and is dropped, from either channel, and two   *)
(* observers that register and are destroyed at any point.               *)
(***************************************************************************)
EXTENDS PeerManager

=============================================================================
