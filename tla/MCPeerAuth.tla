------------------------------ MODULE MCPeerAuth ------------------------------
(* Instances of PeerAuth for TLC.  Nothing tells one peerState object from  *)
(* another, so their permutations are a symmetry of the safety run.         *)
EXTENDS PeerAuth, TLC

Symmetry == Permutations(Objs)
===============================================================================
