--------------------------- MODULE MCHostDelivery ---------------------------
(***************************************************************************)
(* HostDelivery on small instances.                                        *)
(***************************************************************************)
EXTENDS HostDelivery, TLC

PeerSymmetry == Permutations(Peers)
=============================================================================
