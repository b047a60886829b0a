--------------------------- MODULE MCTunnelStreams ---------------------------
(***************************************************************************)
(* The connections of an instance are interchangeable.                     *)
(***************************************************************************)
EXTENDS TunnelStreams, TLC

Symmetry == Permutations(Conns)
=============================================================================
