---------------------------- MODULE MCTransport ----------------------------
(* The virtio transport for TLC; the lengths of the disk are alike.        *)
EXTENDS Transport, TLC

Symmetry == Permutations(Lengths)
=============================================================================
