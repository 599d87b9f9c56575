--------------------------- MODULE MCPublishQueue ----------------------------
(* The publish queue for TLC.                                              *)
EXTENDS PublishQueue, TLC

Symmetry == Permutations(Producers)

=============================================================================
