-------------------------- MODULE MCLakeEpochCycle --------------------------
(* Three lake blocks, the first of them in epoch 0, and the drill's row. *)
EXTENDS LakeEpochCycle

MCCids == 1..3
MCDrill == {9}
=============================================================================
