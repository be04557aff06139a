------------------------------ MODULE MCWeights ------------------------------
(* A miner and the burn uid: a settlement pays the miner or burns it all. *)
EXTENDS Weights, TLC

MCUids == {1, 5}
===============================================================================
