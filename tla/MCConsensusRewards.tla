------------------------- MODULE MCConsensusRewards -------------------------
(***************************************************************************)
(* Stakes, versions and payloads to check the consensus with.              *)
(***************************************************************************)
EXTENDS ConsensusRewards, TLC

CONSTANTS a, b, c

Setup(n, w) ==
    [stake |-> (a :> 2) @@ (b :> 1) @@ (c :> n), version |-> (a :> 1) @@ (b :> 1) @@ (c :> w)]

\* The last validator is below the minimum, outweighs the others together, or
\* runs another version.
MCSetups == {Setup(0, 1), Setup(3, 1), Setup(1, 2)}

\* Disagreeing votes, zeros, a miner without a run and a payload without votes.
MCPayloads ==
    {(1 :> 2) @@ (2 :> 0),
     (1 :> NoRun) @@ (2 :> 1),
     (0 :> 1) @@ (1 :> 0),
     (1 :> 0) @@ (2 :> NoRun),
     (1 :> NoRun)}
MCOthers == {(1 :> 2) @@ (2 :> 0)}
=============================================================================
