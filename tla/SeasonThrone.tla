---------------------------- MODULE SeasonThrone ----------------------------
(***************************************************************************)
(* What the season promises its miners, without settlement stages, files   *)
(* or restarts: rounds are played, each miner's best reward is kept, and   *)
(* after every round the throne goes to whoever clears the bar of the      *)
(* reigning leader, whose own bar is the reward it took the throne with.   *)
(***************************************************************************)
EXTENDS Integers

CONSTANTS Miners, Rewards, Pct

VARIABLES
    throne,     \* the leader, [uid, reward]
    record,     \* the best reward of each miner this season
    open        \* a round was played and the throne not yet decided

vars == <<throne, record, open>>

Vacant == [uid |-> -1, reward |-> 0]
Clears(reward, bar) == reward * 100 > bar * (100 + Pct)

\* The miners of S nobody in S surpasses.
Leading(S) == {m \in S : \A n \in S : record[n] <= record[m]}

Init ==
    /\ throne = Vacant
    /\ record = [m \in Miners |-> 0]
    /\ open = FALSE

\* A round: any miners improve their records, at least one has a record.
Play ==
    /\ ~open
    /\ \E new \in [Miners -> Rewards \cup {0}] :
         /\ \A m \in Miners : new[m] >= record[m]
         /\ \E m \in Miners : new[m] > 0
         /\ record' = new
    /\ open' = TRUE
    /\ UNCHANGED throne

\* The throne is taken when vacant, lost to the best rival that clears the
\* bar, and kept otherwise.
Decide ==
    /\ open
    /\ open' = FALSE
    /\ LET rivals == {m \in Miners \ {throne.uid} : Clears(record[m], throne.reward)}
       IN  IF rivals = {} THEN throne' = throne
           ELSE \E m \in Leading(rivals) : throne' = [uid |-> m, reward |-> record[m]]
    /\ UNCHANGED record

Next == Play \/ Decide

Spec == Init /\ [][Next]_vars
=============================================================================
