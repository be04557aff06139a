-------------------------- MODULE ConsensusRewards --------------------------
(***************************************************************************)
(* The rewards of one round's settlement (validator/settlement/            *)
(* consensus.py): each validator publishes the best run it knows of every  *)
(* miner on IPFS and commits the CID on chain; later it reads everyone's   *)
(* commitments, downloads the payloads one by one and averages what they   *)
(* say by stake.                                                           *)
(*                                                                         *)
(* The settlement of one validator, Self, is followed: it only reads what  *)
(* the others write, and they publish, late or never, while it does.  A    *)
(* CID names its content, so a commitment holds the payload itself.        *)
(* Rewards are small integers, and an average is a sum and the weight it   *)
(* is to be divided by.                                                    *)
(***************************************************************************)
EXTENDS Integers, FiniteSetsExt

CONSTANTS
    Validators,
    Self,
    Miners,         \* uids
    Rewards,        \* rewards of a best run
    NoRun,          \* a miner without one: its best_run is None
    Payloads,       \* what a validator may publish: votes for some miners
    Others,         \* the payloads of the rounds before and after
    Setups,         \* the stakes and software versions the validators may have
    MinStake,       \* MIN_VALIDATOR_STAKE_FOR_CONSENSUS_TAO
    Nothing,        \* no commitment
    Faults

AllFaults == {"PublishFails",   \* IPFS or the commitment fails
              "ReadFails",      \* the commitments cannot be read
              "DownloadFails",
              "Raises"}         \* the aggregation ends with an exception

ASSUME ConsensusAssumption ==
    /\ Self \in Validators
    /\ Miners \subseteq Nat
    /\ Rewards \subseteq Nat
    /\ NoRun \notin Rewards /\ Nothing \notin Payloads
    /\ Payloads \subseteq UNION {[A -> Rewards \cup {NoRun}] : A \in SUBSET Miners}
    /\ Others \subseteq Payloads
    /\ \A s \in Setups : s.stake \in [Validators -> Nat]
    /\ MinStake \in Nat
    /\ Faults \subseteq AllFaults

VARIABLES
    stake,          \* of each validator in the metagraph
    version,        \* major.minor of each validator's software
    chain,          \* the last commitment of each validator
    published,      \* the payload each one uploaded for this round
    pc,             \* where Self is in its settlement
    commits,        \* the commitments it read
    todo,           \* those it has still to look at
    compatible,     \* the validators whose payloads it downloaded and accepted
    left,           \* those of them it has still to add up
    counted,        \* those it added
    skipped,        \* those it left out for their zeros
    weighted_sum, weight_total

setup == <<stake, version>>
public == <<chain, published>>
tally == <<left, counted, skipped, weighted_sum, weight_total>>
vars == <<setup, public, pc, commits, todo, compatible, tally>>

Rounds == {"before", "now", "after"}
Entries == [round : Rounds, payload : Payloads]

-----------------------------------------------------------------------------
(* What a payload says.                                                    *)

\* _extract_metrics_from_payload: `get("uid") or get("miner_uid")` is None
\* for uid 0, and no payload has the second key.
Votes(p) == [m \in {n \in DOMAIN p \ {0} : p[n] # NoRun} |-> p[m]]

Positive(votes) == \E m \in DOMAIN votes : votes[m] # NoRun /\ votes[m] > 0

\* The flag validator_all_best_runs_zero of the publisher's summary.
AllZero(p) == DOMAIN p # {} /\ ~Positive(p)

\* _payload_declares_all_runs_zero
DeclaresZeros(p) == ~Positive(Votes(p)) /\ AllZero(p)

-----------------------------------------------------------------------------
(* Publishing.                                                             *)

Init ==
    /\ \E s \in Setups : stake = s.stake /\ version = s.version
    /\ chain \in [Validators -> {Nothing} \cup [round : {"before"}, payload : Others]]
    /\ published = [v \in Validators |-> Nothing]
    /\ pc = "publishing"
    /\ commits = [w \in {} |-> Nothing]
    /\ todo = {} /\ compatible = {} /\ left = {} /\ counted = {} /\ skipped = {}
    /\ weighted_sum = [m \in Miners |-> 0]
    /\ weight_total = [m \in Miners |-> 0]

\* publish_round_snapshot.  Its result is not looked at: the settlement goes on.
Publish(v) ==
    /\ published[v] = Nothing
    /\ \E p \in Payloads :
         /\ published' = [published EXCEPT ![v] = p]
         /\ \/ chain' = [chain EXCEPT ![v] = [round |-> "now", payload |-> p]]
            \/ "PublishFails" \in Faults /\ UNCHANGED chain
    /\ pc' = IF v = Self THEN "waiting" ELSE pc
    /\ UNCHANGED <<setup, commits, todo, compatible, tally>>

\* Another validator is already publishing its next round.
PublishNext(v) ==
    /\ v # Self /\ published[v] # Nothing
    /\ chain[v] # Nothing => chain[v].round # "after"
    /\ \E p \in Others :
         chain' = [chain EXCEPT ![v] = [round |-> "after", payload |-> p]]
    /\ UNCHANGED <<setup, published, pc, commits, todo, compatible, tally>>

-----------------------------------------------------------------------------
(* aggregate_scores_from_commitments.                                      *)

\* From the block of the fetch on.  The commitments are read at one moment;
\* when they cannot be there are none, and an exception ends the aggregation.
Read ==
    /\ pc = "waiting"
    /\ \/ LET found == {v \in Validators : chain[v] # Nothing} IN
            /\ commits' = [v \in found |-> chain[v]]
            /\ todo' = found
            /\ pc' = "downloading"
       \/ /\ "ReadFails" \in Faults
          /\ pc' = "downloading"
          /\ UNCHANGED <<commits, todo>>
       \/ /\ "Raises" \in Faults
          /\ pc' = "settled"
          /\ UNCHANGED <<commits, todo>>
    /\ UNCHANGED <<setup, public, compatible, tally>>

\* Mutant: the round of a commitment is not looked at.
Admitted_AnyRound(v) == stake[v] >= MinStake

Admitted(v) ==
    /\ commits[v].round = "now"
    /\ stake[v] >= MinStake

\* The payload is of the same major.minor version as the validator reading it.
Accepts(v) == Admitted(v) /\ version[v] = version[Self]

\* The next commitment: not wanted, downloaded in vain, or accepted.
Fetch ==
    /\ pc = "downloading"
    /\ \E v \in todo :
         /\ todo' = todo \ {v}
         /\ \/ ~Accepts(v) /\ UNCHANGED compatible
            \/ "DownloadFails" \in Faults /\ Admitted(v) /\ UNCHANGED compatible
            \/ Accepts(v) /\ compatible' = compatible \cup {v}
    /\ UNCHANGED <<setup, public, pc, commits, tally>>

\* Mutant: the second pass goes over all commitments.
AllFetched_Everyone ==
    /\ pc = "downloading" /\ todo = {}
    /\ left' = DOMAIN commits
    /\ pc' = "counting"
    /\ UNCHANGED <<setup, public, commits, todo, compatible,
                   counted, skipped, weighted_sum, weight_total>>

\* Mutant: the second pass waits for every payload that is wanted.
AllFetched_Waits ==
    /\ pc = "downloading" /\ todo = {}
    /\ compatible = {v \in DOMAIN commits : Accepts(v)}
    /\ left' = compatible
    /\ pc' = "counting"
    /\ UNCHANGED <<setup, public, commits, todo, compatible,
                   counted, skipped, weighted_sum, weight_total>>

AllFetched ==
    /\ pc = "downloading" /\ todo = {}
    /\ left' = compatible
    /\ pc' = "counting"
    /\ UNCHANGED <<setup, public, commits, todo, compatible,
                   counted, skipped, weighted_sum, weight_total>>

VotesOf(v) == Votes(commits[v].payload)

\* has_positive_best_run_signal
Signal == \E v \in compatible : Positive(VotesOf(v))

Weight(v) == IF stake[v] > 0 THEN stake[v] ELSE 1

\* Mutant: zeros are left out even if nobody has anything else.
LeftOut_Always(v) == DeclaresZeros(commits[v].payload)

\* Mutant: a payload with a zero for some miner is left out.
LeftOut_OneZero(v) == Signal /\ \E m \in DOMAIN VotesOf(v) : VotesOf(v)[m] = 0

\* Nothing but zeros, while another validator has a positive run.
LeftOut(v) == Signal /\ DeclaresZeros(commits[v].payload)

\* Mutant: every miner's sum is to be divided by the weight of all payloads.
Add_OneDivisor(v) ==
    LET votes == VotesOf(v) IN
    /\ weighted_sum' = [m \in Miners |->
           weighted_sum[m] + IF m \in DOMAIN votes THEN Weight(v) * votes[m] ELSE 0]
    /\ weight_total' = [m \in Miners |-> weight_total[m] + Weight(v)]

\* Mutant: the payloads are added without their weights.
Add_Unweighted(v) ==
    LET votes == VotesOf(v) IN
    /\ weighted_sum' = [m \in Miners |->
           weighted_sum[m] + IF m \in DOMAIN votes THEN votes[m] ELSE 0]
    /\ weight_total' = [m \in Miners |->
           weight_total[m] + IF m \in DOMAIN votes THEN 1 ELSE 0]

\* A payload goes into the sum and the weight of the miners it has a vote for.
Add(v) ==
    LET votes == VotesOf(v) IN
    /\ weighted_sum' = [m \in Miners |->
           weighted_sum[m] + IF m \in DOMAIN votes THEN Weight(v) * votes[m] ELSE 0]
    /\ weight_total' = [m \in Miners |->
           weight_total[m] + IF m \in DOMAIN votes THEN Weight(v) ELSE 0]

\* The second pass, one payload at a time; one without votes is ignored.  The
\* metrics that only the report shows are averaged alike and left out here.
Count ==
    /\ pc = "counting"
    /\ \E v \in left :
         /\ left' = left \ {v}
         /\ \/ /\ LeftOut(v)
               /\ skipped' = skipped \cup {v}
               /\ UNCHANGED <<counted, weighted_sum, weight_total>>
            \/ /\ ~LeftOut(v) /\ DOMAIN VotesOf(v) = {}
               /\ UNCHANGED <<counted, skipped, weighted_sum, weight_total>>
            \/ /\ ~LeftOut(v) /\ DOMAIN VotesOf(v) # {}
               /\ counted' = counted \cup {v}
               /\ Add(v)
               /\ UNCHANGED skipped
    /\ UNCHANGED <<setup, public, pc, commits, todo, compatible>>

\* A miner's reward is weighted_sum / weight_total, where there is a weight.
Settle ==
    /\ pc = "counting" /\ left = {}
    /\ pc' = "settled"
    /\ UNCHANGED <<setup, public, commits, todo, compatible, tally>>

Aggregate == Read \/ Fetch \/ AllFetched \/ Count \/ Settle

\* The settlement is over: the others may still be publishing.
Done == pc = "settled" /\ UNCHANGED vars

Next ==
    \/ \E v \in Validators : Publish(v) \/ PublishNext(v)
    \/ Aggregate
    \/ Done

\* The settlement is one coroutine that waits for the chain and for requests
\* with timeouts: it always goes on.
Fairness == WF_vars(Publish(Self)) /\ WF_vars(Aggregate)

Spec == Init /\ [][Next]_vars /\ Fairness

-----------------------------------------------------------------------------
(* Properties.                                                             *)

\* The state of the publication and of the aggregation.
TypeOK ==
    /\ stake \in [Validators -> Nat]
    /\ chain \in [Validators -> {Nothing} \cup Entries]
    /\ published \in [Validators -> {Nothing} \cup Payloads]
    /\ pc \in {"publishing", "waiting", "downloading", "counting", "settled"}
    /\ DOMAIN commits \subseteq Validators
    /\ \A v \in DOMAIN commits : commits[v] \in Entries
    /\ todo \subseteq DOMAIN commits
    /\ compatible \subseteq DOMAIN commits
    /\ left \subseteq compatible
    /\ counted \subseteq compatible
    /\ skipped \subseteq compatible
    /\ weighted_sum \in [Miners -> Nat]
    /\ weight_total \in [Miners -> Nat]

\* The payloads that count for a miner, said in one sentence: the accepted ones
\* with a vote for it, without the all-zero ones if there are others.
Voters(m) ==
    {v \in compatible :
        /\ m \in DOMAIN VotesOf(v)
        /\ \/ ~AllZero(commits[v].payload)
           \/ \A w \in compatible : ~Positive(VotesOf(w))}

\* "The consensus winner signal is the stake-weighted average of each
\* validator's published per-miner reward" (aggregate_scores_from_commitments):
\* over the validators that have a vote for the miner, in whatever order the
\* payloads were published, arrived and were added.
RewardIsTheAverage ==
    pc = "settled" => \A m \in Miners :
        /\ weight_total[m] = MapThenSumSet(Weight, Voters(m))
        /\ weighted_sum[m] = MapThenSumSet(LAMBDA v : Weight(v) * VotesOf(v)[m], Voters(m))

\* At no time is a miner's average above the highest or below the lowest vote
\* counted for it: no filter and no stake moves it out of what was published.
BetweenTheVotes ==
    \A m \in Miners, r \in Rewards :
        LET votes == {VotesOf(v)[m] : v \in {w \in counted : m \in DOMAIN VotesOf(w)}} IN
        /\ (\A q \in votes : q <= r) => weighted_sum[m] <= r * weight_total[m]
        /\ (\A q \in votes : q >= r) => weighted_sum[m] >= r * weight_total[m]

\* Leaving out the zeros silences no positive vote, and only a positive vote
\* makes a miner's reward positive: a settled reward is positive exactly if an
\* accepted payload says so.
PositiveIfSomeoneSaysSo ==
    pc = "settled" => \A m \in Miners :
        weighted_sum[m] > 0 <=>
            \E v \in compatible : m \in DOMAIN VotesOf(v) /\ VotesOf(v)[m] > 0

\* A validator is left out, and then takes its round back, only if it had no
\* positive run at all while one that is not left out had: zeros that everyone
\* publishes are the round's result.
LeftOutHadNothing ==
    \A v \in skipped :
        /\ AllZero(commits[v].payload)
        /\ \E w \in compatible \ skipped : Positive(VotesOf(w))

\* What is counted is what that validator published for this very round, and it
\* had the stake: neither an earlier commitment it left on the chain, nor the
\* next round's, nor one that changed while the payloads were downloaded.
CountedWerePublished ==
    \A v \in counted : commits[v].payload = published[v] /\ stake[v] >= MinStake

\* Self settles, whatever fails.
Settles == <>(pc = "settled")
=============================================================================
