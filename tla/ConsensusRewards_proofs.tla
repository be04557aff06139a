----------------------- MODULE ConsensusRewards_proofs -----------------------
(***************************************************************************)
(* What holds of a settlement for any validators, stakes, versions,        *)
(* payloads and faults.                                                    *)
(***************************************************************************)
EXTENDS ConsensusRewards, SumTheorems

-----------------------------------------------------------------------------
(* What a step changes.                                                    *)

\* A vote read from a payload is a reward of a miner.
LEMMA VotesType ==
    ASSUME NEW p \in Payloads
    PROVE  /\ DOMAIN Votes(p) \subseteq Miners
           /\ \A m \in DOMAIN Votes(p) : Votes(p)[m] \in Rewards /\ Votes(p)[m] \in Nat
<1> USE ConsensusAssumption DEF ConsensusAssumption
<1>1. PICK A \in SUBSET Miners : p \in [A -> Rewards \cup {NoRun}]
  OBVIOUS
<1> QED
  BY <1>1 DEF Votes

\* The weight of a validator is positive.
LEMMA WeightType ==
    ASSUME stake \in [Validators -> Nat], NEW v \in Validators
    PROVE  Weight(v) \in Nat /\ Weight(v) > 0
BY DEF Weight

\* What an addition does to one miner.
LEMMA AddType ==
    ASSUME TypeOK, NEW v \in DOMAIN commits, Add(v)
    PROVE  weighted_sum' \in [Miners -> Nat] /\ weight_total' \in [Miners -> Nat]
<1>1. commits[v].payload \in Payloads /\ v \in Validators
  BY DEF TypeOK, Entries
<1>2. Weight(v) \in Nat
  BY <1>1, WeightType DEF TypeOK
<1>3. \A m \in DOMAIN VotesOf(v) : VotesOf(v)[m] \in Nat
  BY <1>1, VotesType DEF VotesOf
<1>4. \A m \in DOMAIN VotesOf(v) : Weight(v) * VotesOf(v)[m] \in Nat
  BY <1>2, <1>3
<1>5. weighted_sum' \in [Miners -> Nat]
  BY <1>4 DEF Add, TypeOK
<1>6. weight_total' \in [Miners -> Nat]
  BY <1>2 DEF Add, TypeOK
<1> QED
  BY <1>5, <1>6

\* Nothing is accepted before the commitments are read, and nothing is added
\* before all of them are downloaded.
Phases ==
    /\ pc = "publishing" <=> published[Self] = Nothing
    /\ pc \in {"publishing", "waiting"} => commits = [w \in {} |-> Nothing] /\ compatible = {}
    /\ pc \in {"publishing", "waiting", "downloading"} =>
          /\ left = {} /\ counted = {} /\ skipped = {}
          /\ weighted_sum = [m \in Miners |-> 0]
          /\ weight_total = [m \in Miners |-> 0]

LEMMA PhasesStep == TypeOK /\ Phases /\ [Next]_vars => Phases'
<1> SUFFICES ASSUME TypeOK, Phases, [Next]_vars PROVE Phases'
  OBVIOUS
<1> USE ConsensusAssumption DEF ConsensusAssumption
<1>1. ASSUME NEW v \in Validators, Publish(v) PROVE Phases'
  <2>1. CASE v = Self
    BY <1>1, <2>1 DEF Publish, Phases, TypeOK, setup, tally
  <2>2. CASE v # Self
    BY <1>1, <2>2 DEF Publish, Phases, TypeOK, setup, tally
  <2> QED
    BY <2>1, <2>2
<1>2. ASSUME NEW v \in Validators, PublishNext(v) PROVE Phases'
  BY <1>2 DEF PublishNext, Phases, setup, tally
<1>3. CASE Read
  BY <1>3 DEF Read, Phases, setup, public, tally
<1>4. CASE Fetch
  BY <1>4 DEF Fetch, Phases, setup, public, tally
<1>5. CASE AllFetched
  BY <1>5 DEF AllFetched, Phases, setup, public
<1>6. CASE Count
  BY <1>6 DEF Count, Phases, setup, public
<1>7. CASE Settle
  BY <1>7 DEF Settle, Phases, setup, public, tally
<1>8. CASE UNCHANGED vars
  BY <1>8 DEF vars, Phases, setup, public, tally
<1> QED
  BY <1>1, <1>2, <1>3, <1>4, <1>5, <1>6, <1>7, <1>8 DEF Next, Aggregate, Done

\* Every step keeps the types.
LEMMA TypeStep == TypeOK /\ Phases /\ [Next]_vars => TypeOK'
<1> SUFFICES ASSUME TypeOK, Phases, [Next]_vars PROVE TypeOK'
  OBVIOUS
<1> USE ConsensusAssumption DEF ConsensusAssumption
<1>1. ASSUME NEW v \in Validators, Publish(v) PROVE TypeOK'
  BY <1>1 DEF Publish, TypeOK, Entries, Rounds, setup, tally
<1>2. ASSUME NEW v \in Validators, PublishNext(v) PROVE TypeOK'
  BY <1>2 DEF PublishNext, TypeOK, Entries, Rounds, setup, tally
<1>3. CASE Read
  <2>1. CASE UNCHANGED <<commits, todo>>
    BY <1>3, <2>1 DEF Read, TypeOK, setup, public, tally
  <2>2. CASE ~UNCHANGED <<commits, todo>>
    <3> DEFINE found == {v \in Validators : chain[v] # Nothing}
    <3>1. /\ commits' = [v \in found |-> chain[v]]
          /\ todo' = found
          /\ pc' = "downloading"
          /\ UNCHANGED <<setup, public, compatible, tally>>
      BY <1>3, <2>2 DEF Read
    <3>2. compatible = {} /\ left = {} /\ counted = {} /\ skipped = {}
      BY <1>3 DEF Read, Phases
    <3> QED
      BY <3>1, <3>2 DEF TypeOK, setup, public, tally
  <2> QED
    BY <2>1, <2>2
<1>4. CASE Fetch
  BY <1>4 DEF Fetch, TypeOK, setup, public, tally
<1>5. CASE AllFetched
  BY <1>5 DEF AllFetched, TypeOK, setup, public
<1>6. CASE Count
  BY <1>6, AddType DEF Count, TypeOK, setup, public
<1>7. CASE Settle
  BY <1>7 DEF Settle, TypeOK, setup, public, tally
<1>8. CASE UNCHANGED vars
  BY <1>8 DEF vars, TypeOK, setup, public, tally
<1> QED
  BY <1>1, <1>2, <1>3, <1>4, <1>5, <1>6, <1>7, <1>8 DEF Next, Aggregate, Done

\* What a settlement has read and accepted.
Accepted ==
    /\ \A v \in Validators :
         chain[v] # Nothing /\ chain[v].round = "now" => chain[v].payload = published[v]
    /\ \A v \in DOMAIN commits :
         commits[v].round = "now" => commits[v].payload = published[v]
    /\ \A v \in compatible : Admitted(v)

\* A published payload is never replaced by another of the same round.
LEMMA AcceptedStep == TypeOK /\ Phases /\ Accepted /\ [Next]_vars => Accepted'
<1> SUFFICES ASSUME TypeOK, Phases, Accepted, [Next]_vars PROVE Accepted'
  OBVIOUS
<1> USE ConsensusAssumption DEF ConsensusAssumption
<1>1. ASSUME NEW v \in Validators, Publish(v) PROVE Accepted'
  <2>1. PICK p \in Payloads :
          /\ published' = [published EXCEPT ![v] = p]
          /\ \/ chain' = [chain EXCEPT ![v] = [round |-> "now", payload |-> p]]
             \/ UNCHANGED chain
    BY <1>1 DEF Publish
  <2>2. published[v] = Nothing /\ UNCHANGED <<stake, commits, compatible>>
    BY <1>1 DEF Publish, setup
  <2>3. \A w \in Validators :
          chain[w] # Nothing /\ chain[w].round = "now" => published[w] # Nothing
    BY DEF Accepted, TypeOK, Entries
  <2>4. \A w \in DOMAIN commits : commits[w].round = "now" => published[w] # Nothing
    BY DEF Accepted, TypeOK, Entries
  <2>5. ASSUME NEW w \in Validators, chain'[w] # Nothing, chain'[w].round = "now"
        PROVE  chain'[w].payload = published'[w]
    <3>1. CASE w = v
      BY <2>1, <2>2, <2>3, <2>5, <3>1 DEF TypeOK
    <3>2. CASE w # v
      BY <2>1, <2>5, <3>2 DEF Accepted, TypeOK
    <3> QED
      BY <3>1, <3>2
  <2>6. ASSUME NEW w \in DOMAIN commits, commits[w].round = "now"
        PROVE  commits[w].payload = published'[w]
    BY <2>1, <2>2, <2>4, <2>6 DEF Accepted, TypeOK
  <2>7. \A w \in compatible : Admitted(w)'
    BY <2>2 DEF Accepted, Admitted
  <2> QED
    BY <2>2, <2>5, <2>6, <2>7 DEF Accepted
<1>2. ASSUME NEW v \in Validators, PublishNext(v) PROVE Accepted'
  BY <1>2 DEF PublishNext, Accepted, Admitted, TypeOK, setup
<1>3. CASE Read
  <2>1. compatible' = {} /\ UNCHANGED <<chain, published>>
    BY <1>3 DEF Read, Phases, public
  <2>2. \A v \in DOMAIN commits' :
          (v \in DOMAIN commits /\ commits'[v] = commits[v]) \/
          (v \in Validators /\ chain[v] # Nothing /\ commits'[v] = chain[v])
    <3>1. CASE UNCHANGED commits
      BY <3>1
    <3>2. CASE ~UNCHANGED commits
      <4> DEFINE found == {v \in Validators : chain[v] # Nothing}
      <4>1. commits' = [v \in found |-> chain[v]]
        BY <1>3, <3>2 DEF Read
      <4> QED
        BY <4>1
    <3> QED
      BY <3>1, <3>2
  <2> QED
    BY <2>1, <2>2 DEF Accepted
<1>4. CASE Fetch
  BY <1>4 DEF Fetch, Accepts, Accepted, Admitted, setup, public
<1>5. CASE AllFetched
  BY <1>5 DEF AllFetched, Accepted, Admitted, setup, public
<1>6. CASE Count
  BY <1>6 DEF Count, Accepted, Admitted, setup, public
<1>7. CASE Settle
  BY <1>7 DEF Settle, Accepted, Admitted, setup, public
<1>8. CASE UNCHANGED vars
  BY <1>8 DEF vars, Accepted, Admitted, setup, public
<1> QED
  BY <1>1, <1>2, <1>3, <1>4, <1>5, <1>6, <1>7, <1>8 DEF Next, Aggregate, Done

-----------------------------------------------------------------------------
(* The two passes.                                                         *)

\* Every accepted payload is still to be added, or was added, left out or
\* without votes; and a left out one satisfied the rule.
Sorted ==
    /\ pc \in {"counting", "settled"} => \A v \in compatible :
          v \in left \cup counted \cup skipped \/ DOMAIN VotesOf(v) = {}
    /\ pc = "settled" => left = {}
    /\ \A v \in skipped : LeftOut(v)

LEMMA SortedStep == TypeOK /\ Phases /\ Sorted /\ [Next]_vars => Sorted'
<1> SUFFICES ASSUME TypeOK, Phases, Sorted, [Next]_vars PROVE Sorted'
  OBVIOUS
<1>1. ASSUME NEW v \in Validators, Publish(v) PROVE Sorted'
  <2>1. UNCHANGED <<commits, compatible, left, counted, skipped>>
    BY <1>1 DEF Publish, tally
  <2>2. pc' \in {"publishing", "waiting"} \/ pc' = pc
    BY <1>1 DEF Publish
  <2> QED
    BY <2>1, <2>2 DEF Sorted, Phases, VotesOf, LeftOut, Signal
<1>2. ASSUME NEW v \in Validators, PublishNext(v) PROVE Sorted'
  BY <1>2 DEF PublishNext, Sorted, VotesOf, LeftOut, Signal, tally
<1>3. CASE Read
  BY <1>3 DEF Read, Sorted, Phases, tally
<1>4. CASE Fetch
  BY <1>4 DEF Fetch, Sorted, Phases, tally
<1>5. CASE AllFetched
  BY <1>5 DEF AllFetched, Sorted, Phases, VotesOf, LeftOut, Signal
<1>6. CASE Count
  BY <1>6 DEF Count, Sorted, VotesOf, LeftOut, Signal
<1>7. CASE Settle
  BY <1>7 DEF Settle, Sorted, VotesOf, LeftOut, Signal, tally
<1>8. CASE UNCHANGED vars
  BY <1>8 DEF vars, Sorted, VotesOf, LeftOut, Signal, tally
<1> QED
  BY <1>1, <1>2, <1>3, <1>4, <1>5, <1>6, <1>7, <1>8 DEF Next, Aggregate, Done

\* The sums are positive where an added payload has a positive vote.
SumsArePositive ==
    \A m \in Miners : weighted_sum[m] > 0 <=>
        \E v \in counted : m \in DOMAIN VotesOf(v) /\ VotesOf(v)[m] > 0

\* What holds of the sums is disturbed by an addition only: any other step
\* leaves them alone, and the payloads they come from.
LEMMA OnlyAddMatters ==
    ASSUME TypeOK, Phases, [Next]_vars
    PROVE  \/ /\ UNCHANGED <<counted, weighted_sum, weight_total>>
              /\ \A v \in counted : commits'[v] = commits[v]
           \/ \E v \in compatible \cap left :
                /\ commits' = commits
                /\ counted' = counted \cup {v}
                /\ UNCHANGED stake
                /\ Add(v)
<1>1. ASSUME NEW v \in Validators, Publish(v) \/ PublishNext(v)
      PROVE  UNCHANGED <<counted, weighted_sum, weight_total, commits>>
  BY <1>1 DEF Publish, PublishNext, tally
<1>2. CASE Read
  BY <1>2 DEF Read, Phases, tally
<1>3. CASE Fetch
  BY <1>3 DEF Fetch, tally
<1>4. CASE AllFetched
  BY <1>4 DEF AllFetched
<1>5. CASE Count
  BY <1>5 DEF Count, TypeOK, setup
<1>6. CASE Settle
  BY <1>6 DEF Settle, tally
<1>7. CASE UNCHANGED vars
  BY <1>7 DEF vars, tally
<1> QED
  BY <1>1, <1>2, <1>3, <1>4, <1>5, <1>6, <1>7 DEF Next, Aggregate, Done

LEMMA PositiveStep ==
    TypeOK /\ Phases /\ SumsArePositive /\ [Next]_vars => SumsArePositive'
<1> SUFFICES ASSUME TypeOK, Phases, SumsArePositive, [Next]_vars PROVE SumsArePositive'
  OBVIOUS
<1>1. CASE /\ UNCHANGED <<counted, weighted_sum, weight_total>>
           /\ \A v \in counted : commits'[v] = commits[v]
  BY <1>1 DEF SumsArePositive, VotesOf
<1>2. ASSUME NEW v \in compatible \cap left, commits' = commits, counted' = counted \cup {v},
             UNCHANGED stake, Add(v)
      PROVE  SumsArePositive'
  <2>1. v \in DOMAIN commits /\ v \in Validators /\ commits[v].payload \in Payloads
    BY DEF TypeOK, Entries
  <2>2. Weight(v) \in Nat /\ Weight(v) > 0
    BY <2>1, WeightType DEF TypeOK
  <2> SUFFICES ASSUME NEW m \in Miners
               PROVE  weighted_sum'[m] > 0 <=>
                        \E w \in counted' : m \in DOMAIN VotesOf(w) /\ VotesOf(w)[m] > 0
    BY <1>2 DEF SumsArePositive, VotesOf
  <2>3. weighted_sum[m] \in Nat
    BY DEF TypeOK
  <2>4. CASE m \in DOMAIN VotesOf(v)
    <3> DEFINE q == VotesOf(v)[m]
    <3>1. q \in Nat
      BY <2>1, <2>4, VotesType DEF VotesOf
    <3>2. weighted_sum'[m] = weighted_sum[m] + Weight(v) * q
      BY <1>2, <2>4 DEF Add
    <3>3. Weight(v) * q \in Nat /\ (Weight(v) * q > 0 <=> q > 0)
      BY <2>2, <3>1
    <3>4. weighted_sum'[m] > 0 <=> weighted_sum[m] > 0 \/ q > 0
      BY <2>3, <3>2, <3>3
    <3> QED
      BY <1>2, <2>4, <3>4 DEF SumsArePositive
  <2>5. CASE m \notin DOMAIN VotesOf(v)
    <3>1. weighted_sum'[m] = weighted_sum[m]
      BY <1>2, <2>3, <2>5 DEF Add
    <3> QED
      BY <1>2, <2>5, <3>1 DEF SumsArePositive
  <2> QED
    BY <2>4, <2>5
<1> QED
  BY <1>1, <1>2, OnlyAddMatters

\* An addition keeps every bound of the votes a bound of the average.
LEMMA BetweenStep ==
    TypeOK /\ Phases /\ BetweenTheVotes /\ [Next]_vars => BetweenTheVotes'
<1> SUFFICES ASSUME TypeOK, Phases, BetweenTheVotes, [Next]_vars PROVE BetweenTheVotes'
  OBVIOUS
<1> USE ConsensusAssumption DEF ConsensusAssumption
<1>1. CASE /\ UNCHANGED <<counted, weighted_sum, weight_total>>
           /\ \A v \in counted : commits'[v] = commits[v]
  BY <1>1 DEF BetweenTheVotes, VotesOf
<1>2. ASSUME NEW v \in compatible \cap left, commits' = commits, counted' = counted \cup {v},
             UNCHANGED stake, Add(v)
      PROVE  BetweenTheVotes'
  <2>1. v \in DOMAIN commits /\ v \in Validators /\ commits[v].payload \in Payloads
    BY DEF TypeOK, Entries
  <2>2. Weight(v) \in Nat
    BY <2>1, WeightType DEF TypeOK
  <2> SUFFICES ASSUME NEW m \in Miners, NEW r \in Rewards
      PROVE  /\ (\A w \in counted' : m \in DOMAIN VotesOf(w) => VotesOf(w)[m] <= r)
                   => weighted_sum'[m] <= r * weight_total'[m]
             /\ (\A w \in counted' : m \in DOMAIN VotesOf(w) => VotesOf(w)[m] >= r)
                   => weighted_sum'[m] >= r * weight_total'[m]
    BY <1>2 DEF BetweenTheVotes, VotesOf
  <2>3. /\ (\A w \in counted : m \in DOMAIN VotesOf(w) => VotesOf(w)[m] <= r)
              => weighted_sum[m] <= r * weight_total[m]
        /\ (\A w \in counted : m \in DOMAIN VotesOf(w) => VotesOf(w)[m] >= r)
              => weighted_sum[m] >= r * weight_total[m]
    BY DEF BetweenTheVotes
  <2>4. weighted_sum[m] \in Nat /\ weight_total[m] \in Nat /\ r \in Nat
    BY DEF TypeOK
  <2>5. CASE m \in DOMAIN VotesOf(v)
    <3> DEFINE q == VotesOf(v)[m]
               n == Weight(v)
    <3>1. q \in Nat
      BY <2>1, <2>5, VotesType DEF VotesOf
    <3>2. weighted_sum'[m] = weighted_sum[m] + n * q /\ weight_total'[m] = weight_total[m] + n
      BY <1>2, <2>5 DEF Add
    <3>3. r * (weight_total[m] + n) = r * weight_total[m] + n * r
      BY <2>2, <2>4
    <3>4. (q <= r => n * q <= n * r) /\ (q >= r => n * q >= n * r)
      BY <2>2, <2>4, <3>1
    <3>5. r * weight_total[m] \in Nat /\ n * q \in Nat /\ n * r \in Nat
      BY <2>2, <2>4, <3>1
    <3> HIDE DEF n
    <3>6. ASSUME \A w \in counted' : m \in DOMAIN VotesOf(w) => VotesOf(w)[m] <= r
          PROVE  weighted_sum'[m] <= r * weight_total'[m]
      <4>1. q <= r /\ weighted_sum[m] <= r * weight_total[m]
        BY <1>2, <2>3, <2>5, <3>6
      <4> HIDE DEF q
      <4> QED
        BY <2>4, <3>2, <3>3, <3>4, <3>5, <4>1
    <3>7. ASSUME \A w \in counted' : m \in DOMAIN VotesOf(w) => VotesOf(w)[m] >= r
          PROVE  weighted_sum'[m] >= r * weight_total'[m]
      <4>1. q >= r /\ weighted_sum[m] >= r * weight_total[m]
        BY <1>2, <2>3, <2>5, <3>7
      <4> HIDE DEF q
      <4> QED
        BY <2>4, <3>2, <3>3, <3>4, <3>5, <4>1
    <3> QED
      BY <3>6, <3>7
  <2>6. CASE m \notin DOMAIN VotesOf(v)
    <3>1. weighted_sum'[m] = weighted_sum[m] /\ weight_total'[m] = weight_total[m]
      BY <1>2, <2>4, <2>6 DEF Add
    <3> QED
      BY <1>2, <2>3, <3>1
  <2> QED
    BY <2>5, <2>6
<1> QED
  BY <1>1, <1>2, OnlyAddMatters

-----------------------------------------------------------------------------
(* The average is that of all voters.                                      *)

\* The terms of a miner's weight and of its sum, and the payloads added to them.
Weights(st, com) == [v \in DOMAIN com |-> IF st[v] > 0 THEN st[v] ELSE 1]

Terms(st, com, m) ==
    [v \in {u \in DOMAIN com : m \in DOMAIN Votes(com[u].payload)} |->
        Weights(st, com)[v] * Votes(com[v].payload)[m]]

CountedFor(cnt, com, m) == {v \in cnt : m \in DOMAIN Votes(com[v].payload)}

\* A payload is added at most once, and only if it is not to be left out.
Apart ==
    /\ left \cap counted = {}
    /\ \A v \in counted : ~LeftOut(v)

\* The two totals of a miner are the sums over the payloads added so far.
Totalled ==
    /\ IsFiniteSet(counted)
    /\ \A m \in Miners :
         /\ weight_total[m] = SumOver(Weights(stake, commits), CountedFor(counted, commits, m))
         /\ weighted_sum[m] = SumOver(Terms(stake, commits, m), CountedFor(counted, commits, m))

LEMMA ApartStep == TypeOK /\ Phases /\ Apart /\ [Next]_vars => Apart'
<1> SUFFICES ASSUME TypeOK, Phases, Apart, [Next]_vars PROVE Apart'
  OBVIOUS
<1>1. ASSUME NEW v \in Validators, Publish(v) PROVE Apart'
  BY <1>1 DEF Publish, Apart, LeftOut, Signal, VotesOf, tally
<1>2. ASSUME NEW v \in Validators, PublishNext(v) PROVE Apart'
  BY <1>2 DEF PublishNext, Apart, LeftOut, Signal, VotesOf, tally
<1>3. CASE Read
  BY <1>3 DEF Read, Apart, Phases, tally
<1>4. CASE Fetch
  BY <1>4 DEF Fetch, Apart, Phases, tally
<1>5. CASE AllFetched
  BY <1>5 DEF AllFetched, Apart, Phases
<1>6. CASE Count
  BY <1>6 DEF Count, Apart, LeftOut, Signal, VotesOf
<1>7. CASE Settle
  BY <1>7 DEF Settle, Apart, LeftOut, Signal, VotesOf, tally
<1>8. CASE UNCHANGED vars
  BY <1>8 DEF vars, Apart, LeftOut, Signal, VotesOf, tally
<1> QED
  BY <1>1, <1>2, <1>3, <1>4, <1>5, <1>6, <1>7, <1>8 DEF Next, Aggregate, Done

\* Stakes are of the metagraph the settlement began with.
LEMMA StakesStay == [Next]_vars => stake' = stake
BY DEF Next, Aggregate, Done, Publish, PublishNext, Read, Fetch, AllFetched, Count, Settle,
       vars, setup

\* The terms are numbers.
LEMMA TermTypes ==
    ASSUME NEW st \in [Validators -> Nat], NEW com, DOMAIN com \subseteq Validators,
           \A v \in DOMAIN com : com[v] \in Entries, NEW m \in Miners
    PROVE  /\ \A v \in DOMAIN com : Weights(st, com)[v] \in Nat
           /\ \A v \in DOMAIN com : m \in DOMAIN Votes(com[v].payload) =>
                Terms(st, com, m)[v] \in Nat
PROOF
  <1>1. \A v \in DOMAIN com : Weights(st, com)[v] \in Nat
    BY DEF Weights
  <1>2. ASSUME NEW v \in DOMAIN com, m \in DOMAIN Votes(com[v].payload)
        PROVE  Terms(st, com, m)[v] \in Nat
    <2>1. Votes(com[v].payload)[m] \in Nat
      BY <1>2, VotesType DEF Entries
    <2>2. Terms(st, com, m)[v] = Weights(st, com)[v] * Votes(com[v].payload)[m]
      BY <1>2 DEF Terms
    <2> QED
      BY <1>1, <2>1, <2>2
  <1> QED
    BY <1>1, <1>2

LEMMA TotalledStep == TypeOK /\ Phases /\ Apart /\ Totalled /\ [Next]_vars => Totalled'
PROOF
  <1> SUFFICES ASSUME TypeOK, Phases, Apart, Totalled, [Next]_vars PROVE Totalled'
    OBVIOUS
  <1>1. stake' = stake /\ stake \in [Validators -> Nat]
    BY StakesStay DEF TypeOK
  <1>2. counted \subseteq DOMAIN commits /\ IsFiniteSet(counted)
    BY DEF TypeOK, Totalled
  <1>3. CASE /\ UNCHANGED <<counted, weighted_sum, weight_total>>
             /\ \A v \in counted : commits'[v] = commits[v]
    <2>1. counted \subseteq DOMAIN commits'
      BY <1>2, <1>3, TypeStep DEF TypeOK
    <2> SUFFICES ASSUME NEW m \in Miners
                 PROVE  LET S == CountedFor(counted, commits, m) IN
                        /\ CountedFor(counted, commits', m) = S
                        /\ SumOver(Weights(stake, commits'), S)
                             = SumOver(Weights(stake, commits), S)
                        /\ SumOver(Terms(stake, commits', m), S)
                             = SumOver(Terms(stake, commits, m), S)
      BY <1>1, <1>2, <1>3 DEF Totalled
    <2> DEFINE S == CountedFor(counted, commits, m)
    <2>2. CountedFor(counted, commits', m) = S
      BY <1>3 DEF CountedFor
    <2>3. S \subseteq counted /\ IsFiniteSet(S)
      BY <1>2, FS_Subset DEF CountedFor
    <2>4. \A v \in S : m \in DOMAIN Votes(commits[v].payload)
      BY DEF CountedFor
    <2>5. \A v \in S : /\ Weights(stake, commits)[v] \in Nat
                       /\ Terms(stake, commits, m)[v] \in Nat
      BY <1>1, <1>2, <2>3, <2>4, TermTypes DEF TypeOK
    <2>6. \A v \in S : Weights(stake, commits')[v] = Weights(stake, commits)[v]
      BY <1>2, <2>1, <2>3 DEF Weights
    <2>7. \A v \in S : Terms(stake, commits', m)[v] = Terms(stake, commits, m)[v]
      BY <1>2, <1>3, <2>1, <2>3, <2>4, <2>6 DEF Terms
    <2> HIDE DEF S
    <2>8. SumOver(Weights(stake, commits'), S) = SumOver(Weights(stake, commits), S)
      BY <2>3, <2>5, <2>6, SumAgrees
    <2>9. SumOver(Terms(stake, commits', m), S) = SumOver(Terms(stake, commits, m), S)
      BY <2>3, <2>5, <2>7, SumAgrees
    <2> QED
      BY <2>2, <2>8, <2>9 DEF S
  <1>4. ASSUME NEW v \in compatible \cap left, commits' = commits, counted' = counted \cup {v},
               UNCHANGED stake, Add(v)
        PROVE  Totalled'
    <2>1. v \in DOMAIN commits /\ v \in Validators /\ v \notin counted
      BY DEF TypeOK, Apart
    <2>2. IsFiniteSet(counted')
      BY <1>2, <1>4, FS_AddElement
    <2> SUFFICES ASSUME NEW m \in Miners
                 PROVE  LET T == CountedFor(counted', commits, m) IN
                        /\ weight_total'[m] = SumOver(Weights(stake, commits), T)
                        /\ weighted_sum'[m] = SumOver(Terms(stake, commits, m), T)
      BY <1>1, <1>4, <2>2 DEF Totalled
    <2> DEFINE S == CountedFor(counted, commits, m)
               ws == Weights(stake, commits)
               ts == Terms(stake, commits, m)
    <2>3. S \subseteq counted /\ IsFiniteSet(S) /\ v \notin S
      BY <1>2, <2>1, FS_Subset DEF CountedFor
    <2>4. weight_total[m] = SumOver(ws, S) /\ weighted_sum[m] = SumOver(ts, S)
      BY DEF Totalled
    <2>5. weight_total[m] \in Nat /\ weighted_sum[m] \in Nat
      BY DEF TypeOK
    <2>6. CASE m \in DOMAIN Votes(commits[v].payload)
      <3>1. CountedFor(counted', commits, m) = S \cup {v}
        BY <1>4, <2>6 DEF CountedFor
      <3>2. ws[v] = Weight(v) /\ ts[v] = Weight(v) * VotesOf(v)[m]
        BY <2>1, <2>6 DEF Weights, Terms, Weight, VotesOf
      <3>3. /\ weight_total'[m] = weight_total[m] + ws[v]
            /\ weighted_sum'[m] = weighted_sum[m] + ts[v]
        BY <1>4, <2>6, <3>2 DEF Add, VotesOf
      <3>4. \A u \in S \cup {v} : u \in DOMAIN commits /\ m \in DOMAIN Votes(commits[u].payload)
        BY <1>2, <2>1, <2>3, <2>6 DEF CountedFor
      <3>5. \A u \in S \cup {v} : ws[u] \in Nat /\ ts[u] \in Nat
        BY <1>1, <3>4, TermTypes DEF TypeOK
      <3> HIDE DEF S, ws, ts
      <3>6. SumOver(ws, S \cup {v}) = SumOver(ws, S) + ws[v]
        BY <2>3, <3>5, SumAdds
      <3>7. SumOver(ts, S \cup {v}) = SumOver(ts, S) + ts[v]
        BY <2>3, <3>5, SumAdds
      <3> QED
        BY <2>4, <3>1, <3>3, <3>6, <3>7 DEF ws, ts
    <2>7. CASE m \notin DOMAIN Votes(commits[v].payload)
      <3>1. CountedFor(counted', commits, m) = S
        BY <1>4, <2>7 DEF CountedFor
      <3>2. weight_total'[m] = weight_total[m] /\ weighted_sum'[m] = weighted_sum[m]
        BY <1>4, <2>5, <2>7 DEF Add, VotesOf
      <3> QED
        BY <2>4, <3>1, <3>2
    <2> QED
      BY <2>6, <2>7
  <1> QED
    BY <1>3, <1>4, OnlyAddMatters

\* When nothing is left to add, those added are the voters.
LEMMA VotersAreCounted ==
    ASSUME TypeOK, Sorted, Apart, pc = "settled", NEW m \in Miners
    PROVE  Voters(m) = CountedFor(counted, commits, m)
PROOF
  <1>1. \A v \in compatible : m \in DOMAIN VotesOf(v) => v \in counted \cup skipped
    BY DEF Sorted
  <1>2. \A v \in compatible : Positive(VotesOf(v)) => ~AllZero(commits[v].payload)
    BY DEF AllZero, Positive, VotesOf, Votes
  <1>3. \A v \in Voters(m) : v \notin skipped
    BY DEF Voters, Sorted, LeftOut, DeclaresZeros, Signal
  <1>4. ASSUME NEW v \in CountedFor(counted, commits, m)
        PROVE  v \in Voters(m)
    <2>1. v \in counted /\ v \in compatible /\ m \in DOMAIN VotesOf(v) /\ ~LeftOut(v)
      BY <1>4 DEF CountedFor, TypeOK, VotesOf, Apart
    <2> QED
      BY <1>2, <2>1 DEF Voters, LeftOut, DeclaresZeros, Signal, VotesOf
  <1>5. ASSUME NEW v \in Voters(m)
        PROVE  v \in CountedFor(counted, commits, m)
    <2>1. v \in compatible /\ m \in DOMAIN VotesOf(v)
      BY <1>5 DEF Voters
    <2> QED
      BY <1>1, <1>3, <2>1 DEF CountedFor, VotesOf
  <1> QED
    BY <1>4, <1>5

-----------------------------------------------------------------------------
(* Theorems.                                                               *)

IInv ==
    /\ TypeOK /\ Phases /\ Accepted /\ Sorted /\ SumsArePositive /\ BetweenTheVotes
    /\ Apart /\ Totalled

LEMMA InitIInv == Init => IInv
<1> SUFFICES ASSUME Init PROVE IInv
  OBVIOUS
<1> USE ConsensusAssumption DEF ConsensusAssumption
<1>1. TypeOK
  BY DEF Init, TypeOK, Entries, Rounds
<1>2. Phases
  BY DEF Init, Phases
<1>3. Accepted
  BY DEF Init, Accepted
<1>4. Sorted /\ SumsArePositive
  BY DEF Init, Sorted, SumsArePositive
<1>5. BetweenTheVotes
  <2>1. \A r \in Rewards : r * 0 = 0
    OBVIOUS
  <2> QED
    BY <2>1 DEF Init, BetweenTheVotes
<1>6. Apart
  BY DEF Init, Apart
<1>7. Totalled
  <2>1. \A m \in Miners : CountedFor({}, commits, m) = {}
    BY DEF CountedFor
  <2> QED
    BY <2>1, EmptySum, FS_EmptySet DEF Init, Totalled
<1> QED
  BY <1>1, <1>2, <1>3, <1>4, <1>5, <1>6, <1>7 DEF IInv

LEMMA IInvStep == IInv /\ [Next]_vars => IInv'
BY TypeStep, PhasesStep, AcceptedStep, SortedStep, PositiveStep, BetweenStep, ApartStep,
   TotalledStep DEF IInv

LEMMA SpecIInv == Spec => []IInv
BY InitIInv, IInvStep, PTL DEF Spec

\* The types of the publication and of the aggregation hold in every state.
THEOREM TypeCorrect == Spec => []TypeOK
<1>1. IInv => TypeOK
  BY DEF IInv
<1> QED
  BY SpecIInv, <1>1, PTL

\* An average is never outside the votes it is made of, however many payloads
\* of whatever stake arrive in whatever order.
THEOREM AveragesAreBetweenVotes == Spec => []BetweenTheVotes
<1>1. IInv => BetweenTheVotes
  BY DEF IInv
<1> QED
  BY SpecIInv, <1>1, PTL

\* Every settled reward is the stake-weighted average of the votes for its miner,
\* in whatever order the payloads were published, downloaded and added.
THEOREM RewardsAreAverages == Spec => []RewardIsTheAverage
<1>1. IInv => RewardIsTheAverage
  <2> SUFFICES ASSUME IInv, pc = "settled", NEW m \in Miners
               PROVE  /\ weight_total[m] = MapThenSumSet(Weight, Voters(m))
                      /\ weighted_sum[m] =
                           MapThenSumSet(LAMBDA v : Weight(v) * VotesOf(v)[m], Voters(m))
    BY DEF RewardIsTheAverage
  <2> DEFINE S == Voters(m)
             ws == Weights(stake, commits)
             ts == Terms(stake, commits, m)
  <2>1. S = CountedFor(counted, commits, m)
    BY VotersAreCounted DEF IInv
  <2>2. weight_total[m] = SumOver(ws, S) /\ weighted_sum[m] = SumOver(ts, S)
    BY <2>1 DEF IInv, Totalled
  <2>3. \A v \in S : v \in DOMAIN commits /\ m \in DOMAIN VotesOf(v)
    BY DEF Voters, IInv, TypeOK
  <2>4. \A v \in S : ws[v] = Weight(v) /\ ts[v] = Weight(v) * VotesOf(v)[m]
    BY <2>3 DEF Weights, Terms, Weight, VotesOf
  <2> HIDE DEF S, ws, ts
  <2>5. \A U \in SUBSET S : U # {} => (CHOOSE x \in U : TRUE) \in S
    OBVIOUS
  <2>6. SumOver(ws, S) = MapThenSumSet(Weight, S)
    BY <2>4, <2>5 DEF SumOver, MapThenSumSet, MapThenFoldSet
  <2>7. SumOver(ts, S) = MapThenSumSet(LAMBDA v : Weight(v) * VotesOf(v)[m], S)
    BY <2>4, <2>5 DEF SumOver, MapThenSumSet, MapThenFoldSet
  <2> QED
    BY <2>2, <2>6, <2>7 DEF S
<1> QED
  BY SpecIInv, <1>1, PTL

\* No filter turns a positive vote into a zero, or the other way around.
THEOREM PositiveVotesCount == Spec => []PositiveIfSomeoneSaysSo
<1>1. IInv => PositiveIfSomeoneSaysSo
  <2> SUFFICES ASSUME IInv, pc = "settled", NEW m \in Miners
               PROVE  weighted_sum[m] > 0 <=>
                        \E v \in compatible : m \in DOMAIN VotesOf(v) /\ VotesOf(v)[m] > 0
    BY DEF PositiveIfSomeoneSaysSo
  <2>1. counted \subseteq compatible
    BY DEF IInv, TypeOK
  <2>2. ASSUME NEW v \in compatible, m \in DOMAIN VotesOf(v), VotesOf(v)[m] > 0
        PROVE  v \in counted
    <3>1. VotesOf(v)[m] # NoRun
      <4>1. commits[v].payload \in Payloads
        BY DEF IInv, TypeOK, Entries
      <4> QED
        BY <2>2, <4>1, VotesType, ConsensusAssumption DEF VotesOf, ConsensusAssumption
    <3>2. v \notin skipped
      BY <2>2, <3>1 DEF IInv, Sorted, LeftOut, DeclaresZeros, Positive, VotesOf
    <3> QED
      BY <2>2, <3>2 DEF IInv, Sorted
  <2> QED
    BY <2>1, <2>2 DEF IInv, SumsArePositive
<1> QED
  BY SpecIInv, <1>1, PTL

\* Only a validator without a positive run is left out, and never the only ones.
THEOREM ZerosAreLeftOutForARun == Spec => []LeftOutHadNothing
<1>1. IInv => LeftOutHadNothing
  <2> SUFFICES ASSUME IInv, NEW v \in skipped
               PROVE  /\ AllZero(commits[v].payload)
                      /\ \E w \in compatible \ skipped : Positive(VotesOf(w))
    BY DEF LeftOutHadNothing
  <2>1. \A w \in skipped : LeftOut(w)
    BY DEF IInv, Sorted
  <2>2. PICK w \in compatible : Positive(VotesOf(w))
    BY <2>1 DEF LeftOut, Signal
  <2>3. w \notin skipped
    BY <2>1, <2>2 DEF LeftOut, DeclaresZeros, VotesOf
  <2> QED
    BY <2>1, <2>2, <2>3 DEF LeftOut, DeclaresZeros
<1> QED
  BY SpecIInv, <1>1, PTL

\* Every payload that counts is the one its validator published for the round.
THEOREM OnlyThisRoundCounts == Spec => []CountedWerePublished
<1>1. IInv => CountedWerePublished
  <2> SUFFICES ASSUME IInv, NEW v \in counted
               PROVE  commits[v].payload = published[v] /\ stake[v] >= MinStake
    BY DEF CountedWerePublished
  <2>1. v \in compatible /\ v \in DOMAIN commits
    BY DEF IInv, TypeOK
  <2> QED
    BY <2>1 DEF IInv, Accepted, Admitted
<1> QED
  BY SpecIInv, <1>1, PTL
=============================================================================
