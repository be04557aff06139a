-------------------------- MODULE AgentPool_proofs --------------------------
(***************************************************************************)
(* What holds of the agents of a season for any number of miners, commits  *)
(* and rounds, any caps and cooldowns, and whatever goes wrong.            *)
(***************************************************************************)
EXTENDS AgentPool, TLAPS

-----------------------------------------------------------------------------
(* Types.                                                                  *)

LEMMA NothingTypes ==
    /\ NoStats \in Stats
    /\ NothingKept \in [Miners -> [Commits -> Stats]]
    /\ NobodyQueued \in [Miners -> Commits \cup {NoCommit}]
<1>1. 0 \in Rewards /\ 0 \in 0..LastRound
  BY PoolAssumption DEF PoolAssumption
<1>2. NoStats \in Stats
  BY <1>1 DEF NoStats, Stats
<1>3. QED
  BY <1>1, <1>2 DEF NothingKept, Nothing, NobodyQueued

\* An agent that is refused keeps what was known of it.
LEMMA RejectedTypes ==
    ASSUME PoolTypes, NEW u \in Miners, NEW atFirst \in BOOLEAN, Rejected(u, atFirst)
    PROVE  PoolTypes'
BY DEF PoolTypes, Rejected

LEMMA FinalizedTypes ==
    ASSUME PoolTypes, RoundTypes, NEW done \in SUBSET Miners, Finalized(done)
    PROVE  /\ known' \subseteq Miners /\ evaluated' \subseteq known' /\ known \subseteq known'
           /\ last' \in [Miners -> 0..LastRound]
           /\ putOff' \in [Miners -> Commits \cup {NoCommit}]
           /\ \A u \in Miners \ known' : last'[u] = 0 /\ putOff'[u] = NoCommit
BY PoolAssumption DEF PoolTypes, RoundTypes, Finalized, PoolAssumption

LEMMA ForgetTypes ==
    ASSUME Forget
    PROVE  /\ PoolTypes'
           /\ owners' \in [Repos -> SUBSET Coldkeys]
           /\ suspicion' = Nothing
           /\ guard' \in 0..LastRound + 1
BY NothingTypes, PoolAssumption DEF Forget, PoolTypes, PoolAssumption, NobodyQueued

LEMMA NextRoundTypes ==
    ASSUME RoundTypes, NextRound
    PROVE  /\ pc' \in Steps /\ round' \in 1..LastRound /\ generated' \in BOOLEAN
           /\ cooldown' = cooldown
BY PoolAssumption DEF RoundTypes, NextRound, Steps, PoolAssumption

LEMMA EarnedTypes ==
    ASSUME ResultTypes, NextRound
    PROVE  earned' \in [Miners -> SUBSET Rewards]
BY DEF ResultTypes, NextRound, NothingEarned

LEMMA TypeInit == Init => TypeOK
<1> SUFFICES ASSUME Init PROVE TypeOK
  OBVIOUS
<1> USE NothingTypes, PoolAssumption DEF Init, PoolAssumption
<1>1. PoolTypes
  BY DEF PoolTypes, NobodyQueued
<1>2. RoundTypes
  <2>1. /\ round \in 1..LastRound /\ generated \in BOOLEAN /\ cut \in BOOLEAN
        /\ pc \in Steps /\ cooldown \in Cooldowns /\ todo \subseteq Miners
    <3>1. round \in 1..LastRound
      OBVIOUS
    <3>2. generated = FALSE /\ cut = FALSE /\ pc = "start"
      OBVIOUS
    <3>3. cooldown \in Cooldowns /\ todo = {}
      OBVIOUS
    <3> HIDE DEF Init
    <3> QED
      BY <3>1, <3>2, <3>3 DEF Steps
  <2>2. quota \in [Coldkeys -> 0..MaxPerColdkey]
    <3>1. 0 \in 0..MaxPerColdkey
      OBVIOUS
    <3> QED
      BY <3>1
  <2>3. owners \in [Repos -> SUBSET Coldkeys]
    OBVIOUS
  <2>4. reward \in [Miners -> Rewards] /\ reused \in [Miners -> Commits \cup {NoCommit}]
    OBVIOUS
  <2>5. active = {} /\ eligible = {} /\ runs = {} /\ zeroed = {}
    OBVIOUS
  <2> HIDE DEF Init
  <2> QED
    BY <2>1, <2>2, <2>3, <2>4, <2>5 DEF RoundTypes
<1>3. ResultTypes
  BY DEF ResultTypes, NothingEarned
<1>4. QED
  BY <1>1, <1>2, <1>3 DEF TypeOK

\* The first steps of a round.
LEMMA TypeStart == TypeOK /\ (StartRound \/ SkipRound \/ AskMiners) => TypeOK'
<1> SUFFICES ASSUME TypeOK, StartRound \/ SkipRound \/ AskMiners PROVE TypeOK'
  OBVIOUS
<1> USE DEF TypeOK
<1>1. ASSUME StartRound PROVE TypeOK'
  <2>1. CASE generated
    <3>1. UNCHANGED <<queue, named, first, owners, agents, results>>
      BY <1>1, <2>1 DEF StartRound
    <3> QED
      BY <1>1, <3>1 DEF StartRound, PoolTypes, RoundTypes, ResultTypes, Steps, agents,
        results, answers, running
  <2>2. CASE ~generated
    <3>1. Forget /\ kept' = NothingKept /\ UNCHANGED <<excluded, earned>>
      BY <1>1, <2>2 DEF StartRound
    <3>2. PoolTypes'
      BY <3>1, ForgetTypes
    <3>3. RoundTypes'
      BY <1>1, <3>1, ForgetTypes DEF StartRound, RoundTypes, Steps, answers, running
    <3>4. ResultTypes'
      BY <3>1, ForgetTypes, NothingTypes DEF ResultTypes
    <3> QED
      BY <3>2, <3>3, <3>4
  <2> QED
    BY <2>1, <2>2
<1>2. ASSUME SkipRound PROVE TypeOK'
  <2>1. PoolTypes'
    BY <1>2 DEF SkipRound, PoolTypes, agents
  <2>2. RoundTypes'
    BY <1>2, NextRoundTypes DEF SkipRound, RoundTypes, answers, running
  <2>3. ResultTypes'
    BY <1>2, EarnedTypes DEF SkipRound, ResultTypes, ThisSeason
  <2> QED
    BY <2>1, <2>2, <2>3
<1>3. ASSUME AskMiners PROVE TypeOK'
  <2>1. PoolTypes'
    BY <1>3, NothingTypes DEF AskMiners, PoolTypes, agents
  <2>2. RoundTypes'
    <3>1. quota' \in [Coldkeys -> 0..MaxPerColdkey]
      <4>1. 0 \in 0..MaxPerColdkey
        BY PoolAssumption DEF PoolAssumption
      <4> QED
        BY <1>3, <4>1 DEF AskMiners, RoundTypes, answers
    <3>2. /\ active' \subseteq Miners /\ runs' = runs /\ eligible' \subseteq Miners
          /\ reused' \in [Miners -> Commits \cup {NoCommit}] /\ todo' \subseteq Miners
          /\ pc' \in Steps
      BY <1>3, NothingTypes DEF AskMiners, RoundTypes, Steps, answers, running
    <3> QED
      BY <1>3, <3>1, <3>2 DEF AskMiners, RoundTypes, clock, running
  <2>3. ResultTypes'
    BY <1>3 DEF AskMiners, ResultTypes, results
  <2> QED
    BY <2>1, <2>2, <2>3
<1>4. QED
  BY <1>1, <1>2, <1>3

\* What any answer leaves alone.
LEMMA HandledTypes ==
    ASSUME TypeOK, NEW u \in Miners, Handled(u)
    PROVE  /\ round' \in 1..LastRound /\ generated' \in BOOLEAN /\ cut' \in BOOLEAN
           /\ cooldown' \in Cooldowns /\ pc' \in Steps /\ todo' \subseteq Miners
           /\ runs' = runs /\ reward' \in [Miners -> Rewards] /\ zeroed' \subseteq Miners
           /\ ResultTypes'
BY DEF TypeOK, Handled, RoundTypes, ResultTypes, clock, results, running

LEMMA CountedTypes ==
    ASSUME TypeOK, NEW u \in Miners, Counted(u)
    PROVE  Handled(u) /\ quota' \in [Coldkeys -> 0..MaxPerColdkey]
<1>1. quota \in [Coldkeys -> 0..MaxPerColdkey] /\ ColdkeyOf[u] \in Coldkeys
  BY DEF TypeOK, RoundTypes, Coldkeys
<1>2. quota[ColdkeyOf[u]] + 1 \in 0..MaxPerColdkey
  BY <1>1, PoolAssumption DEF Counted, PoolAssumption
<1>3. QED
  BY <1>1, <1>2 DEF Counted

LEMMA AcceptedTypes ==
    ASSUME TypeOK, NEW u \in Miners, NEW c \in Commits, Accepted(u, c)
    PROVE  /\ Handled(u)
           /\ quota' \in [Coldkeys -> 0..MaxPerColdkey]
           /\ owners' \in [Repos -> SUBSET Coldkeys]
           /\ active' \subseteq Miners /\ eligible' \subseteq Miners
<1>1. Counted(u) /\ Handled(u) /\ quota' \in [Coldkeys -> 0..MaxPerColdkey] /\ runs' = runs
  BY CountedTypes, HandledTypes DEF Accepted
<1>2. ColdkeyOf[u] \in Coldkeys
  BY DEF Coldkeys
<1>3. QED
  BY <1>1, <1>2 DEF Accepted, TypeOK, RoundTypes

\* Whatever a miner answers.
LEMMA TypeAnswer == ASSUME TypeOK, NEW u \in Miners, Answer(u) PROVE TypeOK'
<1>1. ASSUME NEW atFirst \in BOOLEAN, Handled(u), Rejected(u, atFirst), UNCHANGED owners,
             quota' \in [Coldkeys -> 0..MaxPerColdkey]
      PROVE  TypeOK'
  <2>1. PoolTypes'
    BY <1>1, RejectedTypes DEF TypeOK
  <2>2. RoundTypes'
    BY <1>1, HandledTypes DEF Rejected, TypeOK, RoundTypes
  <2> QED
    BY <1>1, <2>1, <2>2, HandledTypes DEF TypeOK
<1>2. ASSUME NoResponse(u) PROVE TypeOK'
  <2>1. PoolTypes'
    BY <1>2 DEF NoResponse, TypeOK, PoolTypes, agents
  <2>2. RoundTypes'
    BY <1>2, HandledTypes DEF NoResponse, TypeOK, RoundTypes, answers
  <2> QED
    BY <1>2, <2>1, <2>2, HandledTypes DEF NoResponse, TypeOK
<1>3. CASE MissingFields(u)
  BY <1>1, <1>3 DEF MissingFields, TypeOK, RoundTypes
<1>4. CASE ColdkeyCapped(u)
  BY <1>1, <1>4 DEF ColdkeyCapped, TypeOK, RoundTypes
<1>5. CASE InvalidUrl(u)
  BY <1>1, <1>5, CountedTypes DEF InvalidUrl
<1>6. CASE RepoCapped(u)
  BY <1>1, <1>6, CountedTypes DEF RepoCapped
<1>7. ASSUME NEW c \in Commits, Accepted(u, c), PoolTypes',
             reused' \in [Miners -> Commits \cup {NoCommit}]
      PROVE  TypeOK'
  <2>1. RoundTypes'
    BY <1>7, AcceptedTypes, HandledTypes DEF TypeOK, RoundTypes
  <2> QED
    BY <1>7, <2>1, AcceptedTypes, HandledTypes DEF TypeOK
<1>8. CASE Reuse(u)
  <2>1. PICK c \in Commits : /\ Accepted(u, c)
                            /\ reused' = [reused EXCEPT ![u] = c]
                            /\ known' = known \cup {u}
                            /\ putOff' = [putOff EXCEPT ![u] = NoCommit]
                            /\ UNCHANGED <<queue, named, first, evaluated, last>>
    BY <1>8 DEF Reuse
  <2>2. PoolTypes'
    BY <2>1 DEF TypeOK, PoolTypes
  <2> QED
    BY <1>7, <2>1, <2>2 DEF TypeOK, RoundTypes
<1>9. CASE PutOff(u)
  <2>1. PICK c \in Commits : /\ Accepted(u, c) /\ u \in known
                            /\ putOff' = [putOff EXCEPT ![u] = c]
                            /\ UNCHANGED <<queue, named, first, known, evaluated, last, reused>>
    BY <1>9 DEF PutOff
  <2>2. PoolTypes'
    BY <2>1 DEF TypeOK, PoolTypes
  <2> QED
    BY <1>7, <2>1, <2>2 DEF TypeOK, RoundTypes
<1>10. CASE Enqueue(u)
  <2>1. PICK c \in Commits :
              /\ Accepted(u, c)
              /\ queue' = [queue EXCEPT ![u] = c]
              /\ named' \subseteq named \cup {u}
              /\ known' = known \cup {u}
              /\ first' \subseteq first \cup {u}
              /\ UNCHANGED <<evaluated, last, putOff, reused>>
    BY <1>10 DEF Enqueue
  <2>2. PoolTypes'
    BY <2>1, PoolAssumption DEF TypeOK, PoolTypes, PoolAssumption
  <2> QED
    BY <1>7, <2>1, <2>2 DEF TypeOK, RoundTypes
<1>11. QED
  BY <1>2, <1>3, <1>4, <1>5, <1>6, <1>8, <1>9, <1>10 DEF Answer

\* The end of the handshake, and the evaluation.
LEMMA TypeEvaluate ==
    ASSUME TypeOK,
           \/ EndHandshake \/ Register \/ Deadline \/ AllEvaluated
           \/ \E u \in Miners : Fail(u) \/ Run(u)
    PROVE  TypeOK'
<1> USE DEF TypeOK
<1>1. ASSUME EndHandshake PROVE TypeOK'
  <2>1. 0 \in 0..MaxPerColdkey
    BY PoolAssumption DEF PoolAssumption
  <2>2. quota' \in [Coldkeys -> 0..MaxPerColdkey]
    BY <1>1, <2>1 DEF EndHandshake
  <2>3. PoolTypes' /\ ResultTypes'
    BY <1>1 DEF EndHandshake, PoolTypes, ResultTypes, agents, results
  <2>4. RoundTypes'
    BY <1>1, <2>2 DEF EndHandshake, RoundTypes, Steps, clock, running
  <2> QED
    BY <2>3, <2>4
<1>2. ASSUME Register PROVE TypeOK'
  <2>1. PoolTypes' /\ ResultTypes'
    BY <1>2 DEF Register, PoolTypes, ResultTypes, agents, results
  <2>2. RoundTypes'
    BY <1>2 DEF Register, RoundTypes, Steps, clock, answers
  <2> QED
    BY <2>1, <2>2
<1>3. ASSUME NEW u \in Miners, NEW stats \in Stats, pc = "evaluating", u \in Queued,
             Registered(u, stats)
      PROVE  kept' \in [Miners -> [Commits -> Stats]]
  <2>1. queue[u] \in Commits /\ kept \in [Miners -> [Commits -> Stats]]
    BY <1>3 DEF Queued, PoolTypes, ResultTypes
  <2> QED
    BY <1>3, <2>1 DEF Registered
<1>4. ASSUME NEW u \in Miners, Fail(u) PROVE TypeOK'
  <2>1. [reward |-> 0, round |-> round, ran |-> FALSE] \in Stats
    BY PoolAssumption DEF Stats, PoolAssumption, RoundTypes
  <2>2. kept' \in [Miners -> [Commits -> Stats]]
    BY <1>3, <1>4, <2>1 DEF Fail, ResultTypes
  <2>3. ResultTypes'
    BY <1>4, <2>2 DEF Fail, ResultTypes
  <2>4. PoolTypes'
    BY <1>4, FinalizedTypes DEF Fail, PoolTypes
  <2>5. RoundTypes'
    BY <1>4 DEF Fail, RoundTypes, clock, running
  <2> QED
    BY <2>3, <2>4, <2>5
<1>5. ASSUME NEW u \in Miners, Run(u) PROVE TypeOK'
  <2>1. PICK r \in Rewards :
             /\ reward' = [reward EXCEPT ![u] = r]
             /\ Registered(u, [reward |-> r, round |-> round, ran |-> TRUE])
    BY <1>5 DEF Run
  <2>2. [reward |-> r, round |-> round, ran |-> TRUE] \in Stats
    BY DEF Stats, RoundTypes
  <2>3. kept' \in [Miners -> [Commits -> Stats]]
    BY <1>3, <1>5, <2>1, <2>2 DEF Run
  <2>4. ResultTypes'
    <3>1. earned' \in [Miners -> SUBSET Rewards]
      BY <1>5 DEF Run, ResultTypes
    <3> QED
      BY <1>5, <2>3, <3>1 DEF Run, ResultTypes
  <2>5. PoolTypes'
    BY <1>5, FinalizedTypes DEF Run, PoolTypes
  <2>6. RoundTypes'
    BY <1>5, <2>1 DEF Run, RoundTypes, clock
  <2> QED
    BY <2>4, <2>5, <2>6
<1>6. ASSUME Mark, UNCHANGED <<runs, kept, guard, excluded, earned>> PROVE ResultTypes'
  BY <1>6 DEF Mark, RoundTypes, ResultTypes
<1>7. ASSUME Deadline PROVE TypeOK'
  <2>1. ResultTypes'
    BY <1>6, <1>7 DEF Deadline
  <2>2. PoolTypes'
    BY <1>7, FinalizedTypes, NothingTypes DEF Deadline, PoolTypes, Queued
  <2>3. RoundTypes'
    BY <1>7 DEF Deadline, RoundTypes, Steps, Queued, clock
  <2> QED
    BY <2>1, <2>2, <2>3
<1>8. ASSUME AllEvaluated PROVE TypeOK'
  <2>1. ResultTypes'
    BY <1>6, <1>8 DEF AllEvaluated
  <2>2. PoolTypes' /\ RoundTypes'
    BY <1>8 DEF AllEvaluated, PoolTypes, RoundTypes, Steps, clock, agents, answers
  <2> QED
    BY <2>1, <2>2
<1>9. QED
  BY <1>1, <1>2, <1>4, <1>5, <1>7, <1>8

\* The end of a round, and of the process.
LEMMA TypeSettle == ASSUME TypeOK, EndUnsettled \/ Settle \/ Crash PROVE TypeOK'
<1> USE DEF TypeOK
<1>1. ASSUME Reset, NextRound PROVE PoolTypes' /\ RoundTypes'
  <2>1. reward' \in [Miners -> Rewards]
    BY <1>1, PoolAssumption DEF Reset, PoolAssumption
  <2>2. PoolTypes'
    BY <1>1 DEF Reset, PoolTypes, agents
  <2>3. RoundTypes'
    BY <1>1, <2>1, NextRoundTypes DEF Reset, RoundTypes
  <2> QED
    BY <2>2, <2>3
<1>2. ASSUME EndUnsettled PROVE TypeOK'
  <2>1. ResultTypes'
    BY <1>2, EarnedTypes DEF EndUnsettled, ThisSeason, ResultTypes
  <2> QED
    BY <1>1, <1>2, <2>1 DEF EndUnsettled
<1>3. ASSUME Settle PROVE TypeOK'
  <2>1. Purged \in [Miners -> [Commits -> Stats]]
    BY NothingTypes DEF Purged, ResultTypes
  <2>2. suspicion # Nothing => suspicion.round \in 1..LastRound
    BY DEF ResultTypes
  <2>3. ResultTypes'
    <3>1. PICK leftOut \in BOOLEAN :
               IF leftOut /\ suspicion # Nothing
               THEN /\ kept' = Purged
                    /\ guard' = suspicion.round + 1
                    /\ excluded' = ThisSeason(excluded \cup {suspicion.round})
               ELSE /\ UNCHANGED <<kept, guard>>
                    /\ excluded' = ThisSeason(excluded)
      BY <1>3 DEF Settle
    <3>2. CASE leftOut /\ suspicion # Nothing
      <4>1. guard' \in 0..LastRound + 1
        BY <2>2, <3>1, <3>2, PoolAssumption DEF PoolAssumption
      <4>2. excluded' \subseteq 1..LastRound
        BY <2>2, <3>1, <3>2 DEF ThisSeason, ResultTypes
      <4> QED
        BY <1>3, <2>1, <3>1, <3>2, <4>1, <4>2, EarnedTypes DEF Settle, ResultTypes
    <3>3. CASE ~(leftOut /\ suspicion # Nothing)
      BY <1>3, <3>1, <3>3, EarnedTypes DEF Settle, ThisSeason, ResultTypes
    <3> QED
      BY <3>2, <3>3
  <2> QED
    BY <1>1, <1>3, <2>3 DEF Settle
<1>4. ASSUME Crash PROVE TypeOK'
  <2>1. PoolTypes'
    BY <1>4, ForgetTypes DEF Crash
  <2>2. ResultTypes'
    BY <1>4, ForgetTypes DEF Crash, ResultTypes, NothingEarned
  <2>3. quota' \in [Coldkeys -> 0..MaxPerColdkey] /\ reward' \in [Miners -> Rewards]
    <3>1. 0 \in 0..MaxPerColdkey /\ 0 \in Rewards
      BY PoolAssumption DEF PoolAssumption
    <3> QED
      BY <1>4, <3>1 DEF Crash
  <2>4. RoundTypes'
    BY <1>4, <2>3, ForgetTypes, NothingTypes DEF Crash, RoundTypes, Steps
  <2> QED
    BY <2>1, <2>2, <2>4
<1>5. QED
  BY <1>2, <1>3, <1>4

LEMMA TypeStep == TypeOK /\ [Next]_vars => TypeOK'
<1> SUFFICES ASSUME TypeOK, [Next]_vars PROVE TypeOK'
  OBVIOUS
<1>1. CASE UNCHANGED vars
  BY <1>1 DEF vars, clock, agents, results, answers, running,
    TypeOK, PoolTypes, RoundTypes, ResultTypes
<1>2. CASE Next
  BY <1>2, TypeStart, TypeAnswer, TypeEvaluate, TypeSettle DEF Next
<1>3. QED
  BY <1>1, <1>2

\* Every variable keeps its type; in particular no coldkey exceeds its quota,
\* an agent is evaluated only once it is known, and what is not known has no
\* round of evaluation and nothing put off (agents_dict).
THEOREM TypeCorrect == Spec => []TypeOK
<1>1. QED
  BY TypeInit, TypeStep, PTL DEF Spec

-----------------------------------------------------------------------------
(* The order of the steps.                                                 *)

\* A round is under way only in a season whose tasks exist, and a candidate
\* whose answer has not been looked at is not queued.
InOrder ==
    /\ pc # "start" => generated
    /\ pc # "handshake" => todo = {}
    /\ \A u \in todo : queue[u] = NoCommit

\* What an answer does to the queue and the agents.
LEMMA AnswerEffect ==
    ASSUME TypeOK, NEW u \in Miners, Answer(u)
    PROVE  /\ pc = "handshake" /\ u \in todo /\ todo' = todo \ {u}
           /\ UNCHANGED <<clock, pc, cut, results, running, last>>
           /\ queue' \in [Miners -> Commits \cup {NoCommit}]
           /\ evaluated \subseteq evaluated'
           /\ \A v \in Miners \ {u} :
                /\ queue'[v] = queue[v]
                /\ v \in first' <=> v \in first
           /\ queue'[u] # queue[u] => last[u] = 0 \/ round - last[u] >= cooldown.min
           /\ u \in first' => u \in first \/ u \in evaluated' \/ queue'[u] # NoCommit
<1> DEFINE Effect ==
        /\ pc = "handshake" /\ u \in todo /\ todo' = todo \ {u}
        /\ UNCHANGED <<clock, pc, cut, results, running, last>>
        /\ evaluated \subseteq evaluated'
        /\ \A v \in Miners \ {u} :
             /\ queue'[v] = queue[v]
             /\ v \in first' <=> v \in first
        /\ queue'[u] # queue[u] => last[u] = 0 \/ round - last[u] >= cooldown.min
        /\ u \in first' => u \in first \/ u \in evaluated' \/ queue'[u] # NoCommit
<1>0. /\ queue \in [Miners -> Commits \cup {NoCommit}] /\ last \in [Miners -> 0..LastRound]
      /\ \A v \in Miners \ known : last[v] = 0
      /\ round \in Nat /\ LastRound \in Nat /\ cooldown.min \in Nat
  BY PoolAssumption DEF TypeOK, PoolTypes, RoundTypes, PoolAssumption
<1>1. MayRun(u) => last[u] = 0 \/ round - last[u] >= cooldown.min
  BY DEF MayRun
<1>3. ASSUME NoResponse(u) PROVE Effect
  <2>1. \A v \in Miners \ {u} : queue'[v] = queue[v]
    BY <1>0, <1>3 DEF NoResponse
  <2>2. queue'[u] # queue[u] => MayRun(u)
    BY <1>3 DEF NoResponse
  <2> QED
    BY <1>1, <1>3, <2>1, <2>2 DEF NoResponse, Handled, agents
<1>4. ASSUME NEW atFirst \in BOOLEAN, Handled(u), Rejected(u, atFirst) PROVE Effect
  BY <1>4 DEF Handled, Rejected
<1>5. ASSUME MissingFields(u) PROVE Effect
  BY <1>4, <1>5 DEF MissingFields
<1>6. ASSUME ColdkeyCapped(u) PROVE Effect
  BY <1>4, <1>6 DEF ColdkeyCapped
<1>7. ASSUME InvalidUrl(u) PROVE Effect
  BY <1>4, <1>7 DEF InvalidUrl, Counted
<1>8. ASSUME RepoCapped(u) PROVE Effect
  BY <1>4, <1>8 DEF RepoCapped, Counted
<1>9. ASSUME Reuse(u) PROVE Effect
  BY <1>9 DEF Reuse, Accepted, Counted, Handled
<1>10. ASSUME PutOff(u) PROVE Effect
  BY <1>10 DEF PutOff, Accepted, Counted, Handled
<1>11. ASSUME Enqueue(u) PROVE Effect
  <2>1. PICK c \in Commits :
              /\ Accepted(u, c)
              /\ u \in known => MayRun(u)
              /\ queue' = [queue EXCEPT ![u] = c]
              /\ first' = IF u \notin known /\ round = 1 THEN first \cup {u} ELSE first
              /\ UNCHANGED <<evaluated, last, putOff, reused>>
    BY <1>11 DEF Enqueue
  <2>2. queue'[u] = c /\ c # NoCommit
    BY <1>0, <2>1, PoolAssumption DEF PoolAssumption
  <2>3. last[u] = 0 \/ round - last[u] >= cooldown.min
    BY <1>0, <1>1, <2>1
  <2>4. \A v \in Miners \ {u} : queue'[v] = queue[v]
    BY <1>0, <2>1
  <2> QED
    BY <2>1, <2>2, <2>3, <2>4 DEF Accepted, Counted, Handled
<1>12. queue' \in [Miners -> Commits \cup {NoCommit}]
  BY TypeAnswer DEF TypeOK, PoolTypes
<1>13. Effect
  BY <1>3, <1>5, <1>6, <1>7, <1>8, <1>9, <1>10, <1>11 DEF Answer
<1>14. QED
  BY <1>12, <1>13

LEMMA OrderInit == Init => InOrder
BY DEF Init, InOrder

LEMMA OrderStep == TypeOK /\ InOrder /\ [Next]_vars => InOrder'
<1> SUFFICES ASSUME TypeOK, InOrder, [Next]_vars PROVE InOrder'
  OBVIOUS
<1> USE DEF InOrder
<1>1. CASE UNCHANGED vars
  BY <1>1 DEF vars, clock, answers
<1>2. CASE StartRound
  BY <1>2 DEF StartRound, answers
<1>3. CASE SkipRound
  BY <1>3 DEF SkipRound, NextRound
<1>4. CASE AskMiners
  BY <1>4 DEF AskMiners, NobodyQueued, clock
<1>5. CASE EndHandshake
  BY <1>5 DEF EndHandshake, clock
<1>6. CASE Register
  BY <1>6 DEF Register, clock, answers
<1>7. ASSUME NEW u \in Miners, Answer(u) PROVE InOrder'
  <2>1. todo' \subseteq Miners
    BY <1>7, TypeAnswer DEF TypeOK, RoundTypes
  <2> QED
    BY <1>7, <2>1, AnswerEffect DEF clock
<1>8. ASSUME NEW u \in Miners, Fail(u) \/ Run(u) PROVE InOrder'
  BY <1>8 DEF Fail, Run, clock
<1>9. CASE Deadline \/ AllEvaluated
  BY <1>9 DEF Deadline, AllEvaluated, clock
<1>10. CASE EndUnsettled \/ Settle
  BY <1>10 DEF EndUnsettled, Settle, NextRound, Reset
<1>11. CASE Crash
  BY <1>11 DEF Crash
<1>12. QED
  BY <1>1, <1>2, <1>3, <1>4, <1>5, <1>6, <1>7, <1>8, <1>9, <1>10, <1>11 DEF Next

-----------------------------------------------------------------------------
(* The gate of the weights.                                                *)

\* Between the handshake and the settlement an agent of the first handshake
\* that is not evaluated is in the queue; before and after, there is none.
GateInv ==
    ~cut => /\ pc \in {"start", "candidates", "settling"} => first \subseteq evaluated
            /\ \A u \in first : u \in evaluated \/ queue[u] # NoCommit

LEMMA GateStep == TypeOK /\ InOrder /\ GateInv /\ [Next]_vars => GateInv'
<1> SUFFICES ASSUME TypeOK, InOrder, GateInv, [Next]_vars PROVE GateInv'
  OBVIOUS
<1>0. first \subseteq known /\ known \subseteq Miners
  BY DEF TypeOK, PoolTypes
<1> USE DEF GateInv
<1>1. CASE UNCHANGED vars
  BY <1>1 DEF vars, agents
<1>2. CASE StartRound
  <2>1. CASE generated
    BY <1>2, <2>1 DEF StartRound, agents
  <2>2. CASE ~generated
    BY <1>2, <2>2 DEF StartRound, Forget
  <2> QED
    BY <2>1, <2>2
<1>3. CASE SkipRound
  BY <1>3 DEF SkipRound, NextRound, agents
<1>4. CASE AskMiners
  BY <1>4 DEF AskMiners, agents
<1>5. CASE EndHandshake
  BY <1>5 DEF EndHandshake, agents
<1>6. CASE Register
  BY <1>6 DEF Register, agents
<1>7. ASSUME NEW u \in Miners, Answer(u) PROVE GateInv'
  <2>1. pc' = "handshake" /\ cut' = cut /\ queue[u] = NoCommit
    BY <1>7, AnswerEffect DEF InOrder
  <2>2. ASSUME ~cut, NEW v \in first' PROVE v \in evaluated' \/ queue'[v] # NoCommit
    <3>1. v \in Miners
      BY <1>7, <2>2, TypeAnswer DEF TypeOK, PoolTypes
    <3>2. CASE v = u
      BY <1>7, <2>1, <2>2, <3>2, AnswerEffect
    <3>3. CASE v # u
      BY <1>7, <2>2, <3>1, <3>3, AnswerEffect
    <3> QED
      BY <3>2, <3>3
  <2> QED
    BY <2>1, <2>2
<1>8. ASSUME NEW u \in Miners, Fail(u) \/ Run(u) PROVE GateInv'
  <2>1. /\ evaluated' = evaluated \cup {u}
        /\ queue' = [queue EXCEPT ![u] = NoCommit]
        /\ UNCHANGED <<pc, cut, first>> /\ pc = "evaluating"
    BY <1>8 DEF Fail, Run, Finalized
  <2> QED
    BY <1>0, <2>1 DEF TypeOK, PoolTypes
<1>9. CASE Deadline
  BY <1>0, <1>9 DEF Deadline, Finalized, Queued
<1>10. CASE AllEvaluated
  BY <1>0, <1>10 DEF AllEvaluated, Queued, agents
<1>11. CASE EndUnsettled \/ Settle
  BY <1>11 DEF EndUnsettled, Settle, NextRound, Reset, agents
<1>12. CASE Crash
  BY <1>12 DEF Crash, Forget
<1>13. QED
  BY <1>1, <1>2, <1>3, <1>4, <1>5, <1>6, <1>7, <1>8, <1>9, <1>10, <1>11, <1>12 DEF Next

\* Unless a round was cut after its handshake, every settlement finds all
\* agents of the first handshake evaluated, whatever was refused, put off,
\* failed or cut off by a deadline: the weights are not held back
\* (_wait_for_commit_and_agents).
THEOREM GateStaysOpen == Spec => []GateIsOpen
<1>1. Init => InOrder /\ GateInv
  BY OrderInit DEF Init, GateInv
<1>2. InOrder /\ GateInv => GateIsOpen
  BY DEF GateInv, GateIsOpen
<1>3. QED
  BY <1>1, <1>2, TypeInit, TypeStep, OrderStep, GateStep, PTL DEF Spec

-----------------------------------------------------------------------------
(* What a miner is paid for.                                               *)

\* Within a season every result, kept or of this round, is zero or was earned
\* by a registered run; between the rounds there is no result of a round.
EarnedInv ==
    /\ pc \notin {"evaluating", "settling"} => \A u \in Miners : reward[u] = 0
    /\ \A u \in runs : reward[u] \in earned[u] \cup {0}
    /\ generated => \A u \in Miners, c \in Commits :
                      kept[u][c].reward \in earned[u] \cup {0}

LEMMA EarnedInit == Init => EarnedInv
BY DEF Init, EarnedInv

LEMMA EarnedStep == TypeOK /\ InOrder /\ EarnedInv /\ [Next]_vars => EarnedInv'
<1> SUFFICES ASSUME TypeOK, InOrder, EarnedInv, [Next]_vars PROVE EarnedInv'
  OBVIOUS
<1>0. /\ runs \subseteq Miners /\ reward \in [Miners -> Rewards]
      /\ earned \in [Miners -> SUBSET Rewards]
      /\ kept \in [Miners -> [Commits -> Stats]]
  BY DEF TypeOK, RoundTypes, ResultTypes
<1> USE DEF EarnedInv
<1>1. ASSUME UNCHANGED <<generated, kept, earned, running>>,
             \/ UNCHANGED pc
             \/ pc' \in {"evaluating", "settling"}
             \/ pc \notin {"evaluating", "settling"}
      PROVE  EarnedInv'
  BY <1>1 DEF running
<1>2. CASE UNCHANGED vars
  BY <1>1, <1>2 DEF vars, clock, results
<1>3. CASE StartRound
  <2>1. CASE generated
    BY <1>1, <1>3, <2>1 DEF StartRound, results
  <2>2. CASE ~generated
    <3>1. \A u \in Miners, c \in Commits : kept'[u][c].reward = 0
      BY <1>3, <2>2 DEF StartRound, NothingKept, NoStats
    <3> QED
      BY <1>3, <2>2, <3>1 DEF StartRound, running
  <2> QED
    BY <2>1, <2>2
<1>4. CASE AskMiners \/ EndHandshake \/ Deadline \/ AllEvaluated
  BY <1>1, <1>4 DEF AskMiners, EndHandshake, Deadline, AllEvaluated, clock, results, running
<1>5. CASE Register
  <2>1. /\ pc = "guard" /\ pc' = "evaluating" /\ runs' \subseteq active
        /\ UNCHANGED <<generated, kept, earned, reward>>
    BY <1>5 DEF Register, clock, results
  <2>2. \A u \in runs' : reward'[u] = 0
    BY <2>1 DEF TypeOK, RoundTypes
  <2> QED
    BY <2>1, <2>2
<1>6. ASSUME NEW u \in Miners, Answer(u) PROVE EarnedInv'
  BY <1>1, <1>6, AnswerEffect DEF clock, results
<1>7. ASSUME NEW u \in Miners, Fail(u) PROVE EarnedInv'
  <2>1. /\ UNCHANGED <<generated, pc, earned, running>>
        /\ \/ kept' = kept
           \/ kept' = [kept EXCEPT ![u][queue[u]] =
                         [reward |-> 0, round |-> round, ran |-> FALSE]]
    BY <1>7 DEF Fail, Registered, clock
  <2>2. \A v \in Miners, c \in Commits :
           kept'[v][c] = kept[v][c] \/ kept'[v][c].reward = 0
    BY <1>0, <2>1
  <2> QED
    BY <2>1, <2>2 DEF running
<1>8. ASSUME NEW u \in Miners, Run(u) PROVE EarnedInv'
  <2>1. PICK r \in Rewards :
           /\ reward' = [reward EXCEPT ![u] = r]
           /\ earned' = IF u \in runs THEN [earned EXCEPT ![u] = @ \cup ({r} \ {0})]
                        ELSE earned
           /\ Registered(u, [reward |-> r, round |-> round, ran |-> TRUE])
    BY <1>8 DEF Run
  <2>2. UNCHANGED <<generated, pc, runs>> /\ pc = "evaluating"
    BY <1>8 DEF Run, clock
  <2>3. \A v \in Miners : earned[v] \subseteq earned'[v]
    BY <1>0, <2>1
  <2>4. u \in runs => r \in earned'[u] \cup {0}
    BY <1>0, <2>1
  <2>5. \A v \in runs : reward'[v] \in earned'[v] \cup {0}
    BY <1>0, <2>1, <2>3, <2>4
  <2>6. \A v \in Miners, c \in Commits :
           kept'[v][c] = kept[v][c] \/ (v = u /\ u \in runs /\ kept'[v][c].reward = r)
    BY <1>0, <2>1 DEF Registered
  <2> QED
    BY <2>2, <2>3, <2>4, <2>5, <2>6
<1>9. ASSUME NextRound, \A u \in Miners : reward'[u] = 0, runs' \subseteq Miners,
             \A u \in Miners, c \in Commits :
                kept'[u][c].reward \in {kept[u][c].reward, 0}
      PROVE  EarnedInv'
  <2>1. generated' => generated /\ earned' = earned
    BY <1>9 DEF NextRound
  <2> QED
    BY <1>9, <2>1 DEF NextRound
<1>10. CASE SkipRound
  BY <1>0, <1>9, <1>10 DEF SkipRound, running
<1>11. CASE EndUnsettled
  BY <1>9, <1>11 DEF EndUnsettled, Reset
<1>12. CASE Settle
  <2>1. kept' \in {kept, Purged} /\ NextRound /\ Reset
    BY <1>12 DEF Settle
  <2>2. \A u \in Miners, c \in Commits : kept'[u][c].reward \in {kept[u][c].reward, 0}
    BY <2>1 DEF Purged, NoStats
  <2> QED
    BY <1>9, <2>1, <2>2 DEF Reset
<1>13. CASE Crash
  BY <1>13 DEF Crash
<1>14. QED
  BY <1>2, <1>3, <1>4, <1>5, <1>6, <1>7, <1>8, <1>10, <1>11, <1>12, <1>13 DEF Next

\* What is published for a miner, other than a zero, was earned in this season
\* by a run of its agent that was registered on the platform
\* (_best_run_payload_for_miner).
THEOREM RunsCounted == Spec => []CountsForItsRuns
<1>1. TypeOK /\ InOrder /\ EarnedInv => CountsForItsRuns
  <2> SUFFICES ASSUME TypeOK, InOrder, EarnedInv, pc = "settling",
                      NEW u \in Miners, NEW r \in Results(u)
               PROVE  r \in earned[u] \cup {0}
    BY DEF CountsForItsRuns
  <2>1. CASE u \in runs /\ r = reward[u]
    BY <2>1 DEF EarnedInv
  <2>2. CASE \E c \in Commits : r = kept[u][c].reward
    BY <2>2 DEF EarnedInv, InOrder
  <2> QED
    BY <2>1, <2>2 DEF Results
<1>2. QED
  BY <1>1, TypeInit, TypeStep, OrderInit, OrderStep, EarnedInit, EarnedStep, PTL DEF Spec

-----------------------------------------------------------------------------
(* The cooldown.                                                           *)

\* Within a season, whoever is queued has its cooldown behind it.
CooldownInv ==
    generated => \A u \in Miners :
        queue[u] # NoCommit /\ last[u] > 0 => round >= last[u] + cooldown.min

LEMMA CooldownNumbers ==
    ASSUME TypeOK
    PROVE  /\ round \in Nat /\ cooldown.min \in Nat
           /\ \A u \in Miners : last[u] \in Nat
BY PoolAssumption DEF TypeOK, PoolTypes, RoundTypes, PoolAssumption

LEMMA CooldownStep == TypeOK /\ InOrder /\ CooldownInv /\ [Next]_vars => CooldownInv'
<1> SUFFICES ASSUME TypeOK, InOrder, CooldownInv, [Next]_vars PROVE CooldownInv'
  OBVIOUS
<1> USE DEF CooldownInv
<1>1. CASE UNCHANGED vars
  BY <1>1 DEF vars, agents, clock
<1>2. CASE StartRound
  <2>1. CASE generated
    BY <1>2, <2>1 DEF StartRound, agents
  <2>2. CASE ~generated
    BY <1>2, <2>2 DEF StartRound, Forget, NobodyQueued
  <2> QED
    BY <2>1, <2>2
<1>3. ASSUME NextRound, UNCHANGED <<queue, agents>> PROVE CooldownInv'
  <2>1. CASE generated'
    <3>1. round' = round + 1 /\ generated /\ cooldown' = cooldown
      BY <1>3, <2>1 DEF NextRound
    <3> QED
      BY <1>3, <3>1, CooldownNumbers DEF agents
  <2>2. CASE ~generated'
    BY <2>2
  <2> QED
    BY <2>1, <2>2
<1>4. CASE SkipRound
  BY <1>3, <1>4 DEF SkipRound
<1>5. CASE AskMiners
  BY <1>5 DEF AskMiners, NobodyQueued
<1>6. CASE EndHandshake \/ Register \/ AllEvaluated
  BY <1>6 DEF EndHandshake, Register, AllEvaluated, agents, clock
<1>7. ASSUME NEW u \in Miners, Answer(u) PROVE CooldownInv'
  <2>1. UNCHANGED <<clock, last>>
    BY <1>7, AnswerEffect
  <2>2. queue'[u] # queue[u] /\ last[u] > 0 => round >= last[u] + cooldown.min
    BY <1>7, AnswerEffect, CooldownNumbers
  <2>3. \A v \in Miners \ {u} : queue'[v] = queue[v]
    BY <1>7, AnswerEffect
  <2> QED
    BY <2>1, <2>2, <2>3 DEF clock
<1>8. ASSUME NEW u \in Miners, Fail(u) \/ Run(u) PROVE CooldownInv'
  <2>1. /\ UNCHANGED clock
        /\ queue' = [queue EXCEPT ![u] = NoCommit]
        /\ last' = [v \in Miners |-> IF v \in {u} THEN round ELSE last[v]]
    BY <1>8 DEF Fail, Run, Finalized
  <2> QED
    BY <2>1 DEF clock, TypeOK, PoolTypes
<1>9. CASE Deadline
  BY <1>9 DEF Deadline, NobodyQueued
<1>10. CASE EndUnsettled \/ Settle
  BY <1>3, <1>10 DEF EndUnsettled, Settle, Reset
<1>11. CASE Crash
  BY <1>11 DEF Crash
<1>12. QED
  BY <1>1, <1>2, <1>4, <1>5, <1>6, <1>7, <1>8, <1>9, <1>10, <1>11 DEF Next

CooldownStepped ==
    generated /\ generated' => \A u \in Miners :
        last[u] > 0 /\ last'[u] # last[u] => last'[u] >= last[u] + cooldown.min

LEMMA CooldownAction == TypeOK /\ InOrder /\ CooldownInv /\ [Next]_vars => CooldownStepped
<1> SUFFICES ASSUME TypeOK, InOrder, CooldownInv, [Next]_vars, generated, generated'
             PROVE  CooldownStepped
  BY DEF CooldownStepped
<1> USE DEF CooldownStepped
<1>1. ASSUME last' = last PROVE CooldownStepped
  BY <1>1
<1>2. CASE \/ UNCHANGED vars \/ StartRound \/ SkipRound \/ AskMiners \/ EndHandshake
           \/ Register \/ AllEvaluated \/ EndUnsettled \/ Settle
  BY <1>1, <1>2 DEF vars, StartRound, SkipRound, AskMiners, EndHandshake, Register,
    AllEvaluated, EndUnsettled, Settle, Reset, agents
<1>3. ASSUME NEW u \in Miners, Answer(u) PROVE CooldownStepped
  BY <1>1, <1>3, AnswerEffect
<1>4. ASSUME NEW done \in SUBSET Queued, Finalized(done) PROVE CooldownStepped
  BY <1>4 DEF Finalized, Queued, CooldownInv
<1>5. ASSUME NEW u \in Miners, Fail(u) \/ Run(u) PROVE CooldownStepped
  BY <1>4, <1>5 DEF Fail, Run
<1>6. CASE Deadline
  BY <1>4, <1>6 DEF Deadline
<1>7. CASE Crash
  BY <1>7 DEF Crash
<1>8. QED
  BY <1>2, <1>3, <1>5, <1>6, <1>7 DEF Next

\* Within a season an agent is evaluated again only when its cooldown is over,
\* and never forgets when it was last (_is_cooldown_active).
THEOREM CooldownKept == Spec => CooldownIsKept
<1>1. Init => CooldownInv
  BY DEF Init, CooldownInv
<1>2. TypeOK /\ InOrder /\ CooldownInv /\ [Next]_vars =>
        [generated /\ generated' => \A u \in Miners :
            last[u] > 0 /\ last'[u] # last[u] => last'[u] >= last[u] + cooldown.min]_vars
  BY CooldownAction DEF CooldownStepped
<1>3. QED
  BY <1>1, <1>2, TypeInit, TypeStep, OrderInit, OrderStep, CooldownStep, PTL
  DEF Spec, CooldownIsKept

-----------------------------------------------------------------------------
(* The rounds the validator was left out for.                              *)

\* No kept result is of a round this validator was left out for; those of the
\* suspicious round are of its miners alone, so that they can be found.
ZerosInv ==
    /\ excluded \subseteq 1..round - 1
    /\ pc # "settling" => zeroed = {}
    /\ generated => \A u \in Miners, c \in Commits :
         /\ kept[u][c].round \notin excluded
         /\ kept[u][c].round <= round
         /\ kept[u][c].round = round => pc \in {"evaluating", "settling"}
         /\ kept[u][c].round = round /\ pc = "evaluating" => u \in runs /\ queue[u] = NoCommit
         /\ suspicion # Nothing /\ kept[u][c].round = suspicion.round => u \in suspicion.of
    /\ generated /\ suspicion # Nothing =>
         /\ suspicion.round <= round
         /\ suspicion.round = round => pc = "settling"

LEMMA ZerosInit == Init => ZerosInv
<1> SUFFICES ASSUME Init PROVE ZerosInv
  OBVIOUS
<1>1. excluded = {} /\ zeroed = {} /\ generated = FALSE
  BY DEF Init
<1>2. QED
  BY <1>1 DEF ZerosInv

LEMMA ZerosStep == TypeOK /\ InOrder /\ ZerosInv /\ [Next]_vars => ZerosInv'
<1> SUFFICES ASSUME TypeOK, InOrder, ZerosInv, [Next]_vars PROVE ZerosInv'
  OBVIOUS
<1>0. /\ round \in Nat /\ round > 0 /\ LastRound \in Nat
      /\ kept \in [Miners -> [Commits -> Stats]]
      /\ \A u \in Miners, c \in Commits : kept[u][c].round \in Nat
      /\ suspicion # Nothing => suspicion.round \in Nat /\ suspicion.round > 0
  BY PoolAssumption DEF TypeOK, RoundTypes, ResultTypes, Stats, PoolAssumption
<1>a. ASSUME generated, suspicion # Nothing
      PROVE  /\ suspicion.round \in 1..round
             /\ pc # "settling" => suspicion.round \in 1..round - 1
  <2>1. suspicion.round \in Nat /\ suspicion.round > 0
    BY <1>0, <1>a
  <2>2. suspicion.round <= round /\ (suspicion.round = round => pc = "settling")
    BY <1>a DEF ZerosInv
  <2> DEFINE e == suspicion.round
  <2>3. e \in Nat /\ e > 0 /\ e <= round /\ round \in Nat
    BY <1>0, <2>1, <2>2
  <2>4. pc # "settling" => e # round
    BY <2>2
  <2> HIDE DEF e
  <2>5. e \in 1..round
    BY <2>3
  <2>6. e # round => e \in 1..round - 1
    BY <2>3
  <2> QED
    BY <2>4, <2>5, <2>6 DEF e
<1> USE DEF ZerosInv
<1>1. ASSUME UNCHANGED <<round, generated, kept, suspicion, excluded, zeroed>>,
             \/ UNCHANGED <<pc, runs, queue>>
             \/ pc \notin {"evaluating", "settling"} /\ pc' # "settling"
      PROVE  ZerosInv'
  BY <1>1
<1>2. CASE UNCHANGED vars
  BY <1>1, <1>2 DEF vars, clock, results, running
<1>3. CASE StartRound
  <2>1. CASE generated
    BY <1>1, <1>3, <2>1 DEF StartRound, results, running
  <2>2. CASE ~generated
    <3>1. /\ \A u \in Miners, c \in Commits : kept'[u][c].round = 0
          /\ suspicion' = Nothing /\ pc' = "candidates"
          /\ UNCHANGED <<round, excluded, zeroed>> /\ pc # "settling"
      BY <1>3, <2>2 DEF StartRound, Forget, NothingKept, NoStats, running
    <3>2. 0 \notin excluded
      BY <1>0
    <3> QED
      BY <1>0, <3>1, <3>2
  <2> QED
    BY <2>1, <2>2
<1>4. CASE AskMiners \/ EndHandshake \/ Register
  BY <1>1, <1>4 DEF AskMiners, EndHandshake, Register, clock, results, running
<1>5. ASSUME NEW u \in Miners, Answer(u) PROVE ZerosInv'
  <2>1. /\ pc = "handshake" /\ pc' = "handshake"
        /\ UNCHANGED <<clock, results, running>>
    BY <1>5, AnswerEffect
  <2> QED
    BY <1>1, <2>1 DEF clock, results, running
<1>6. ASSUME NEW u \in Miners, NEW stats \in Stats, stats.round = round,
             pc = "evaluating", UNCHANGED <<clock, pc, suspicion, excluded, runs, zeroed>>,
             u \in Queued, queue' = [queue EXCEPT ![u] = NoCommit],
             Registered(u, stats) \/ UNCHANGED kept
      PROVE  ZerosInv'
  <2>1. \A v \in Miners, c \in Commits :
           \/ kept'[v][c] = kept[v][c]
           \/ v = u /\ u \in runs /\ kept'[v][c] = stats
    BY <1>0, <1>6 DEF Registered
  <2>2. \A v \in Miners : queue[v] = NoCommit => queue'[v] = NoCommit
    BY <1>6 DEF TypeOK, PoolTypes
  <2>3. queue'[u] = NoCommit
    BY <1>6 DEF TypeOK, PoolTypes
  <2>4. generated /\ round \notin excluded
    BY <1>0, <1>6 DEF InOrder
  <2>5. suspicion # Nothing => suspicion.round \in 1..round - 1
    BY <1>a, <1>6, <2>4
  <2> QED
    BY <1>0, <1>6, <2>1, <2>2, <2>3, <2>4, <2>5 DEF clock
<1>7. ASSUME NEW u \in Miners, Fail(u) PROVE ZerosInv'
  <2>1. [reward |-> 0, round |-> round, ran |-> FALSE] \in Stats
    BY PoolAssumption DEF Stats, TypeOK, RoundTypes, PoolAssumption
  <2> QED
    BY <1>6, <1>7, <2>1 DEF Fail, running
<1>8. ASSUME NEW u \in Miners, Run(u) PROVE ZerosInv'
  <2>1. PICK r \in Rewards : Registered(u, [reward |-> r, round |-> round, ran |-> TRUE])
    BY <1>8 DEF Run
  <2>2. [reward |-> r, round |-> round, ran |-> TRUE] \in Stats
    BY DEF Stats, TypeOK, RoundTypes
  <2> QED
    BY <1>6, <1>8, <2>1, <2>2 DEF Run
<1>9. ASSUME pc = "evaluating", pc' = "settling", zeroed' \subseteq zeroed \cup Queued,
             Mark, UNCHANGED <<clock, kept, excluded, runs>>
      PROVE  ZerosInv'
  <2>1. \A u \in Miners, c \in Commits :
           kept[u][c].round = round => u \in runs /\ u \notin zeroed'
    BY <1>9 DEF InOrder, Queued
  <2>2. \/ suspicion' = suspicion
        \/ suspicion' = [round |-> round, of |-> runs \ zeroed']
    BY <1>9 DEF Mark
  <2>3. CASE suspicion' = suspicion
    BY <1>9, <2>3 DEF clock
  <2>4. CASE suspicion' = [round |-> round, of |-> runs \ zeroed']
    <3>1. suspicion'.round = round /\ suspicion'.of = runs \ zeroed'
      BY <2>4
    <3> QED
      BY <1>0, <1>9, <2>1, <3>1 DEF clock
  <2> QED
    BY <2>2, <2>3, <2>4
<1>10. CASE Deadline \/ AllEvaluated
  BY <1>9, <1>10 DEF Deadline, AllEvaluated
<1>11. ASSUME NextRound, zeroed' = {}, kept' \in {kept, Purged}, suspicion' \in {suspicion, Nothing},
              \/ excluded' = ThisSeason(excluded)
              \/ /\ suspicion # Nothing /\ kept' = Purged /\ generated
                 /\ excluded' = ThisSeason(excluded \cup {suspicion.round})
       PROVE  ZerosInv'
  <2>1. pc' = "start"
    BY <1>11 DEF NextRound
  <2>2. CASE ~(round < LastRound)
    BY <1>0, <1>11, <2>1, <2>2 DEF NextRound, ThisSeason
  <2>3. CASE round < LastRound
    <3>1. round' = round + 1 /\ generated' = generated
      BY <1>11, <2>3 DEF NextRound, TypeOK, RoundTypes
    <3>2. excluded' \subseteq 1..round' - 1
      <4>1. \A e \in excluded' : e \in excluded \/ e \in 1..round
        BY <1>a, <1>11, <2>3 DEF ThisSeason
      <4>2. \A e \in excluded : e \in 1..round - 1
        OBVIOUS
      <4> HIDE DEF ZerosInv
      <4> QED
        BY <1>0, <3>1, <4>1, <4>2
    <3>3. \A u \in Miners, c \in Commits :
             \/ kept'[u][c] = kept[u][c]
             \/ kept'[u][c].round = 0
      BY <1>0, <1>11 DEF Purged, NoStats
    <3>4. ASSUME generated', NEW u \in Miners, NEW c \in Commits
          PROVE  kept'[u][c].round \notin excluded'
      <4>1. CASE excluded' = ThisSeason(excluded)
        BY <1>0, <2>3, <3>1, <3>3, <3>4, <4>1 DEF ThisSeason
      <4>2. CASE /\ suspicion # Nothing /\ kept' = Purged /\ generated
                 /\ excluded' = ThisSeason(excluded \cup {suspicion.round})
        <5>1. excluded' = excluded \cup {suspicion.round}
          BY <2>3, <4>2 DEF ThisSeason
        <5>2. kept[u][c].round = suspicion.round => kept'[u][c].round = 0
          BY <4>2 DEF Purged, NoStats
        <5> QED
          <6>1. suspicion.round > 0 /\ 0 \notin excluded
            BY <1>0, <4>2
          <6>2. kept[u][c].round \notin excluded
            BY <3>4, <4>2
          <6> QED
            BY <3>3, <5>1, <5>2, <6>1, <6>2
      <4> QED
        BY <1>11, <4>1, <4>2
    <3>5. ASSUME generated', NEW u \in Miners, NEW c \in Commits
          PROVE  /\ kept'[u][c].round < round'
                 /\ suspicion' # Nothing /\ kept'[u][c].round = suspicion'.round
                       => u \in suspicion'.of
      BY <1>0, <1>11, <3>1, <3>3, <3>5
    <3>6. generated' /\ suspicion' # Nothing => suspicion'.round < round'
      BY <1>0, <1>11, <3>1
    <3>7. \A u \in Miners, c \in Commits : kept'[u][c].round \in Nat
      BY <1>0, <3>3
    <3> HIDE DEF ZerosInv
    <3> QED
      BY <1>0, <1>11, <2>1, <3>1, <3>2, <3>4, <3>5, <3>6, <3>7 DEF ZerosInv
  <2> QED
    BY <2>2, <2>3
<1>12. CASE SkipRound
  BY <1>11, <1>12 DEF SkipRound, running, InOrder
<1>13. CASE EndUnsettled
  BY <1>11, <1>13 DEF EndUnsettled, Reset
<1>14. CASE Settle
  <2>1. /\ NextRound /\ zeroed' = {} /\ suspicion' = Nothing /\ generated
        /\ \/ kept' = kept /\ excluded' = ThisSeason(excluded)
           \/ /\ suspicion # Nothing /\ kept' = Purged
              /\ excluded' = ThisSeason(excluded \cup {suspicion.round})
    BY <1>14 DEF Settle, Reset, InOrder
  <2> QED
    BY <1>11, <2>1
<1>15. CASE Crash
  BY <1>0, <1>15 DEF Crash
<1>16. QED
  BY <1>2, <1>3, <1>4, <1>5, <1>7, <1>8, <1>10, <1>12, <1>13, <1>14, <1>15 DEF Next

\* After a validator was left out for the zeros of a round, no result of that
\* round is used again in the season (_purge_all_zero_round_results).
THEOREM ExcludedZerosGone == Spec => []ExcludedZerosAreGone
<1>1. TypeOK /\ InOrder /\ ZerosInv => ExcludedZerosAreGone
  <2> SUFFICES ASSUME TypeOK, InOrder, ZerosInv, NEW u \in Miners, reused[u] # NoCommit,
                      pc \in {"guard", "evaluating", "settling"}
               PROVE  kept[u][reused[u]].round \notin excluded
    BY DEF ExcludedZerosAreGone
  <2>1. reused[u] \in Commits /\ generated
    BY DEF TypeOK, RoundTypes, InOrder
  <2> QED
    BY <2>1 DEF ZerosInv
<1>2. QED
  BY <1>1, TypeInit, TypeStep, OrderInit, OrderStep, ZerosInit, ZerosStep, PTL DEF Spec
=============================================================================
