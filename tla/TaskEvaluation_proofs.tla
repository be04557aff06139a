------------------------ MODULE TaskEvaluation_proofs ------------------------
(***************************************************************************)
(* What holds of the evaluation and its gateway for any agents, tasks,     *)
(* costs, limits, batches, retries, failing requests and crashes.          *)
(***************************************************************************)
EXTENDS TaskEvaluation, SumTheorems

\* The actions of the gateway in which a handler moves on and nothing is charged.
Moves(c) == Priced(c) \/ Lock(c) \/ Refresh(c) \/ Send(c) \/ Again(c) \/ Fail(c)

\* What a handler that moves on may become.
LEMMA MoveEffect ==
    ASSUME GatewayTypeOK, NEW c \in Calls, Moves(c)
    PROVE  /\ call[c] \in Handler
           /\ \E h \in {Idle} \cup Handler :
                 /\ call' = [call EXCEPT ![c] = h]
                 /\ h # Idle => h.task = call[c].task
           /\ UNCHANGED <<allowed, usage>>
           /\ prices' \in {"fresh", "stale"}
<1> USE GatewayAssumption DEF GatewayAssumption
<1>1. call[c] \in Handler
  BY DEF Moves, Priced, Lock, Refresh, Send, Again, Fail, At, GatewayTypeOK
<1>2. ASSUME Checked(c)
      PROVE  \E h \in {Idle} \cup Handler :
                /\ call' = [call EXCEPT ![c] = h]
                /\ h # Idle => h.task = call[c].task
  BY <1>1, <1>2 DEF Checked, Handler
<1>3. ASSUME NEW where \in {"refreshing", "upstream"}, call' = [call EXCEPT ![c].at = where]
      PROVE  \E h \in {Idle} \cup Handler :
                /\ call' = [call EXCEPT ![c] = h]
                /\ h # Idle => h.task = call[c].task
  <2> DEFINE h == [call[c] EXCEPT !.at = where]
  <2>1. h \in Handler /\ h.task = call[c].task
    BY <1>1 DEF Handler
  <2>2. call' = [call EXCEPT ![c] = h]
    BY <1>3
  <2> QED
    BY <2>1, <2>2
<1>4. CASE Priced(c)
  BY <1>1, <1>2, <1>4 DEF Priced, GatewayTypeOK
<1>5. CASE Lock(c)
  BY <1>1, <1>3, <1>5 DEF Lock, GatewayTypeOK
<1>6. CASE Refresh(c)
  BY <1>1, <1>2, <1>6 DEF Refresh, GatewayTypeOK
<1>7. CASE Send(c)
  BY <1>1, <1>3, <1>7 DEF Send, GatewayTypeOK
<1>8. CASE Again(c)
  <2>1. PICK h \in Retries(c) \cup Unforced(c) : call' = [call EXCEPT ![c] = h]
    BY <1>8 DEF Again
  <2>2. h \in Handler /\ h.task = call[c].task
    <3>1. CASE h \in Retries(c)
      <4>1. call[c].tries < MaxRetries /\ h = [call[c] EXCEPT !.at = "queued", !.tries = @ + 1]
        BY <3>1 DEF Retries
      <4>2. call[c].tries + 1 \in 0..MaxRetries
        BY <1>1, <4>1 DEF Handler
      <4> QED
        BY <1>1, <4>1, <4>2 DEF Handler
    <3>2. CASE h \in Unforced(c)
      <4>1. h = [call[c] EXCEPT !.at = "queued", !.forced = FALSE]
        BY <3>2 DEF Unforced
      <4> QED
        BY <1>1, <4>1 DEF Handler
    <3> QED
      BY <3>1, <3>2
  <2> QED
    BY <1>1, <1>8, <2>1, <2>2 DEF Again, GatewayTypeOK
<1>9. CASE Fail(c)
  BY <1>1, <1>9 DEF Fail, GatewayTypeOK
<1> QED
  BY <1>4, <1>5, <1>6, <1>7, <1>8, <1>9 DEF Moves

\* The steps of the evaluator of which the gateway sees nothing.
Local ==
    \/ CannotDeploy \/ StartContainer \/ Healthy \/ Unhealthy \/ StartBatch \/ EndBatch
    \/ Finish \/ Deadline \/ Done \/ UNCHANGED vars
    \/ \E t \in Tasks : EndTask(t) \/ Record(t)

\* What a step is for the gateway.
GatewayStep ==
    \/ UNCHANGED gatewayVars
    \/ SetAllowed(Tasks)
    \/ Redeploy
    \/ Expire
    \/ \E c \in Calls :
          \/ \E t \in Tasks, p \in Providers : Request(c, t, p)
          \/ Moves(c)
          \/ \E cost \in Costs : Charge(c, cost)

LEMMA StepsOfTheGateway ==
    ASSUME TypeOK, [Next]_vars
    PROVE  GatewayStep
<1>1. ASSUME NEW c \in Calls, NEW a \in Agents, AgentCalls(c, a) PROVE GatewayStep
  <2>1. Given(a) \subseteq Tasks
    BY DEF Given
  <2> QED
    BY <1>1, <2>1 DEF AgentCalls, GatewayStep
<1>2. ASSUME NEW c \in Calls, GatewayWorks(c) PROVE GatewayStep
  BY <1>2 DEF GatewayWorks, Moves, GatewayStep
<1>3. ASSUME NEW c \in Calls, NEW cost \in Costs, GatewayCharges(c, cost) PROVE GatewayStep
  BY <1>3 DEF GatewayCharges, GatewayStep
<1>4. CASE AllowTasks
  <2>1. SetAllowed(Tasks) \/ UNCHANGED gatewayVars
    BY <1>4 DEF AllowTasks
  <2> QED
    BY <2>1 DEF GatewayStep
<1>5. CASE Crash
  BY <1>5 DEF Crash, GatewayStep
<1>6. CASE PricesExpire
  BY <1>6 DEF PricesExpire, GatewayStep
<1>7. CASE Local
  <2>1. UNCHANGED gatewayVars
    BY <1>7 DEF Local, CannotDeploy, StartContainer, Healthy, Unhealthy, StartBatch, EndBatch,
                Finish, Deadline, Done, EndTask, Record, vars
  <2> QED
    BY <2>1 DEF GatewayStep
<1> QED
  BY <1>1, <1>2, <1>3, <1>4, <1>5, <1>6, <1>7 DEF Next, Evaluate, Local

(***************************************************************************)
(* The gateway.                                                            *)
(***************************************************************************)

LEMMA GatewayTypeStep ==
    ASSUME GatewayTypeOK, GatewayStep
    PROVE  GatewayTypeOK'
<1> USE GatewayAssumption DEF GatewayAssumption
<1>1. CASE UNCHANGED gatewayVars
  BY <1>1 DEF gatewayVars, GatewayTypeOK
<1>2. CASE SetAllowed(Tasks)
  BY <1>2 DEF SetAllowed, GatewayTypeOK, Unused
<1>3. CASE Redeploy
  BY <1>3 DEF Redeploy, GatewayTypeOK, Unused
<1>4. CASE Expire
  BY <1>4 DEF Expire, GatewayTypeOK
<1>5. ASSUME NEW c \in Calls, NEW t \in Tasks, NEW p \in Providers, Request(c, t, p)
      PROVE  GatewayTypeOK'
  <2> DEFINE h == [at |-> "pricing", task |-> t, provider |-> p, tries |-> 0, forced |-> ForceJson]
  <2>1. h \in Handler
    BY DEF Handler
  <2>2. call' = [call EXCEPT ![c] = h]
    BY <1>5 DEF Request
  <2> HIDE DEF h
  <2> QED
    BY <1>5, <2>1, <2>2 DEF Request, GatewayTypeOK
<1>6. ASSUME NEW c \in Calls, Moves(c) PROVE GatewayTypeOK'
  <2>1. PICK h \in {Idle} \cup Handler : call' = [call EXCEPT ![c] = h]
    BY <1>6, MoveEffect
  <2> QED
    BY <1>6, <2>1, MoveEffect DEF GatewayTypeOK
<1>7. ASSUME NEW c \in Calls, NEW cost \in Costs, Charge(c, cost) PROVE GatewayTypeOK'
  <2>1. cost \in Nat
    OBVIOUS
  <2>2. usage' \in [Tasks -> Nat]
    BY <1>7, <2>1 DEF Charge, GatewayTypeOK
  <2> QED
    BY <1>7, <2>2 DEF Charge, GatewayTypeOK
<1> QED
  BY <1>1, <1>2, <1>3, <1>4, <1>5, <1>6, <1>7 DEF GatewayStep

LEMMA CallsInFlight ==
    ASSUME NEW t \in Tasks
    PROVE  /\ IsFiniteSet(InFlight(t))
           /\ Cardinality(InFlight(t)) \in Nat
           /\ Cardinality(Calls) \in Nat
           /\ Cardinality(InFlight(t)) <= Cardinality(Calls)
BY GatewayAssumption, FS_Subset, FS_CardinalityType DEF GatewayAssumption, InFlight

LEMMA Times == \A m, n, k \in Nat : n <= k => m * n <= m * k
OBVIOUS

LEMMA TimesLess == \A m, n \in Nat : n > 0 => m * (n - 1) + m = m * n
OBVIOUS

\* The room left does not shrink when a task is charged no more and has no new call.
LEMMA RoomKept ==
    ASSUME GatewayTypeOK, GatewayTypeOK', NEW t \in Tasks,
           usage[t] + MaxCost * Cardinality(InFlight(t)) < CostLimit + MaxCost * Cardinality(Calls),
           usage'[t] <= usage[t],
           InFlight(t)' \subseteq InFlight(t)
    PROVE  usage'[t] + MaxCost * Cardinality(InFlight(t)')
             < CostLimit + MaxCost * Cardinality(Calls)
<1> DEFINE n == Cardinality(InFlight(t)')
           k == Cardinality(InFlight(t))
           all == Cardinality(Calls)
<1>1. n \in Nat /\ k \in Nat /\ all \in Nat /\ n <= k
  BY CallsInFlight, FS_Subset, FS_CardinalityType
<1>2. usage[t] \in Nat /\ usage'[t] \in Nat /\ MaxCost \in Nat /\ CostLimit \in Nat
  BY GatewayAssumption DEF GatewayTypeOK, GatewayAssumption
<1>3. MaxCost * n <= MaxCost * k /\ MaxCost * n \in Nat /\ MaxCost * k \in Nat /\ MaxCost * all \in Nat
  BY <1>1, <1>2, Times
<1> HIDE DEF n, k, all
<1>4. usage[t] + MaxCost * k < CostLimit + MaxCost * all
  BY DEF k, all
<1>5. usage'[t] + MaxCost * n < CostLimit + MaxCost * all
  BY <1>2, <1>3, <1>4
<1> QED
  BY <1>5 DEF n, all

\* A task without usage has room for every call.
LEMMA RoomBelow ==
    ASSUME GatewayTypeOK', NEW t \in Tasks, usage'[t] < CostLimit
    PROVE  usage'[t] + MaxCost * Cardinality(InFlight(t)')
             < CostLimit + MaxCost * Cardinality(Calls)
<1> DEFINE n == Cardinality(InFlight(t)')
           all == Cardinality(Calls)
<1>1. InFlight(t)' \subseteq Calls
  BY DEF InFlight
<1>2. n \in Nat /\ all \in Nat /\ n <= all
  BY <1>1, GatewayAssumption, FS_Subset, FS_CardinalityType DEF GatewayAssumption
<1>3. usage'[t] \in Nat /\ MaxCost \in Nat /\ CostLimit \in Nat
  BY GatewayAssumption DEF GatewayTypeOK, GatewayAssumption
<1>4. MaxCost * n <= MaxCost * all /\ MaxCost * n \in Nat /\ MaxCost * all \in Nat
  BY <1>2, <1>3, Times
<1> HIDE DEF n, all
<1>5. usage'[t] + MaxCost * n < CostLimit + MaxCost * all
  BY <1>3, <1>4
<1> QED
  BY <1>5 DEF n, all

\* The answer of a call uses no more than the room kept for it.
LEMMA RoomCharged ==
    ASSUME GatewayTypeOK, GatewayTypeOK', NEW t \in Tasks, NEW c \in InFlight(t),
           usage[t] + MaxCost * Cardinality(InFlight(t)) < CostLimit + MaxCost * Cardinality(Calls),
           usage'[t] <= usage[t] + MaxCost,
           InFlight(t)' = InFlight(t) \ {c}
    PROVE  usage'[t] + MaxCost * Cardinality(InFlight(t)')
             < CostLimit + MaxCost * Cardinality(Calls)
<1> DEFINE n == Cardinality(InFlight(t)')
           k == Cardinality(InFlight(t))
           all == Cardinality(Calls)
<1>1. k \in Nat /\ all \in Nat /\ k > 0 /\ n = k - 1
  BY CallsInFlight, FS_RemoveElement, FS_EmptySet
<1>2. usage[t] \in Nat /\ usage'[t] \in Nat /\ MaxCost \in Nat /\ CostLimit \in Nat
  BY GatewayAssumption DEF GatewayTypeOK, GatewayAssumption
<1> HIDE DEF n, k, all
<1>3. MaxCost * n + MaxCost = MaxCost * k
  BY <1>1, <1>2, TimesLess
<1>4. MaxCost * n \in Nat /\ MaxCost * k \in Nat /\ MaxCost * all \in Nat
  BY <1>1, <1>2
<1>5. usage[t] + MaxCost * k < CostLimit + MaxCost * all
  BY DEF k, all
<1>6. usage'[t] + MaxCost * n < CostLimit + MaxCost * all
  BY <1>2, <1>3, <1>4, <1>5
<1> QED
  BY <1>6 DEF n, all

LEMMA RoomStep ==
    ASSUME GatewayTypeOK, RoomForCalls, GatewayStep
    PROVE  RoomForCalls'
<1> USE GatewayAssumption DEF GatewayAssumption
<1>0. GatewayTypeOK'
  BY GatewayTypeStep
<1> SUFFICES ASSUME NEW t \in Tasks
             PROVE  usage'[t] + MaxCost * Cardinality(InFlight(t)')
                      < CostLimit + MaxCost * Cardinality(Calls)
  BY DEF RoomForCalls, InFlight
<1>a. usage[t] + MaxCost * Cardinality(InFlight(t)) < CostLimit + MaxCost * Cardinality(Calls)
  BY DEF RoomForCalls
<1>b. usage[t] \in Nat
  BY DEF GatewayTypeOK
<1>1. CASE UNCHANGED gatewayVars
  <2>1. usage'[t] <= usage[t] /\ InFlight(t)' \subseteq InFlight(t)
    BY <1>1, <1>b DEF gatewayVars, InFlight
  <2> QED
    BY <1>0, <1>a, <2>1, RoomKept
<1>2. CASE SetAllowed(Tasks) \/ Redeploy
  <2>1. usage'[t] < CostLimit
    BY <1>2 DEF SetAllowed, Redeploy, Unused
  <2> QED
    BY <1>0, <2>1, RoomBelow
<1>3. CASE Expire
  <2>1. usage'[t] <= usage[t] /\ InFlight(t)' \subseteq InFlight(t)
    BY <1>3, <1>b DEF Expire, InFlight
  <2> QED
    BY <1>0, <1>a, <2>1, RoomKept
<1>4. ASSUME NEW c \in Calls, NEW u \in Tasks, NEW p \in Providers, Request(c, u, p)
      PROVE  usage'[t] + MaxCost * Cardinality(InFlight(t)')
               < CostLimit + MaxCost * Cardinality(Calls)
  <2>1. CASE u = t
    <3>1. usage'[t] < CostLimit
      BY <1>4, <1>b, <2>1 DEF Request, Exceeded
    <3> QED
      BY <1>0, <3>1, RoomBelow
  <2>2. CASE u # t
    <3>1. usage'[t] <= usage[t]
      BY <1>4, <1>b DEF Request
    <3>2. InFlight(t)' \subseteq InFlight(t)
      BY <1>4, <2>2 DEF Request, InFlight, GatewayTypeOK
    <3> QED
      BY <1>0, <1>a, <3>1, <3>2, RoomKept
  <2> QED
    BY <2>1, <2>2
<1>5. ASSUME NEW c \in Calls, Moves(c)
      PROVE  usage'[t] + MaxCost * Cardinality(InFlight(t)')
               < CostLimit + MaxCost * Cardinality(Calls)
  <2>1. PICK h \in {Idle} \cup Handler :
           /\ call' = [call EXCEPT ![c] = h]
           /\ h # Idle => h.task = call[c].task
    BY <1>5, MoveEffect
  <2>2. call[c] # Idle
    BY <1>5 DEF Moves, Priced, Lock, Refresh, Send, Again, Fail, At
  <2>3. InFlight(t)' \subseteq InFlight(t)
    BY <2>1, <2>2 DEF InFlight, GatewayTypeOK
  <2>4. usage'[t] <= usage[t]
    BY <1>5, <1>b, MoveEffect
  <2> QED
    BY <1>0, <1>a, <2>3, <2>4, RoomKept
<1>6. ASSUME NEW c \in Calls, NEW cost \in Costs, Charge(c, cost)
      PROVE  usage'[t] + MaxCost * Cardinality(InFlight(t)')
               < CostLimit + MaxCost * Cardinality(Calls)
  <2>a. call[c] # Idle /\ call' = [call EXCEPT ![c] = Idle]
    BY <1>6 DEF Charge, At
  <2>b. cost \in 0..MaxCost
    OBVIOUS
  <2>0. call[c] # Idle /\ call' = [call EXCEPT ![c] = Idle] /\ cost \in Nat /\ cost <= MaxCost
    BY <2>a, <2>b
  <2>1. CASE call[c].task = t
    <3>1. c \in InFlight(t) /\ InFlight(t)' = InFlight(t) \ {c}
      BY <2>0, <2>1 DEF InFlight, GatewayTypeOK
    <3>2. usage'[t] <= usage[t] + MaxCost
      BY <1>6, <1>b, <2>0 DEF Charge, GatewayTypeOK
    <3> QED
      BY <1>0, <1>a, <3>1, <3>2, RoomCharged
  <2>2. CASE call[c].task # t
    <3>1. InFlight(t)' \subseteq InFlight(t)
      BY <2>0 DEF InFlight, GatewayTypeOK
    <3>2. usage'[t] <= usage[t]
      BY <1>6, <1>b, <2>2 DEF Charge, GatewayTypeOK
    <3> QED
      BY <1>0, <1>a, <3>1, <3>2, RoomKept
  <2> QED
    BY <2>1, <2>2
<1> QED
  BY <1>1, <1>2, <1>3, <1>4, <1>5, <1>6 DEF GatewayStep

(***************************************************************************)
(* The evaluation.                                                         *)
(***************************************************************************)

\* There is an agent exactly while an iteration runs, and it starts from nothing.
Iterations ==
    /\ stage = "idle" <=> agent = None
    /\ stage \in {"idle", "deploying", "deployed"} =>
          first = 1 /\ running = {} /\ outcome = Nothing /\ bill = Nothing /\ hits = 0

LEMMA IterationsStep ==
    ASSUME TypeOK, Iterations, [Next]_vars
    PROVE  Iterations'
<1> USE EvaluationAssumption DEF EvaluationAssumption
<1>1. CASE CannotDeploy \/ Deadline \/ Done \/ PricesExpire \/ UNCHANGED vars
  <2>1. UNCHANGED iterationVars
    BY <1>1 DEF CannotDeploy, Deadline, Done, PricesExpire, evaluationVars, vars
  <2> QED
    BY <2>1 DEF iterationVars, Iterations
<1>2. CASE StartContainer
  BY <1>2 DEF StartContainer, Iterations, TypeOK
<1>3. CASE Healthy
  BY <1>3 DEF Healthy, Iterations
<1>4. CASE Unhealthy \/ Finish \/ Crash
  BY <1>4 DEF Unhealthy, Finish, Crash, EndIteration, Iterations, Nothing
<1>5. CASE AllowTasks
  BY <1>5 DEF AllowTasks, Iterations
<1>6. CASE StartBatch
  BY <1>6 DEF StartBatch, Iterations
<1>7. CASE EndBatch
  BY <1>7 DEF EndBatch, Iterations
<1>8. ASSUME NEW t \in Tasks, EndTask(t) PROVE Iterations'
  BY <1>8 DEF EndTask, Iterations
<1>9. ASSUME NEW t \in Tasks, Record(t) PROVE Iterations'
  BY <1>9 DEF Record, Iterations
<1>10. ASSUME NEW c \in Calls, NEW a \in Agents, AgentCalls(c, a) PROVE Iterations'
  BY <1>10 DEF AgentCalls, iterationVars, Iterations
<1>11. ASSUME NEW c \in Calls, GatewayWorks(c) PROVE Iterations'
  BY <1>11 DEF GatewayWorks, Meanwhile, iterationVars, Iterations
<1>12. ASSUME NEW c \in Calls, NEW cost \in Costs, GatewayCharges(c, cost) PROVE Iterations'
  BY <1>12 DEF GatewayCharges, Iterations
<1> QED
  BY <1>1, <1>2, <1>3, <1>4, <1>5, <1>6, <1>7, <1>8, <1>9, <1>10, <1>11, <1>12
  DEF Next, Evaluate

\* The types of the evaluator, apart from the gateway's.
Evaluator ==
    /\ queue \in Seq(Agents)
    /\ agent \in Agents \cup {None}
    /\ stage \in Stages
    /\ first \in Nat \ {0}
    /\ running \subseteq Tasks
    /\ outcome \in [Tasks -> Outcomes \cup {None, Error}]
    /\ bill \in [Tasks -> Nat \cup {None}]
    /\ hits \in Nat
    /\ boxes \subseteq Agents
    /\ DOMAIN final = Agents
    /\ caller \in [Calls -> Agents \cup {None}]
    /\ spent \in [Tasks -> Nat]
    /\ inherited \in BOOLEAN
    /\ strays \subseteq Agents
    /\ crashes \in 0..MaxCrashes
    /\ size \in BatchSizes

LEMMA EvaluatorStep ==
    ASSUME TypeOK, Iterations, [Next]_vars
    PROVE  Evaluator'
<1> USE EvaluationAssumption, GatewayAssumption DEF EvaluationAssumption, GatewayAssumption
<1>0. Evaluator
  BY DEF TypeOK, Evaluator
<1>h. queue # <<>> => Head(queue) \in Agents /\ Tail(queue) \in Seq(Agents)
  BY <1>0 DEF Evaluator
<1>1. CASE CannotDeploy
  BY <1>0, <1>h, <1>1 DEF CannotDeploy, iterationVars, Evaluator
<1>2. CASE Deadline
  <2>1. <<>> \in Seq(Agents)
    OBVIOUS
  <2>2. UNCHANGED <<iterationVars, boxes, caller, strays, crashes, size>>
        /\ queue' = <<>> /\ DOMAIN final' = Agents
    BY <1>2 DEF Deadline
  <2> QED
    BY <1>0, <2>1, <2>2 DEF iterationVars, Evaluator
<1>3. CASE Done \/ PricesExpire \/ UNCHANGED vars
  <2>1. UNCHANGED evaluationVars
    BY <1>3 DEF Done, PricesExpire, vars
  <2> QED
    BY <1>0, <2>1 DEF evaluationVars, iterationVars, Evaluator
<1>4. CASE StartContainer
  BY <1>0, <1>h, <1>4 DEF StartContainer, Evaluator, Stages
<1>5. CASE Healthy
  BY <1>0, <1>5 DEF Healthy, Evaluator, Stages
<1>6. ASSUME EndIteration, size' = size, caller' \in [Calls -> Agents \cup {None}],
             queue' \in Seq(Agents), boxes' \subseteq Agents, strays' \subseteq Agents,
             crashes' \in 0..MaxCrashes, DOMAIN final' = Agents
      PROVE  Evaluator'
  <2>1. outcome' \in [Tasks -> Outcomes \cup {None, Error}]
    BY <1>6 DEF EndIteration, Nothing
  <2>2. bill' \in [Tasks -> Nat \cup {None}]
    BY <1>6 DEF EndIteration, Nothing
  <2>3. spent' \in [Tasks -> Nat]
    BY <1>6 DEF EndIteration, Unused
  <2>4. /\ agent' = None /\ stage' = "idle" /\ first' = 1 /\ running' = {} /\ hits' = 0
        /\ inherited' = FALSE
    BY <1>6 DEF EndIteration
  <2>5. /\ agent' \in Agents \cup {None} /\ stage' \in Stages /\ first' \in Nat \ {0}
        /\ running' \subseteq Tasks /\ hits' \in Nat
    BY <2>4 DEF Stages
  <2>6. inherited' \in BOOLEAN
    BY <2>4
  <2>7. size' \in BatchSizes
    BY <1>0, <1>6 DEF Evaluator
  <2> QED
    BY <1>6, <2>1, <2>2, <2>3, <2>5, <2>6, <2>7 DEF Evaluator, Stages
<1>7. CASE Unhealthy
  BY <1>0, <1>6, <1>7 DEF Unhealthy, Removed, Evaluator
<1>8. CASE Finish
  BY <1>0, <1>6, <1>8 DEF Finish, Removed, Evaluator
<1>9. CASE Crash
  <2>1. queue' \in Seq(Agents) /\ crashes' \in 0..MaxCrashes
    BY <1>0, <1>9 DEF Crash, Evaluator
  <2>2. caller' \in [Calls -> Agents \cup {None}] /\ DOMAIN final' = Agents
    BY <1>9 DEF Crash
  <2> QED
    BY <1>0, <1>6, <1>9, <2>1, <2>2 DEF Crash, Evaluator
<1>10. CASE AllowTasks
  <2>1. inherited' \in BOOLEAN
    <3>1. PICK reset \in BOOLEAN : inherited' = Shared(reset)
      BY <1>10 DEF AllowTasks
    <3> QED
      BY <3>1 DEF Shared
  <2> QED
    BY <1>0, <1>10, <2>1 DEF AllowTasks, Evaluator, Stages
<1>11. CASE StartBatch
  BY <1>0, <1>11 DEF StartBatch, Batch, Evaluator, Stages
<1>12. CASE EndBatch
  BY <1>0, <1>12 DEF EndBatch, Evaluator, Stages
<1>13. ASSUME NEW t \in Tasks, EndTask(t) PROVE Evaluator'
  BY <1>0, <1>13 DEF EndTask, Evaluator
<1>14. ASSUME NEW t \in Tasks, Record(t) PROVE Evaluator'
  <2>1. PICK cost \in Lookup(t) :
           /\ bill' = [bill EXCEPT ![t] = cost]
           /\ hits' = IF OverCost(cost) THEN hits + 1 ELSE hits
    BY <1>14 DEF Record
  <2>2. cost \in Nat
    BY DEF Lookup, TypeOK, GatewayTypeOK
  <2> QED
    BY <1>0, <1>14, <2>1, <2>2 DEF Record, Evaluator
<1>15. ASSUME NEW c \in Calls, NEW a \in Agents, AgentCalls(c, a) PROVE Evaluator'
  BY <1>0, <1>15 DEF AgentCalls, iterationVars, Evaluator
<1>16. ASSUME NEW c \in Calls, GatewayWorks(c) PROVE Evaluator'
  <2>1. caller' \in [Calls -> Agents \cup {None}]
    BY <1>0, <1>16 DEF GatewayWorks, Meanwhile, Forget, Evaluator
  <2> QED
    BY <1>0, <1>16, <2>1 DEF GatewayWorks, Meanwhile, iterationVars, Evaluator
<1>17. ASSUME NEW c \in Calls, NEW cost \in Costs, GatewayCharges(c, cost) PROVE Evaluator'
  <2>1. caller' \in [Calls -> Agents \cup {None}]
    BY <1>0, <1>17 DEF GatewayCharges, Forget, Evaluator
  <2>2. cost \in Nat
    OBVIOUS
  <2>3. spent' \in [Tasks -> Nat]
    <3>1. call[c].task \in Tasks
      BY <1>17 DEF GatewayCharges, Charge, At, TypeOK, GatewayTypeOK, Handler
    <3> QED
      <4>0. spent \in [Tasks -> Nat]
        BY <1>0 DEF Evaluator
      <4>1. spent[call[c].task] + cost \in Nat
        BY <2>2, <3>1, <4>0
      <4>2. spent' = spent \/ spent' = [spent EXCEPT ![call[c].task] = @ + cost]
        BY <1>17 DEF GatewayCharges
      <4> QED
        BY <4>0, <4>1, <4>2
  <2> QED
    BY <1>0, <1>17, <2>1, <2>3 DEF GatewayCharges, Evaluator
<1> QED
  BY <1>1, <1>2, <1>3, <1>4, <1>5, <1>7, <1>8, <1>9, <1>10, <1>11, <1>12, <1>13, <1>14,
     <1>15, <1>16, <1>17
  DEF Next, Evaluate

LEMMA TypeStep ==
    ASSUME TypeOK, Iterations, [Next]_vars
    PROVE  TypeOK'
<1>1. GatewayTypeOK
  BY DEF TypeOK
<1>2. GatewayTypeOK'
  BY <1>1, StepsOfTheGateway, GatewayTypeStep
<1>3. Evaluator'
  BY EvaluatorStep
<1> QED
  BY <1>2, <1>3 DEF TypeOK, Evaluator

LEMMA InitialTypes ==
    ASSUME Init
    PROVE  TypeOK /\ Iterations
<1> USE EvaluationAssumption, GatewayAssumption DEF EvaluationAssumption, GatewayAssumption
<1>1. GatewayTypeOK
  BY DEF Init, GatewayInit, GatewayTypeOK, Unused
<1>2. queue \in Seq(Agents)
  BY DEF Init
<1>3. outcome \in [Tasks -> Outcomes \cup {None, Error}] /\ bill \in [Tasks -> Nat \cup {None}]
  BY DEF Init, Nothing
<1>4. spent \in [Tasks -> Nat] /\ caller \in [Calls -> Agents \cup {None}]
  BY DEF Init, Unused
<1>5. inherited \in BOOLEAN
  BY DEF Init
<1>6. /\ agent \in Agents \cup {None} /\ stage \in Stages /\ first \in Nat \ {0}
      /\ running \subseteq Tasks /\ hits \in Nat /\ boxes \subseteq Agents
      /\ DOMAIN final = Agents /\ strays \subseteq Agents /\ crashes \in 0..MaxCrashes
      /\ size \in BatchSizes
  BY DEF Init, Stages
<1>7. TypeOK
  BY <1>1, <1>2, <1>3, <1>4, <1>5, <1>6 DEF TypeOK
<1>8. Iterations
  BY DEF Init, Iterations
<1> QED
  BY <1>7, <1>8

LEMMA Typed == Spec => [](TypeOK /\ Iterations)
<1>1. TypeOK /\ Iterations /\ [Next]_vars => (TypeOK /\ Iterations)'
  BY TypeStep, IterationsStep
<1> QED
  BY InitialTypes, <1>1, PTL DEF Spec

(* The types of the evaluation and of its gateway hold in every state, whatever fails:
   the handlers of the gateway, the batches and the crashes of the validator keep them. *)
THEOREM TypeCorrect == Spec => []TypeOK
BY Typed, PTL

(* The spending on a task is bounded by its limit and one answer for each call an agent
   may have open, for any costs, limits, slots and retries. *)
THEOREM BoundedCost == Spec => []CostIsBounded
<1>1. Init => RoomForCalls
  <2> SUFFICES ASSUME Init, NEW t \in Tasks
               PROVE  usage[t] + MaxCost * Cardinality(InFlight(t))
                        < CostLimit + MaxCost * Cardinality(Calls)
    BY DEF RoomForCalls
  <2>1. InFlight(t) = {}
    BY DEF Init, GatewayInit, InFlight
  <2>2. Cardinality(InFlight(t)) = 0 /\ Cardinality(Calls) \in Nat
    BY <2>1, CallsInFlight, FS_EmptySet
  <2>3. usage[t] = 0
    BY DEF Init, GatewayInit, Unused
  <2>4. MaxCost * 0 <= MaxCost * Cardinality(Calls) /\ MaxCost * 0 = 0
        /\ MaxCost * Cardinality(Calls) \in Nat
    BY <2>2, GatewayAssumption, Times DEF GatewayAssumption
  <2> QED
    BY <2>2, <2>3, <2>4, GatewayAssumption DEF GatewayAssumption
<1>2. TypeOK /\ RoomForCalls /\ [Next]_vars => RoomForCalls'
  BY StepsOfTheGateway, RoomStep DEF TypeOK
<1>3. TypeOK /\ RoomForCalls => CostIsBounded
  <2> SUFFICES ASSUME TypeOK, RoomForCalls, NEW t \in Tasks
               PROVE  usage[t] < CostLimit + MaxCost * Cardinality(Calls)
    BY DEF CostIsBounded
  <2> DEFINE kept == MaxCost * Cardinality(InFlight(t))
             room == CostLimit + MaxCost * Cardinality(Calls)
  <2>1. kept \in Nat /\ room \in Nat
    BY CallsInFlight, GatewayAssumption DEF GatewayAssumption
  <2>2. usage[t] \in Nat
    BY DEF TypeOK, GatewayTypeOK
  <2>3. usage[t] + kept < room
    BY DEF RoomForCalls
  <2> HIDE DEF kept, room
  <2>4. usage[t] < room
    BY <2>1, <2>2, <2>3
  <2> QED
    BY <2>4 DEF room
<1> QED
  BY TypeCorrect, <1>1, <1>2, <1>3, PTL DEF Spec

(* A container that runs beside the one evaluated was left by a crash. *)
THEOREM ContainersAreRemoved == Spec => []OnlyCrashesLeaveContainers
<1> USE EvaluationAssumption DEF EvaluationAssumption
<1>1. Init => OnlyCrashesLeaveContainers
  BY DEF Init, OnlyCrashesLeaveContainers
<1>2. ASSUME TypeOK, Iterations, OnlyCrashesLeaveContainers, [Next]_vars
      PROVE  OnlyCrashesLeaveContainers'
  <2> USE <1>2
  <2>1. CASE UNCHANGED <<agent, boxes, strays>>
    BY <2>1 DEF OnlyCrashesLeaveContainers
  <2>2. CASE StartContainer
    BY <2>2 DEF StartContainer, OnlyCrashesLeaveContainers, Iterations, TypeOK
  <2>3. CASE Unhealthy \/ Finish
    BY <2>3 DEF Unhealthy, Finish, EndIteration, Removed, OnlyCrashesLeaveContainers
  <2>4. CASE Crash
    BY <2>4 DEF Crash, OnlyCrashesLeaveContainers
  <2>5. CASE Healthy \/ CannotDeploy \/ AllowTasks \/ StartBatch \/ EndBatch \/ Deadline
    <3>1. UNCHANGED <<agent, boxes, strays>>
      BY <2>5 DEF Healthy, CannotDeploy, AllowTasks, StartBatch, EndBatch, Deadline, iterationVars
    <3> QED
      BY <2>1, <3>1
  <2>6. CASE \E t \in Tasks : EndTask(t) \/ Record(t)
    <3>1. UNCHANGED <<agent, boxes, strays>>
      BY <2>6 DEF EndTask, Record
    <3> QED
      BY <2>1, <3>1
  <2>7. CASE \E c \in Calls : \/ \E a \in Agents : AgentCalls(c, a)
                              \/ GatewayWorks(c)
                              \/ \E cost \in Costs : GatewayCharges(c, cost)
    <3>1. UNCHANGED <<agent, boxes, strays>>
      BY <2>7 DEF AgentCalls, GatewayWorks, Meanwhile, GatewayCharges, iterationVars
    <3> QED
      BY <2>1, <3>1
  <2>8. CASE PricesExpire \/ Done \/ UNCHANGED vars
    <3>1. UNCHANGED <<agent, boxes, strays>>
      BY <2>8 DEF PricesExpire, Done, vars, evaluationVars, iterationVars
    <3> QED
      BY <2>1, <3>1
  <2> QED
    BY <2>2, <2>3, <2>4, <2>5, <2>6, <2>7, <2>8 DEF Next, Evaluate
<1> QED
  BY Typed, <1>1, <1>2, PTL DEF Spec

(***************************************************************************)
(* Who pays for what.                                                      *)
(***************************************************************************)

\* While nothing was inherited, all that runs and calls is the agent's, and all that is
\* counted or billed it spent itself.
Own ==
    ~inherited /\ stage \in {"batch", "running"} =>
      /\ boxes = {agent}
      /\ \A c \in Calls : call[c] # Idle => caller[c] = agent
      /\ \A t \in Tasks : usage[t] <= spent[t]
      /\ \A t \in Recorded : bill[t] <= spent[t]

\* A handler that moves on keeps its caller.
LEMMA OwnMoves ==
    ASSUME TypeOK, Own, NEW c \in Calls, GatewayWorks(c)
    PROVE  Own'
<1>1. GatewayTypeOK /\ Moves(c)
  BY DEF GatewayWorks, Moves, TypeOK
<1>2. call[c] # Idle
  BY DEF GatewayWorks, Priced, Lock, Refresh, Send, Again, Fail, At
<1>3. PICK h : call' = [call EXCEPT ![c] = h]
  BY <1>1, MoveEffect
<1>4. usage' = usage
  BY <1>1, MoveEffect
<1>5. UNCHANGED <<iterationVars, boxes>> /\ Forget(c)
  BY DEF GatewayWorks, Meanwhile
<1>6. ASSUME NEW d \in Calls, call'[d] # Idle PROVE call[d] # Idle /\ caller'[d] = caller[d]
  <2>1. call[d] # Idle
    BY <1>2, <1>3, <1>6 DEF TypeOK, GatewayTypeOK
  <2>2. caller'[d] = caller[d]
    BY <1>5, <1>6 DEF Forget, TypeOK
  <2> QED
    BY <2>1, <2>2
<1> QED
  BY <1>4, <1>5, <1>6 DEF Own, iterationVars, Recorded

LEMMA OwnCharges ==
    ASSUME TypeOK, Own, NEW c \in Calls, NEW cost \in Costs, GatewayCharges(c, cost)
    PROVE  Own'
<1> USE GatewayAssumption DEF GatewayAssumption
<1> SUFFICES ASSUME ~inherited, stage \in {"batch", "running"}
             PROVE  /\ boxes' = {agent'}
                    /\ \A d \in Calls : call'[d] # Idle => caller'[d] = agent'
                    /\ \A t \in Tasks : usage'[t] <= spent'[t]
                    /\ \A t \in Recorded' : bill'[t] <= spent'[t]
  BY DEF Own, GatewayCharges
<1>1. call[c] # Idle /\ call[c].task \in Tasks
  BY DEF GatewayCharges, Charge, At, TypeOK, GatewayTypeOK, Handler
<1>2. caller[c] = agent /\ cost \in Nat
  BY <1>1 DEF Own
<1>3. spent' = [spent EXCEPT ![call[c].task] = @ + cost]
  BY <1>2 DEF GatewayCharges
<1>4. usage' = usage \/ usage' = [usage EXCEPT ![call[c].task] = @ + cost]
  BY DEF GatewayCharges, Charge
<1>5. \A t \in Tasks : usage[t] \in Nat /\ spent[t] \in Nat /\ usage[t] <= spent[t]
  BY DEF Own, TypeOK, GatewayTypeOK
<1>6. \A t \in Tasks : spent'[t] \in Nat /\ spent[t] <= spent'[t] /\ usage'[t] <= spent'[t]
  BY <1>1, <1>2, <1>3, <1>4, <1>5 DEF TypeOK, GatewayTypeOK
<1>7. \A d \in Calls : call'[d] # Idle => call[d] # Idle /\ caller'[d] = caller[d]
  <2> SUFFICES ASSUME NEW d \in Calls, call'[d] # Idle
               PROVE  call[d] # Idle /\ caller'[d] = caller[d]
    OBVIOUS
  <2>1. call' = [call EXCEPT ![c] = Idle]
    BY DEF GatewayCharges, Charge
  <2>2. d # c /\ call[d] # Idle
    BY <2>1 DEF TypeOK, GatewayTypeOK
  <2> QED
    BY <2>2 DEF GatewayCharges, Forget, TypeOK
<1>8. UNCHANGED <<agent, boxes, bill>>
  BY DEF GatewayCharges
<1>9. \A t \in Recorded : bill[t] \in Nat /\ bill[t] <= spent[t] /\ t \in Tasks
  BY DEF Own, Recorded, TypeOK
<1>10. \A t \in Recorded' : bill'[t] <= spent'[t]
  <2> SUFFICES ASSUME NEW t \in Recorded PROVE bill[t] <= spent'[t]
    BY <1>8 DEF Recorded
  <2> QED
    BY <1>5, <1>6, <1>9
<1> QED
  BY <1>6, <1>7, <1>8, <1>10 DEF Own

LEMMA OwnStep ==
    ASSUME TypeOK, Iterations, Own, [Next]_vars
    PROVE  Own'
<1> USE EvaluationAssumption, GatewayAssumption DEF EvaluationAssumption, GatewayAssumption
<1>1. CASE StartContainer \/ Healthy \/ Unhealthy \/ Finish \/ Crash
  <2>1. stage' \in {"idle", "deploying", "deployed"}
    BY <1>1 DEF StartContainer, Healthy, Unhealthy, Finish, Crash, EndIteration
  <2> QED
    BY <2>1 DEF Own
<1>2. CASE AllowTasks
  <2> SUFFICES ASSUME ~inherited'
               PROVE  /\ boxes' = {agent'}
                      /\ \A c \in Calls : call'[c] # Idle => caller'[c] = agent'
                      /\ \A t \in Tasks : usage'[t] <= spent'[t]
                      /\ \A t \in Recorded' : bill'[t] <= spent'[t]
    BY DEF Own
  <2>1. PICK reset \in BOOLEAN :
           /\ IF reset THEN SetAllowed(Tasks) ELSE UNCHANGED gatewayVars
           /\ inherited' = Shared(reset)
    BY <1>2 DEF AllowTasks
  <2>2. ~Shared(reset)
    BY <2>1
  <2>3. reset /\ boxes = {agent} /\ \A c \in Calls : call[c] # Idle => caller[c] = agent
    BY <2>2 DEF Shared
  <2>4. call' = call /\ usage' = Unused
    BY <2>1, <2>3 DEF SetAllowed
  <2>5. UNCHANGED <<agent, boxes, caller, bill, spent>>
    BY <1>2 DEF AllowTasks
  <2>6. bill = Nothing
    BY <1>2 DEF AllowTasks, Iterations
  <2>7. Recorded' = {}
    BY <2>5, <2>6 DEF Recorded, Nothing
  <2>8. \A t \in Tasks : usage'[t] <= spent'[t]
    BY <2>4, <2>5 DEF Unused, TypeOK
  <2> QED
    BY <2>3, <2>4, <2>5, <2>7, <2>8
<1>3. CASE StartBatch
  BY <1>3 DEF StartBatch, Own, gatewayVars, Recorded
<1>4. CASE EndBatch
  BY <1>4 DEF EndBatch, Own, gatewayVars, Recorded
<1>5. ASSUME NEW t \in Tasks, EndTask(t) PROVE Own'
  BY <1>5 DEF EndTask, Own, gatewayVars, Recorded
<1>6. ASSUME NEW t \in Tasks, Record(t) PROVE Own'
  <2> SUFFICES ASSUME ~inherited, NEW u \in Recorded'
               PROVE  bill'[u] <= spent[u]
    BY <1>6 DEF Record, Own, gatewayVars
  <2>1. PICK cost \in Lookup(t) : bill' = [bill EXCEPT ![t] = cost]
    BY <1>6 DEF Record
  <2>2. cost <= spent[t]
    BY <1>6 DEF Lookup, Record, Own, TypeOK, GatewayTypeOK
  <2>3. u # t => u \in Recorded /\ bill'[u] = bill[u]
    BY <2>1 DEF Recorded, TypeOK
  <2>4. u = t => bill'[u] = cost
    BY <2>1 DEF TypeOK
  <2> QED
    BY <1>6, <2>2, <2>3, <2>4 DEF Record, Own
<1>7. ASSUME NEW c \in Calls, NEW a \in Agents, AgentCalls(c, a) PROVE Own'
  <2>1. PICK h : call' = [call EXCEPT ![c] = h]
    BY <1>7 DEF AgentCalls, Request
  <2>2. UNCHANGED <<iterationVars, boxes, usage>> /\ a \in boxes
        /\ caller' = [caller EXCEPT ![c] = a]
    BY <1>7 DEF AgentCalls, Request
  <2>3. \A d \in Calls : d # c => call'[d] = call[d] /\ caller'[d] = caller[d]
    BY <2>1, <2>2 DEF TypeOK, GatewayTypeOK
  <2>4. caller'[c] = a
    BY <2>2 DEF TypeOK
  <2> SUFFICES ASSUME ~inherited, stage \in {"batch", "running"}
               PROVE  /\ boxes = {agent}
                      /\ \A d \in Calls : call'[d] # Idle => caller'[d] = agent
                      /\ \A t \in Tasks : usage[t] <= spent[t]
                      /\ \A t \in Recorded : bill[t] <= spent[t]
    BY <2>2 DEF iterationVars, Own, Recorded
  <2>5. a = agent
    BY <2>2 DEF Own
  <2>6. \A d \in Calls : call'[d] # Idle => caller'[d] = agent
    BY <2>3, <2>4, <2>5 DEF Own
  <2> QED
    BY <2>6 DEF Own
<1>8. ASSUME NEW c \in Calls, GatewayWorks(c) PROVE Own'
  BY <1>8, OwnMoves
<1>9. ASSUME NEW c \in Calls, NEW cost \in Costs, GatewayCharges(c, cost) PROVE Own'
  BY <1>9, OwnCharges
<1>10. CASE CannotDeploy \/ Deadline \/ PricesExpire \/ Done \/ UNCHANGED vars
  <2>1. UNCHANGED <<iterationVars, boxes, caller, call, usage>>
    BY <1>10 DEF CannotDeploy, Deadline, PricesExpire, Expire, Done, vars, evaluationVars, gatewayVars
  <2> QED
    BY <2>1 DEF iterationVars, Own, Recorded
<1> QED
  BY <1>1, <1>2, <1>3, <1>4, <1>5, <1>6, <1>7, <1>8, <1>9, <1>10 DEF Next, Evaluate

LEMMA OwnAlways == Spec => []Own
<1>1. Init => Own
  BY DEF Init, Own
<1>2. TypeOK /\ Iterations /\ Own /\ [Next]_vars => Own'
  BY OwnStep
<1> QED
  BY Typed, <1>1, <1>2, PTL DEF Spec

(* Whatever the interleaving of validator, containers and gateway, an agent is billed at
   most its own calls, unless the costs of others could reach its counters. *)
THEOREM OwnCostsOnly == Spec => []PaysForItself
<1>1. TypeOK /\ Iterations /\ Own => PaysForItself
  <2> SUFFICES ASSUME TypeOK, Iterations, Own, ~inherited, NEW t \in Recorded
               PROVE  bill[t] <= spent[t]
    BY DEF PaysForItself
  <2>1. CASE stage \in {"batch", "running"}
    BY <2>1 DEF Own
  <2>2. CASE stage \in {"idle", "deploying", "deployed"}
    BY <2>2 DEF Iterations, Recorded, Nothing
  <2> QED
    BY <2>1, <2>2 DEF TypeOK, Stages
<1> QED
  BY Typed, OwnAlways, <1>1, PTL

(***************************************************************************)
(* Batches.                                                                *)
(***************************************************************************)

\* The recorded tasks of the batch: each may have been held against the agent.
Counted == {t \in Batch : bill[t] # None}

Batches ==
    MaxHits > 0 =>
      /\ stage = "running" => hits <= MaxHits - 1 + Cardinality(Counted)
      /\ stage # "running" => hits < MaxHits + size

LEMMA Below == \A t, n, k \in Nat : n <= t /\ t < n + k => t \in n..(n + k - 1)
OBVIOUS

LEMMA BatchSize ==
    ASSUME TypeOK
    PROVE  /\ IsFiniteSet(Counted)
           /\ Cardinality(Counted) \in Nat
           /\ Cardinality(Counted) <= size
<1>1. first \in Nat /\ size \in Nat /\ size > 0
  BY EvaluationAssumption DEF TypeOK, EvaluationAssumption
<1>2. Counted \subseteq first..(first + size - 1)
  BY <1>1, EvaluationAssumption DEF Counted, Batch, EvaluationAssumption
<1>3. IsFiniteSet(first..(first + size - 1)) /\ Cardinality(first..(first + size - 1)) = size
  BY <1>1, FS_Interval
<1> QED
  BY <1>2, <1>3, FS_Subset, FS_CardinalityType

LEMMA BatchesStep ==
    ASSUME TypeOK, TypeOK', Batches, [Next]_vars
    PROVE  Batches'
<1> SUFFICES ASSUME MaxHits > 0
             PROVE  /\ stage' = "running" => hits' <= MaxHits - 1 + Cardinality(Counted')
                    /\ stage' # "running" => hits' < MaxHits + size'
  BY DEF Batches
<1>0. MaxHits \in Nat /\ hits \in Nat /\ size \in Nat /\ size > 0 /\ size' = size
  <2>1. MaxHits \in Nat /\ hits \in Nat /\ size \in Nat /\ size > 0
    BY EvaluationAssumption DEF EvaluationAssumption, TypeOK
  <2>2. size' = size
    BY DEF Next, Evaluate, CannotDeploy, StartContainer, Healthy, Unhealthy, AllowTasks,
           StartBatch, EndBatch, Finish, Deadline, EndTask, Record, Crash, AgentCalls,
           GatewayWorks, Meanwhile, GatewayCharges, PricesExpire, Done, vars, evaluationVars
  <2> QED
    BY <2>1, <2>2
<1>a. Cardinality(Counted') \in Nat
  <2>1. first' \in Nat /\ size' \in Nat /\ Tasks \subseteq Nat
    BY EvaluationAssumption DEF TypeOK, EvaluationAssumption
  <2>2. \A t \in Tasks : first' <= t /\ t < first' + size' => t \in first'..(first' + size' - 1)
    BY <2>1, Below
  <2>3. Counted' \subseteq first'..(first' + size' - 1)
    BY <2>2 DEF Counted, Batch
  <2>4. IsFiniteSet(first'..(first' + size' - 1))
    BY <2>1, FS_Interval
  <2> QED
    BY <2>3, <2>4, FS_Subset, FS_CardinalityType
<1>1. CASE UNCHANGED <<stage, first, bill, hits>>
  <2>1. Counted' = Counted
    BY <1>0, <1>1 DEF Counted, Batch
  <2> QED
    BY <1>0, <1>1, <2>1 DEF Batches
<1>2. CASE Unhealthy \/ Finish \/ Crash
  BY <1>0, <1>2 DEF Unhealthy, Finish, Crash, EndIteration
<1>3. CASE StartContainer \/ Healthy \/ AllowTasks
  BY <1>0, <1>3 DEF StartContainer, Healthy, AllowTasks, Batches
<1>4. CASE StartBatch
  BY <1>0, <1>a, <1>4 DEF StartBatch, Stopped
<1>5. CASE EndBatch
  <2>1. hits <= MaxHits - 1 + Cardinality(Counted) /\ Cardinality(Counted) <= size
        /\ Cardinality(Counted) \in Nat
    BY <1>5, BatchSize DEF EndBatch, Batches
  <2> QED
    BY <1>0, <1>5, <2>1 DEF EndBatch
<1>6. ASSUME NEW t \in Tasks, Record(t)
      PROVE  /\ stage' = "running" => hits' <= MaxHits - 1 + Cardinality(Counted')
             /\ stage' # "running" => hits' < MaxHits + size'
  <2>1. PICK cost \in Lookup(t) :
           /\ bill' = [bill EXCEPT ![t] = cost]
           /\ hits' = IF OverCost(cost) THEN hits + 1 ELSE hits
    BY <1>6 DEF Record
  <2>2. cost # None
    <3>1. cost \in Nat
      BY DEF TypeOK, GatewayTypeOK, Lookup
    <3> QED
      BY <3>1, EvaluationAssumption DEF EvaluationAssumption
  <2>3. t \in Batch /\ bill[t] = None /\ stage = "running" /\ stage' = "running"
        /\ Batch' = Batch
    BY <1>6 DEF Record, Unrecorded, Batch
  <2>4. Counted' = Counted \cup {t} /\ t \notin Counted
    BY <2>1, <2>2, <2>3 DEF Counted, Batch, TypeOK
  <2>5. Cardinality(Counted') = Cardinality(Counted) + 1
    BY <2>4, BatchSize, FS_AddElement
  <2>6. hits <= MaxHits - 1 + Cardinality(Counted) /\ Cardinality(Counted) \in Nat
    BY <2>3, BatchSize DEF Batches
  <2>7. hits' <= hits + 1
    BY <1>0, <2>1
  <2>8. hits' \in Nat
    BY DEF TypeOK
  <2> QED
    BY <1>0, <2>3, <2>5, <2>6, <2>7, <2>8
<1>7. CASE CannotDeploy \/ Deadline \/ PricesExpire \/ Done \/ UNCHANGED vars
  <2>1. UNCHANGED <<stage, first, bill, hits>>
    BY <1>7 DEF CannotDeploy, Deadline, PricesExpire, Done, vars, evaluationVars, iterationVars
  <2> QED
    BY <1>1, <2>1
<1>8. CASE \E t \in Tasks : EndTask(t)
  <2>1. UNCHANGED <<stage, first, bill, hits>>
    BY <1>8 DEF EndTask
  <2> QED
    BY <1>1, <2>1
<1>9. CASE \E c \in Calls : \/ \E a \in Agents : AgentCalls(c, a)
                            \/ GatewayWorks(c)
                            \/ \E cost \in Costs : GatewayCharges(c, cost)
  <2>1. UNCHANGED <<stage, first, bill, hits>>
    BY <1>9 DEF AgentCalls, GatewayWorks, Meanwhile, GatewayCharges, iterationVars
  <2> QED
    BY <1>1, <2>1
<1> QED
  BY <1>2, <1>3, <1>4, <1>5, <1>6, <1>7, <1>8, <1>9 DEF Next, Evaluate

(* At most the batch that exhausts the budget goes beyond it, for any size of the batch. *)
THEOREM OverCostStops == Spec => []OverCostIsCut
<1>1. Init => Batches
  <2> SUFFICES ASSUME Init, MaxHits > 0
               PROVE  stage # "running" /\ hits < MaxHits + size
    BY DEF Batches
  <2>1. MaxHits \in Nat /\ size \in Nat /\ stage = "idle" /\ hits = 0
    BY EvaluationAssumption DEF Init, EvaluationAssumption
  <2> QED
    BY <2>1
<1>2. TypeOK /\ TypeOK' /\ Batches /\ [Next]_vars => Batches'
  BY BatchesStep
<1>3. TypeOK /\ Batches => OverCostIsCut
  <2> SUFFICES ASSUME TypeOK, Batches, MaxHits > 0
               PROVE  hits < MaxHits + size
    BY DEF OverCostIsCut
  <2>1. MaxHits \in Nat /\ hits \in Nat /\ size \in Nat
    BY EvaluationAssumption DEF TypeOK, EvaluationAssumption
  <2> QED
    BY <2>1, BatchSize DEF Batches
<1> QED
  BY TypeCorrect, <1>1, <1>2, <1>3, PTL DEF Spec

(***************************************************************************)
(* What an agent is stopped for, and what it is paid.                      *)
(***************************************************************************)

\* The tasks held against the agent are recorded ones whose bill reaches the limit.
Dear(b) == {t \in Tasks : b[t] # None /\ b[t] >= CostLimit}

Held == hits <= Cardinality(Dear(bill))

\* Only evaluated tasks are recorded, and none of them is evaluated again.
Scored ==
    /\ \A t \in Recorded : outcome[t] \in Outcomes
    /\ stage = "batch" \/ running # {} => \A t \in Recorded : t < first
    /\ stage = "running" => \A t \in Recorded : t < first + size
    /\ stage # "running" => running = {}
    /\ running \subseteq Batch

\* The recorded tasks change only when a task is recorded and when an iteration ends.
LEMMA OnlyRecordsMatter ==
    ASSUME TypeOK, Iterations, [Next]_vars
    PROVE  \/ UNCHANGED <<bill, hits>>
           \/ bill' = Nothing /\ hits' = 0
           \/ \E t \in Tasks : Record(t)
<1>1. CASE Unhealthy \/ Finish \/ Crash
  BY <1>1 DEF Unhealthy, Finish, Crash, EndIteration
<1>2. CASE StartContainer \/ Healthy \/ AllowTasks \/ StartBatch \/ EndBatch
  BY <1>2 DEF StartContainer, Healthy, AllowTasks, StartBatch, EndBatch
<1>3. CASE \E t \in Tasks : EndTask(t)
  BY <1>3 DEF EndTask
<1>4. CASE \E c \in Calls : \/ \E a \in Agents : AgentCalls(c, a)
                            \/ GatewayWorks(c)
                            \/ \E cost \in Costs : GatewayCharges(c, cost)
  BY <1>4 DEF AgentCalls, GatewayWorks, Meanwhile, GatewayCharges, iterationVars
<1>5. CASE CannotDeploy \/ Deadline \/ PricesExpire \/ Done \/ UNCHANGED vars
  BY <1>5 DEF CannotDeploy, Deadline, PricesExpire, Done, vars, evaluationVars, iterationVars
<1> QED
  BY <1>1, <1>2, <1>3, <1>4, <1>5 DEF Next, Evaluate

LEMMA TasksAreFinite ==
    ASSUME NEW S \in SUBSET Tasks
    PROVE  IsFiniteSet(S) /\ Cardinality(S) \in Nat
<1>1. Tasks = 1..Total /\ 1 \in Int /\ Total \in Int
  BY EvaluationAssumption DEF EvaluationAssumption
<1>2. IsFiniteSet(Tasks)
  BY <1>1, FS_Interval
<1> QED
  BY <1>2, FS_Subset, FS_CardinalityType

LEMMA HeldStep ==
    ASSUME TypeOK, TypeOK', Iterations, Held, [Next]_vars
    PROVE  Held'
<1> USE GatewayAssumption, EvaluationAssumption DEF GatewayAssumption, EvaluationAssumption
<1>1. CASE UNCHANGED <<bill, hits>>
  BY <1>1 DEF Held, Dear
<1>2. CASE bill' = Nothing /\ hits' = 0
  <2>1. Dear(bill') \in SUBSET Tasks
    BY DEF Dear
  <2>2. Cardinality(Dear(bill')) \in Nat
    BY <2>1, TasksAreFinite
  <2> QED
    BY <1>2, <2>2 DEF Held
<1>3. ASSUME NEW t \in Tasks, Record(t) PROVE Held'
  <2>1. PICK cost \in Lookup(t) :
           /\ bill' = [bill EXCEPT ![t] = cost]
           /\ hits' = IF OverCost(cost) THEN hits + 1 ELSE hits
    BY <1>3 DEF Record
  <2>2. cost \in Nat /\ cost # None
    BY DEF Lookup, TypeOK, GatewayTypeOK
  <2>3. bill[t] = None /\ bill'[t] = cost
    BY <1>3, <2>1 DEF Record, Unrecorded, TypeOK
  <2>4. \A u \in Tasks : u # t => bill'[u] = bill[u]
    BY <2>1 DEF TypeOK
  <2>5. Dear(bill) \in SUBSET Tasks /\ t \notin Dear(bill)
    BY <2>3 DEF Dear
  <2>6. IsFiniteSet(Dear(bill)) /\ Cardinality(Dear(bill)) \in Nat
    BY <2>5, TasksAreFinite
  <2>7. hits <= Cardinality(Dear(bill)) /\ hits \in Nat
    BY DEF Held, TypeOK
  <2>8. CASE cost >= CostLimit
    <3>1. Dear(bill') = Dear(bill) \cup {t}
      BY <2>2, <2>3, <2>4, <2>8 DEF Dear
    <3>2. Cardinality(Dear(bill')) = Cardinality(Dear(bill)) + 1
      BY <2>5, <2>6, <3>1, FS_AddElement
    <3>3. hits' <= hits + 1
      BY <2>1, <2>7
    <3>4. hits' \in Nat
      BY DEF TypeOK
    <3> QED
      BY <2>6, <2>7, <3>2, <3>3, <3>4 DEF Held
  <2>9. CASE ~(cost >= CostLimit)
    <3>1. Dear(bill') = Dear(bill)
      BY <2>2, <2>3, <2>4, <2>9 DEF Dear
    <3>2. hits' = hits
      BY <2>1, <2>9 DEF OverCost
    <3> QED
      BY <3>1, <3>2 DEF Held
  <2> QED
    BY <2>8, <2>9
<1> QED
  BY <1>1, <1>2, <1>3, OnlyRecordsMatter

LEMMA HeldAlways == Spec => []Held
<1>1. Init => Held
  <2> SUFFICES ASSUME Init PROVE Held
    OBVIOUS
  <2>1. Dear(bill) \in SUBSET Tasks
    BY DEF Dear
  <2>2. Cardinality(Dear(bill)) \in Nat
    BY <2>1, TasksAreFinite
  <2> QED
    BY <2>2 DEF Init, Held
<1>2. TypeOK /\ TypeOK' /\ Iterations /\ Held /\ [Next]_vars => Held'
  BY HeldStep
<1> QED
  BY Typed, <1>1, <1>2, PTL DEF Spec

(* Nobody else's costs count against an agent: it is stopped only for as many tasks as it
   spent the limit itself on, however calls, batches and removals interleave. *)
THEOREM OwnCostsStop == Spec => []StoppedForItsOwn
<1>1. TypeOK /\ Iterations /\ Own /\ Held => StoppedForItsOwn
  <2> SUFFICES ASSUME TypeOK, Iterations, Own, Held, ~inherited
               PROVE  hits <= Cardinality({t \in Tasks : spent[t] >= CostLimit})
    BY DEF StoppedForItsOwn
  <2> DEFINE spenders == {t \in Tasks : spent[t] >= CostLimit}
  <2>1. spenders \in SUBSET Tasks /\ Dear(bill) \in SUBSET Tasks
    BY DEF Dear
  <2>2. IsFiniteSet(spenders) /\ Cardinality(spenders) \in Nat /\ Cardinality(Dear(bill)) \in Nat
    BY <2>1, TasksAreFinite
  <2>3. CASE stage \in {"batch", "running"}
    <3>1. \A t \in Dear(bill) : t \in spenders
      <4> SUFFICES ASSUME NEW t \in Tasks, bill[t] # None, bill[t] >= CostLimit
                   PROVE  spent[t] >= CostLimit
        BY DEF Dear
      <4>1. bill[t] <= spent[t]
        BY <2>3 DEF Own, Recorded
      <4>2. bill[t] \in Nat /\ spent[t] \in Nat /\ CostLimit \in Nat
        BY GatewayAssumption DEF TypeOK, GatewayAssumption
      <4> QED
        BY <4>1, <4>2
    <3>2. Cardinality(Dear(bill)) <= Cardinality(spenders)
      BY <2>2, <3>1, FS_Subset
    <3>3. hits \in Nat /\ hits <= Cardinality(Dear(bill))
      BY DEF Held, TypeOK
    <3> HIDE DEF spenders
    <3>4. hits <= Cardinality(spenders)
      BY <2>2, <3>2, <3>3
    <3> QED
      BY <3>4 DEF spenders
  <2>4. CASE stage \in {"idle", "deploying", "deployed"}
    <3>1. hits = 0
      BY <2>4 DEF Iterations
    <3> QED
      BY <2>2, <3>1
  <2> QED
    BY <2>3, <2>4 DEF TypeOK, Stages
<1> QED
  BY Typed, OwnAlways, HeldAlways, <1>1, PTL

LEMMA ScoredStep ==
    ASSUME TypeOK, TypeOK', Iterations, Iterations', Scored, [Next]_vars
    PROVE  Scored'
<1> USE EvaluationAssumption DEF EvaluationAssumption
<1>0. /\ first \in Nat /\ size \in Nat /\ size > 0
      /\ \A t \in Tasks : t \in Nat
  BY DEF TypeOK
<1>1. CASE stage' \in {"idle", "deploying", "deployed"}
  <2>1. running' = {} /\ bill' = Nothing
    BY <1>1 DEF Iterations
  <2>2. Recorded' = {}
    BY <2>1 DEF Recorded, Nothing
  <2> QED
    BY <1>1, <2>1, <2>2 DEF Scored, Recorded
<1>2. CASE AllowTasks
  <2>1. running' = {} /\ bill' = Nothing /\ stage' = "batch"
    BY <1>2 DEF AllowTasks, Iterations
  <2>2. Recorded' = {}
    BY <2>1 DEF Recorded, Nothing
  <2> QED
    BY <2>1, <2>2 DEF Scored
<1>3. CASE StartBatch
  <2>1. /\ stage = "batch" /\ stage' = "running" /\ running' = Batch
        /\ UNCHANGED <<first, size, bill, outcome>>
    BY <1>3 DEF StartBatch
  <2>2. Recorded' = Recorded /\ Batch' = Batch
    BY <2>1 DEF Recorded, Batch
  <2>3. \A t \in Recorded : t < first /\ t \in Nat /\ outcome[t] \in Outcomes
    BY <1>0, <2>1 DEF Scored, Recorded
  <2>4. \A t \in Recorded : t < first + size
    BY <1>0, <2>3
  <2> QED
    BY <2>1, <2>2, <2>3, <2>4 DEF Scored
<1>4. CASE EndBatch
  <2>1. /\ stage = "running" /\ stage' = "batch" /\ running = {} /\ first' = first + size
        /\ UNCHANGED <<running, size, bill, outcome>>
    BY <1>4 DEF EndBatch
  <2>2. Recorded' = Recorded
    BY <2>1 DEF Recorded
  <2> QED
    BY <2>1, <2>2 DEF Scored
<1>5. ASSUME NEW t \in Tasks, EndTask(t) PROVE Scored'
  <2>1. /\ stage = "running" /\ t \in running /\ running' = running \ {t}
        /\ UNCHANGED <<stage, first, size, bill>>
    BY <1>5 DEF EndTask
  <2>2. PICK r : outcome' = [outcome EXCEPT ![t] = r]
    BY <1>5 DEF EndTask
  <2>3. first <= t
    BY <2>1 DEF Scored, Batch
  <2>4. t \notin Recorded
    BY <1>0, <2>1, <2>3 DEF Scored
  <2>5. \A u \in Recorded : outcome'[u] = outcome[u]
    BY <2>2, <2>4 DEF Recorded, TypeOK
  <2>6. Recorded' = Recorded /\ Batch' = Batch
    BY <2>1 DEF Recorded, Batch
  <2> QED
    BY <2>1, <2>5, <2>6 DEF Scored
<1>6. ASSUME NEW t \in Tasks, Record(t) PROVE Scored'
  <2>1. /\ stage = "running" /\ running = {} /\ t \in Unrecorded
        /\ UNCHANGED <<stage, first, size, running, outcome>>
    BY <1>6 DEF Record
  <2>2. PICK cost : bill' = [bill EXCEPT ![t] = cost]
    BY <1>6 DEF Record
  <2>3. \A u \in Recorded' : u \in Recorded \/ u = t
    BY <2>2 DEF Recorded, TypeOK
  <2>4. t < first + size /\ outcome[t] \in Outcomes
    BY <2>1 DEF Unrecorded, Batch
  <2> QED
    BY <2>1, <2>3, <2>4 DEF Scored
<1>7. CASE UNCHANGED <<stage, first, size, running, outcome, bill>>
  BY <1>7 DEF Scored, Recorded, Batch
<1>8. CASE \E c \in Calls : \/ \E a \in Agents : AgentCalls(c, a)
                            \/ GatewayWorks(c)
                            \/ \E cost \in Costs : GatewayCharges(c, cost)
  <2>1. UNCHANGED <<stage, first, size, running, outcome, bill>>
    BY <1>8 DEF AgentCalls, GatewayWorks, Meanwhile, GatewayCharges, iterationVars
  <2> QED
    BY <1>7, <2>1
<1>9. CASE CannotDeploy \/ Deadline \/ PricesExpire \/ Done \/ UNCHANGED vars
  <2>1. UNCHANGED <<stage, first, size, running, outcome, bill>>
    BY <1>9 DEF CannotDeploy, Deadline, PricesExpire, Done, vars, evaluationVars, iterationVars
  <2> QED
    BY <1>7, <2>1
<1>10. CASE StartContainer \/ Healthy \/ Unhealthy \/ Finish \/ Crash
  <2>1. stage' \in {"idle", "deploying", "deployed"}
    BY <1>10 DEF StartContainer, Healthy, Unhealthy, Finish, Crash, EndIteration
  <2> QED
    BY <1>1, <2>1
<1> QED
  BY <1>2, <1>3, <1>4, <1>5, <1>6, <1>8, <1>9, <1>10 DEF Next, Evaluate

LEMMA ScoredAlways == Spec => []Scored
<1>1. Init => Scored
  BY DEF Init, Scored, Recorded, Nothing, Batch
<1>2. TypeOK /\ TypeOK' /\ Iterations /\ Iterations' /\ Scored /\ [Next]_vars => Scored'
  BY ScoredStep
<1> QED
  BY Typed, <1>1, <1>2, PTL DEF Spec

\* The same result earns less the more it costs.
LEMMA CheaperEarnsMore ==
    ASSUME NEW r \in Outcomes, NEW m \in Nat, NEW n \in Nat, m <= n
    PROVE  Reward(r, m) \in Nat /\ Reward(r, n) \in Nat /\ Reward(r, n) <= Reward(r, m)
<1> USE EvaluationAssumption DEF EvaluationAssumption
<1> DEFINE base == Weights.score * Timeout * CostNorm
                     + Weights.time * (Timeout - AtMost(r.time, Timeout)) * CostNorm
           Kept(k) == CostNorm - AtMost(k, CostNorm)
<1>1. /\ Weights.score \in Nat /\ Weights.time \in Nat /\ Weights.cost \in Nat
      /\ Timeout \in Nat /\ CostNorm \in Nat /\ r.time \in Nat /\ r.solved \in BOOLEAN
  OBVIOUS
<1>2. base \in Nat
  <2> DEFINE left == Timeout - AtMost(r.time, Timeout)
  <2>1. left \in Nat
    BY <1>1 DEF AtMost
  <2> HIDE DEF left
  <2>2. \A i, j, k \in Nat : i * j * k \in Nat
    OBVIOUS
  <2>3. Weights.score * Timeout * CostNorm \in Nat /\ Weights.time * left * CostNorm \in Nat
    BY <1>1, <2>1, <2>2
  <2>4. base = Weights.score * Timeout * CostNorm + Weights.time * left * CostNorm
    BY DEF left
  <2> HIDE DEF base
  <2> QED
    BY <2>3, <2>4
<1>3. Kept(m) \in Nat /\ Kept(n) \in Nat /\ Kept(n) <= Kept(m)
  BY <1>1 DEF AtMost
<1> HIDE DEF base, Kept
<1>4. Weights.cost * Kept(n) <= Weights.cost * Kept(m)
  BY <1>1, <1>3, Times
<1>5. Weights.cost * Kept(n) \in Nat /\ Weights.cost * Kept(m) \in Nat
  BY <1>1, <1>3
<1>6. Weights.cost * Kept(n) * Timeout <= Weights.cost * Kept(m) * Timeout
  <2>1. \A i, j, k \in Nat : i <= j => i * k <= j * k
    OBVIOUS
  <2> QED
    BY <1>1, <1>4, <1>5, <2>1
<1>7. /\ Weights.cost * Kept(n) * Timeout \in Nat
      /\ Weights.cost * Kept(m) * Timeout \in Nat
  BY <1>1, <1>5
<1>8. CASE r.solved
  <2>1. /\ Reward(r, m) = base + Weights.cost * Kept(m) * Timeout
        /\ Reward(r, n) = base + Weights.cost * Kept(n) * Timeout
    BY <1>8 DEF Reward, base, Kept
  <2> QED
    BY <1>2, <1>6, <1>7, <2>1
<1>9. CASE ~r.solved
  BY <1>9 DEF Reward
<1> QED
  BY <1>8, <1>9

(* No agent is paid less than its own spending earns it, for any tasks, weights, costs and
   batches: the score of Finish is a sum over what was recorded, in which every term
   falls with the cost. *)
THEOREM NobodyIsPaidLess == Spec => NeverPaidLess
<1>1. TypeOK /\ Iterations /\ Own /\ Scored /\ [Next]_vars
        => (Finish /\ ~inherited => final'[agent] >= Earned(spent))
  <2> SUFFICES ASSUME TypeOK, Iterations, Own, Scored, Finish, ~inherited
               PROVE  final'[agent] >= Earned(spent)
    OBVIOUS
  <2> DEFINE paid == [t \in Recorded |-> Reward(outcome[t], bill[t])]
             due == [t \in Recorded |-> Reward(outcome[t], spent[t])]
  <2>1. stage = "batch" /\ agent \in Agents
    BY DEF Finish, Iterations, TypeOK
  <2>2. final'[agent] = Earned(bill)
    BY <2>1 DEF Finish, TypeOK
  <2>3. Recorded \in SUBSET Tasks
    BY DEF Recorded
  <2>4. IsFiniteSet(Recorded)
    BY <2>3, TasksAreFinite
  <2>5. ASSUME NEW t \in Recorded
        PROVE  due[t] \in Nat /\ paid[t] \in Nat /\ due[t] <= paid[t]
    <3>1. outcome[t] \in Outcomes /\ bill[t] <= spent[t]
      BY <2>1 DEF Scored, Own
    <3>2. bill[t] \in Nat /\ spent[t] \in Nat
      BY DEF Recorded, TypeOK
    <3>3. /\ Reward(outcome[t], spent[t]) \in Nat
          /\ Reward(outcome[t], bill[t]) \in Nat
          /\ Reward(outcome[t], spent[t]) <= Reward(outcome[t], bill[t])
      BY <3>1, <3>2, CheaperEarnsMore
    <3> QED
      BY <3>3
  <2>6. \A U \in SUBSET Recorded : U # {} => (CHOOSE x \in U : TRUE) \in Recorded
    OBVIOUS
  <2>7. Earned(bill) = SumOver(paid, Recorded)
    <3> HIDE DEF Recorded
    <3> QED
      BY <2>6 DEF Earned, SumOver, MapThenSumSet, MapThenFoldSet
  <2>8. Earned(spent) = SumOver(due, Recorded)
    BY <2>6 DEF Earned, SumOver, MapThenSumSet, MapThenFoldSet
  <2> HIDE DEF paid, due
  <2>9. SumOver(due, Recorded) <= SumOver(paid, Recorded)
    BY <2>4, <2>5, SumMonotone
  <2>10. SumOver(due, Recorded) \in Nat /\ SumOver(paid, Recorded) \in Nat
    BY <2>4, <2>5, SumType
  <2> QED
    BY <2>2, <2>7, <2>8, <2>9, <2>10
<1> QED
  BY Typed, OwnAlways, ScoredAlways, <1>1, PTL DEF Spec, NeverPaidLess

==============================================================================
