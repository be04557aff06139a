---------------------------- MODULE TaskEvaluation ----------------------------
(***************************************************************************)
(* The evaluation of the queued agents, one after the other, against the   *)
(* tasks of the season (validator/evaluation/mixin.py), with the sandbox   *)
(* that runs their containers (opensource/sandbox_manager.py) and the      *)
(* gateway that meters their calls (ModelGateway).                         *)
(*                                                                         *)
(* Three processes meet: the validator, which reads the cost of a task     *)
(* once its whole batch is over; the container of the agent, which calls   *)
(* the gateway whenever it wants and names a task in a header; and the     *)
(* gateway, which answers after retries. Nothing cancels a call when its   *)
(* task or its container ends, and all agents have the same tasks.         *)
(***************************************************************************)
EXTENDS ModelGateway, Sequences, FiniteSetsExt

CONSTANTS
  Agents, None,
  Error,        \* an evaluation that raised
  Total,        \* the number of tasks of the season
  BatchSizes,   \* the values of CONCURRENT_EVALUATION_NUM
  MaxHits,      \* MAX_OVER_COST_TASKS_BEFORE_FORCED_ZERO_SCORE, 0 for none
  Timeout,      \* TASK_TIMEOUT_SECONDS
  CostNorm,     \* REWARD_TASK_DOLLAR_COST_NORMALIZATOR
  Weights,      \* EVAL_SCORE_WEIGHT, TIME_WEIGHT, COST_WEIGHT
  Outcomes,     \* what an evaluation may return: solved or not, and its time
  Queues,       \* the queues the handshake may leave
  Faults,       \* which of the requests to the gateway may fail
  MaxCrashes    \* bound: the crashes of the validator

ASSUME EvaluationAssumption ==
  /\ None \notin Agents \cup Nat
  /\ Total \in Nat
  /\ Tasks = 1..Total
  /\ BatchSizes \subseteq Nat \ {0}
  /\ MaxHits \in Nat
  /\ Timeout \in Nat \ {0}
  /\ CostNorm \in Nat \ {0}
  /\ Weights \in [score: Nat, time: Nat, cost: Nat]
  /\ Outcomes \subseteq [solved: BOOLEAN, time: Nat]
  /\ None \notin Outcomes /\ Error \notin Outcomes /\ Error # None
  /\ \A q \in Queues : q \in Seq(Agents) /\ \A a \in Agents : \E i \in DOMAIN q : q[i] = a
  /\ Faults \subseteq {"allow", "usage"}
  /\ MaxCrashes \in Nat

VARIABLES
  queue,        \* agents_queue
  agent,        \* the agent of this iteration, None between two
  stage,        \* where the iteration stands
  first,        \* i: the first task of the batch
  running,      \* the tasks of the batch whose evaluation has not returned
  outcome,      \* eval_results
  bill,         \* the cost recorded for each task
  hits,         \* cost_limit_hits
  boxes,        \* the agents whose container runs
  final,        \* the score of each agent evaluated in this phase
  caller,       \* history: the agent that made each call
  spent,        \* history: what the calls of the agent cost, by task
  inherited,    \* history: others could still add to what the agent is billed
  strays,       \* history: the containers that a crash left running
  crashes,
  size          \* CONCURRENT_EVALUATION_NUM, which a process reads once

iterationVars == <<agent, stage, first, running, outcome, bill, hits, spent, inherited>>
evaluationVars == <<queue, iterationVars, boxes, final, caller, strays, crashes, size>>
vars == <<gatewayVars, evaluationVars>>

Nothing == [t \in Tasks |-> None]
Batch == {t \in Tasks : first <= t /\ t < first + size}

(***************************************************************************)
(* calculate_reward_for_task, in units of 1 / (Timeout * CostNorm).        *)
(***************************************************************************)
AtMost(n, bound) == IF n < bound THEN n ELSE bound

Reward(result, cost) ==
  IF ~result.solved THEN 0
  ELSE Weights.score * Timeout * CostNorm
       + Weights.time * (Timeout - AtMost(result.time, Timeout)) * CostNorm
       + Weights.cost * (CostNorm - AtMost(cost, CostNorm)) * Timeout

Recorded == {t \in Tasks : bill[t] # None}

\* sum(rewards), which the finalisation divides by the tasks of the season.
Earned(cost) == MapThenSumSet(LAMBDA t : Reward(outcome[t], cost[t]), Recorded)

(***************************************************************************)
(* One agent after the other.                                              *)
(***************************************************************************)
Init ==
  /\ GatewayInit
  /\ queue \in Queues
  /\ agent = None
  /\ stage = "idle"
  /\ first = 1
  /\ running = {}
  /\ outcome = Nothing
  /\ bill = Nothing
  /\ hits = 0
  /\ boxes = {}
  /\ final = [a \in Agents |-> None]
  /\ caller = [c \in Calls |-> None]
  /\ spent = Unused
  /\ inherited = FALSE
  /\ strays = {}
  /\ crashes = 0
  /\ size \in BatchSizes

\* The iteration ends: the variables of the loop's body are gone.
EndIteration ==
  /\ agent' = None
  /\ stage' = "idle"
  /\ first' = 1
  /\ running' = {}
  /\ outcome' = Nothing
  /\ bill' = Nothing
  /\ hits' = 0
  /\ spent' = Unused
  /\ inherited' = FALSE

\* A bad address or a failed clone: no container was started.
CannotDeploy ==
  /\ stage = "idle" /\ queue # <<>>
  /\ final' = [final EXCEPT ![Head(queue)] = 0]
  /\ queue' = Tail(queue)
  /\ UNCHANGED <<gatewayVars, iterationVars, boxes, caller, strays, crashes, size>>

\* A container of the same name is replaced.
StartContainer ==
  /\ stage = "idle" /\ queue # <<>>
  /\ agent' = Head(queue)
  /\ queue' = Tail(queue)
  /\ stage' = "deploying"
  /\ boxes' = boxes \cup {Head(queue)}
  /\ strays' = strays \ {Head(queue)}
  /\ UNCHANGED <<gatewayVars, first, running, outcome, bill, hits, spent, inherited,
                 final, caller, crashes, size>>

Healthy ==
  /\ stage = "deploying"
  /\ stage' = "deployed"
  /\ UNCHANGED <<gatewayVars, queue, agent, first, running, outcome, bill, hits, spent,
                 inherited, boxes, final, caller, strays, crashes, size>>

\* Mutant: a container that fails its health check is left behind.
Removed_IfHealthy(a) == boxes' = IF stage = "deploying" THEN boxes ELSE boxes \ {a}

\* cleanup_agent
Removed(a) == boxes' = boxes \ {a}

Unhealthy ==
  /\ stage = "deploying"
  /\ Removed(agent)
  /\ final' = [final EXCEPT ![agent] = 0]
  /\ EndIteration
  /\ UNCHANGED <<gatewayVars, queue, caller, strays, crashes, size>>

\* Whether somebody else's calls may be counted from here on.
Shared(reset) ==
  \/ ~reset
  \/ boxes # {agent}
  \/ \E c \in Calls : call[c] # Idle /\ caller[c] # agent

\* A request that fails is only logged.
AllowTasks ==
  /\ stage = "deployed"
  /\ \E reset \in {TRUE} \cup {r \in {FALSE} : "allow" \in Faults} :
       /\ IF reset THEN SetAllowed(Tasks) ELSE UNCHANGED gatewayVars
       /\ inherited' = Shared(reset)
  /\ stage' = "batch"
  /\ UNCHANGED <<queue, agent, first, running, outcome, bill, hits, spent, boxes, final,
                 caller, strays, crashes, size>>

\* Mutant: the evaluation goes on for one more over-cost task.
Stopped_Above == MaxHits > 0 /\ hits > MaxHits

Stopped == MaxHits > 0 /\ hits >= MaxHits

StartBatch ==
  /\ stage = "batch"
  /\ first <= Total
  /\ ~Stopped
  /\ stage' = "running"
  /\ running' = Batch
  /\ UNCHANGED <<gatewayVars, queue, agent, first, outcome, bill, hits, spent, inherited,
                 boxes, final, caller, strays, crashes, size>>

\* evaluate_with_stateful_cua returns the score it reached, whatever ended it: success,
\* the steps, the deadline, a failed or empty act; Error, if it raised.
EndTask(t) ==
  /\ stage = "running"
  /\ t \in running
  /\ running' = running \ {t}
  /\ \E result \in Outcomes \cup {Error} : outcome' = [outcome EXCEPT ![t] = result]
  /\ UNCHANGED <<gatewayVars, queue, agent, stage, first, bill, hits, spent, inherited,
                 boxes, final, caller, strays, crashes, size>>

\* The results that gather returned and that are not recorded yet.
Unrecorded == {t \in Batch : outcome[t] \in Outcomes /\ bill[t] = None}

\* Mutant: the cost of all the tasks of the agent is read.
Lookup_All(t) == {MapThenSumSet(LAMBDA u : usage[u], Tasks)}

\* The cost of a task when its lookup works, and when it fails.
Lookup(t) == {usage[t]} \cup {n \in {0} : "usage" \in Faults}

\* Mutant: a task below the limit is held against the agent.
OverCost_Early(cost) == MaxHits > 0 /\ cost >= CostLimit - 1

OverCost(cost) == MaxHits > 0 /\ cost >= CostLimit

\* _record_local_task_result: the results of the batch, in the order of the tasks.
Record(t) ==
  /\ stage = "running"
  /\ running = {}
  /\ t \in Unrecorded
  /\ \A u \in Unrecorded : t <= u
  /\ \E cost \in Lookup(t) :
       /\ bill' = [bill EXCEPT ![t] = cost]
       /\ hits' = IF OverCost(cost) THEN hits + 1 ELSE hits
  /\ UNCHANGED <<gatewayVars, queue, agent, stage, first, running, outcome, spent,
                 inherited, boxes, final, caller, strays, crashes, size>>

\* The batch is submitted to the platform (RoundReport), which changes nothing here.
EndBatch ==
  /\ stage = "running"
  /\ running = {}
  /\ Unrecorded = {}
  /\ stage' = "batch"
  /\ first' = first + size
  /\ UNCHANGED <<gatewayVars, queue, agent, running, outcome, bill, hits, spent, inherited,
                 boxes, final, caller, strays, crashes, size>>

\* The last batch, or the last one that the cost allows.
Finish ==
  /\ stage = "batch"
  /\ first > Total \/ Stopped
  /\ Removed(agent)
  /\ final' = [final EXCEPT ![agent] = Earned(bill)]
  /\ EndIteration
  /\ UNCHANGED <<gatewayVars, queue, caller, strays, crashes, size>>

\* The round has no time left for the agents that are still queued.
Deadline ==
  /\ stage = "idle" /\ queue # <<>>
  /\ final' = [a \in Agents |-> IF \E i \in DOMAIN queue : queue[i] = a THEN 0 ELSE final[a]]
  /\ queue' = <<>>
  /\ UNCHANGED <<gatewayVars, iterationVars, boxes, caller, strays, crashes, size>>

\* The process ends; the next one starts its own gateway and evaluates anew. Docker keeps
\* the containers that run: only created and exited ones are collected.
Crash ==
  /\ crashes < MaxCrashes
  /\ crashes' = crashes + 1
  /\ Redeploy
  /\ EndIteration
  /\ queue' \in Queues
  /\ final' = [a \in Agents |-> None]
  /\ caller' = [c \in Calls |-> None]
  /\ strays' = boxes
  /\ UNCHANGED <<boxes, size>>

(***************************************************************************)
(* What the containers and the gateway do meanwhile.                       *)
(***************************************************************************)
\* A container learns the id of a task when it is asked to act on it.
Given(a) == IF a = agent /\ stage # "running" THEN {t \in Tasks : t < first}
            ELSE IF a = agent THEN {t \in Tasks : t < first + size}
            ELSE Tasks

AgentCalls(c, a) ==
  /\ a \in boxes
  /\ \E t \in Given(a), p \in Providers : Request(c, t, p)
  /\ caller' = [caller EXCEPT ![c] = a]
  /\ UNCHANGED <<queue, iterationVars, boxes, final, strays, crashes, size>>

\* The history forgets who made a call that is over.
Forget(c) == caller' = IF call'[c] = Idle THEN [caller EXCEPT ![c] = None] ELSE caller

Meanwhile(c) ==
  /\ Forget(c)
  /\ UNCHANGED <<queue, iterationVars, boxes, final, strays, crashes, size>>

GatewayWorks(c) ==
  /\ Priced(c) \/ Lock(c) \/ Refresh(c) \/ Send(c) \/ Again(c) \/ Fail(c)
  /\ Meanwhile(c)

GatewayCharges(c, cost) ==
  /\ Charge(c, cost)
  /\ spent' = IF caller[c] = agent
              THEN [spent EXCEPT ![call[c].task] = @ + cost] ELSE spent
  /\ Forget(c)
  /\ UNCHANGED <<queue, agent, stage, first, running, outcome, bill, hits, inherited, boxes,
                 final, strays, crashes, size>>

PricesExpire == Expire /\ UNCHANGED evaluationVars

AllEvaluated == stage = "idle" /\ queue = <<>>

Done == AllEvaluated /\ UNCHANGED vars

Evaluate ==
  \/ CannotDeploy \/ StartContainer \/ Healthy \/ Unhealthy \/ AllowTasks
  \/ StartBatch \/ EndBatch \/ Finish \/ Deadline
  \/ \E t \in Tasks : EndTask(t) \/ Record(t)

Next ==
  \/ Evaluate
  \/ Crash
  \/ \E c \in Calls :
       \/ \E a \in Agents : AgentCalls(c, a)
       \/ GatewayWorks(c)
       \/ \E cost \in Costs : GatewayCharges(c, cost)
  \/ PricesExpire
  \/ Done

Spec == Init /\ [][Next]_vars

(***************************************************************************)
(* Properties.                                                             *)
(***************************************************************************)
Stages == {"idle", "deploying", "deployed", "batch", "running"}

\* Types of the evaluation and of the gateway it uses.
TypeOK ==
  /\ GatewayTypeOK
  /\ queue \in Seq(Agents)
  /\ agent \in Agents \cup {None}
  /\ stage \in Stages
  /\ first \in Nat \ {0}
  /\ running \subseteq Tasks
  /\ outcome \in [Tasks -> Outcomes \cup {None, Error}]
  /\ bill \in [Tasks -> Nat \cup {None}]
  /\ hits \in Nat
  /\ boxes \subseteq Agents
  /\ DOMAIN final = Agents
  /\ caller \in [Calls -> Agents \cup {None}]
  /\ spent \in [Tasks -> Nat]
  /\ inherited \in BOOLEAN
  /\ strays \subseteq Agents
  /\ crashes \in 0..MaxCrashes
  /\ size \in BatchSizes

(* An agent is billed for a task at most what its own calls cost, unless the reset
   before its first batch failed, met a call of another agent, or left a container
   running that is not the agent's: the tasks and their counters are the same for all
   agents, and only the order of deployment, reset and removal tells them apart. *)
PaysForItself ==
  ~inherited => \A t \in Recorded : bill[t] <= spent[t]

(* An agent whose evaluation is stopped for its costs spent the limit itself on as
   many tasks as were held against it. *)
StoppedForItsOwn ==
  ~inherited => hits <= Cardinality({t \in Tasks : spent[t] >= CostLimit})

(* At most one batch is evaluated beyond the task that exhausts the budget of an
   agent: the tasks of a batch run together and are counted afterwards. *)
OverCostIsCut ==
  MaxHits > 0 => hits < MaxHits + size

(* A container other than the agent's runs only because a crash left it: every way
   out of an iteration, failed health check and early stop included, removes its own. *)
OnlyCrashesLeaveContainers == boxes \ {agent} \subseteq strays

(* The score of an agent is never below what its own spending earns it, unless the
   costs of others could reach its counters. *)
NeverPaidLess ==
  [][Finish /\ ~inherited => final'[agent] >= Earned(spent)]_vars
===============================================================================
