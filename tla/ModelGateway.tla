----------------------------- MODULE ModelGateway -----------------------------
(***************************************************************************)
(* The gateway through which the agents reach the language models          *)
(* (opensource/gateway/main.py): which calls it admits, how a call waits   *)
(* for prices, for a slot of its provider and for retries, and what it     *)
(* charges to the task the call names.                                     *)
(*                                                                         *)
(* The cost of a task is compared with the limit when a call arrives, and  *)
(* charged when its answer arrives: several awaits lie between the two.    *)
(* Paths, models, bodies and headers only decide whether a call is         *)
(* refused, which changes nothing; a refusal after an await is Checked.    *)
(***************************************************************************)
EXTENDS Integers, FiniteSets

CONSTANTS
  Tasks,        \* the ids of the tasks of the season
  Calls,        \* the calls an agent can have open at once
  Costs,        \* what an answer may cost: no usage in the answer costs 0
  MaxCost,      \* the cost of the dearest answer
  CostLimit,    \* COST_LIMIT_PER_TASK
  Providers,    \* GATEWAY_ALLOWED_PROVIDERS
  Refreshed,    \* the providers whose prices are fetched (chutes)
  Slots,        \* the size of the semaphore of each provider
  MaxRetries,   \* GATEWAY_UPSTREAM_MAX_RETRIES
  ForceJson     \* GATEWAY_FORCE_JSON_RESPONSE_FORMAT

ASSUME GatewayAssumption ==
  /\ IsFiniteSet(Calls)
  /\ MaxCost \in Nat
  /\ Costs \subseteq 0..MaxCost
  /\ CostLimit \in Nat \ {0}
  /\ Refreshed \subseteq Providers
  /\ Slots \in [Providers -> Nat \ {0}]
  /\ MaxRetries \in Nat
  /\ ForceJson \in BOOLEAN

VARIABLES
  allowed,      \* self.allowed_task_ids
  usage,        \* the total_cost of self.usage_per_task
  prices,       \* whether the last refresh is younger than the TTL
  call          \* where the handler of each call stands

gatewayVars == <<allowed, usage, prices, call>>

Idle == [at |-> "idle"]

Handler == [at: {"pricing", "refreshing", "queued", "upstream"}, task: Tasks,
            provider: Providers, tries: 0..MaxRetries, forced: BOOLEAN]

GatewayTypeOK ==
  /\ allowed \subseteq Tasks
  /\ usage \in [Tasks -> Nat]
  /\ prices \in {"fresh", "stale"}
  /\ call \in [Calls -> {Idle} \cup Handler]

Unused == [t \in Tasks |-> 0]

\* The gateway as deploy_gateway leaves it; the refresh at its start may fail.
Fresh(p) == p \notin Refreshed \/ prices = "fresh"

GatewayInit ==
  /\ allowed = {}
  /\ usage = Unused
  /\ prices \in {"fresh", "stale"}
  /\ call = [c \in Calls |-> Idle]

At(c, where) == call[c] # Idle /\ call[c].at = where

\* The calls that hold a slot of the provider.
Upstream(p) == {c \in Calls : At(c, "upstream") /\ call[c].provider = p}

\* The calls admitted for a task and not answered yet.
InFlight(t) == {c \in Calls : call[c] # Idle /\ call[c].task = t}

\* Mutant: the limit itself is still within the limit.
Exceeded_Above(t) == usage[t] > CostLimit

Exceeded(t) == usage[t] >= CostLimit

(***************************************************************************)
(* The administration of the gateway.                                      *)
(***************************************************************************)
\* Mutant: the usage of the tasks is kept from one agent to the next.
SetAllowed_KeepsUsage(ids) ==
  /\ allowed' = ids
  /\ UNCHANGED <<usage, prices, call>>

SetAllowed(ids) ==
  /\ allowed' = ids
  /\ usage' = Unused
  /\ UNCHANGED <<prices, call>>

Redeploy ==
  /\ allowed' = {}
  /\ usage' = Unused
  /\ prices' \in {"fresh", "stale"}
  /\ call' = [c \in Calls |-> Idle]

Expire ==
  /\ prices = "fresh"
  /\ prices' = "stale"
  /\ UNCHANGED <<allowed, usage, call>>

(***************************************************************************)
(* One call: admitted, priced, sent, answered.                             *)
(***************************************************************************)
Request(c, t, p) ==
  /\ call[c] = Idle
  /\ t \in allowed
  /\ ~Exceeded(t)
  /\ call' = [call EXCEPT ![c] = [at |-> "pricing", task |-> t, provider |-> p,
                                  tries |-> 0, forced |-> ForceJson]]
  /\ UNCHANGED <<allowed, usage, prices>>

\* Once the prices are looked at, the body and the model are: 400, or go on.
Checked(c) ==
  \E next \in {Idle, [call[c] EXCEPT !.at = "queued"]} :
    call' = [call EXCEPT ![c] = next]

Priced(c) ==
  /\ At(c, "pricing")
  /\ Fresh(call[c].provider)
  /\ Checked(c)
  /\ UNCHANGED <<allowed, usage, prices>>

Lock(c) ==
  /\ At(c, "pricing")
  /\ ~Fresh(call[c].provider)
  /\ \A d \in Calls : ~At(d, "refreshing")
  /\ call' = [call EXCEPT ![c].at = "refreshing"]
  /\ UNCHANGED <<allowed, usage, prices>>

\* A failed refresh leaves the prices as they are; the call goes on all the same.
Refresh(c) ==
  /\ At(c, "refreshing")
  /\ prices' \in {prices, "fresh"}
  /\ Checked(c)
  /\ UNCHANGED <<allowed, usage>>

Send(c) ==
  /\ At(c, "queued")
  /\ Cardinality(Upstream(call[c].provider)) < Slots[call[c].provider]
  /\ call' = [call EXCEPT ![c].at = "upstream"]
  /\ UNCHANGED <<allowed, usage, prices>>

\* Mutant: a transient error is retried without an end.
Retries_Endless(c) == {[call[c] EXCEPT !.at = "queued", !.tries = @ + 1]}

\* An exception, a 429 or a 5xx: the call is sent once more, its slot released meanwhile.
Retries(c) ==
  {next \in {[call[c] EXCEPT !.at = "queued", !.tries = @ + 1]} : call[c].tries < MaxRetries}

\* The provider refuses the response_format that the gateway added: once more without it.
Unforced(c) ==
  {next \in {[call[c] EXCEPT !.at = "queued", !.forced = FALSE]} : call[c].forced}

Again(c) ==
  /\ At(c, "upstream")
  /\ \E next \in Retries(c) \cup Unforced(c) : call' = [call EXCEPT ![c] = next]
  /\ UNCHANGED <<allowed, usage, prices>>

\* 502, the provider's own error, or a 200 that is not JSON: nothing is charged.
Fail(c) ==
  /\ At(c, "upstream")
  /\ call' = [call EXCEPT ![c] = Idle]
  /\ UNCHANGED <<allowed, usage, prices>>

\* A task that is not allowed any more has no usage to add to: 500.
Charge(c, cost) ==
  /\ At(c, "upstream")
  /\ call' = [call EXCEPT ![c] = Idle]
  /\ usage' = IF call[c].task \in allowed
              THEN [usage EXCEPT ![call[c].task] = @ + cost]
              ELSE usage
  /\ UNCHANGED <<allowed, prices>>

(***************************************************************************)
(* What the gateway promises.                                              *)
(***************************************************************************)

(* A task never costs more than its limit and one answer for every call that was
   admitted while it was below: the limit is checked before the awaits of
   proxy_request and the cost added after them, and the semaphores bound the calls
   at the provider, not the calls admitted. *)
CostIsBounded ==
  \A t \in Tasks : usage[t] < CostLimit + MaxCost * Cardinality(Calls)

\* The same, with what the calls in flight may still add: inductive.
RoomForCalls ==
  \A t \in Tasks :
    usage[t] + MaxCost * Cardinality(InFlight(t)) < CostLimit + MaxCost * Cardinality(Calls)
===============================================================================
