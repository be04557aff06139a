------------------------------- MODULE Weights -------------------------------
(***************************************************************************)
(* From the rewards of a settlement to the weights on chain                *)
(* (base/validator.py, base/neuron.py, validator/settlement/mixin.py).     *)
(*                                                                         *)
(* Two threads of the validator share the scores. The round thread settles *)
(* a round and emits at once, without a lock; at the end of each forward,  *)
(* and every half hour in the heartbeat of the main thread, a sync takes   *)
(* the sync lock, refreshes the metagraph, zeroes the scores of the uids   *)
(* that changed hands, emits the scores again when an epoch has gone by    *)
(* and saves them. The metagraph a thread looks at is a copy, and is older *)
(* than the chain until somebody refreshes it.                             *)
(*                                                                         *)
(* A hotkey is the number of times its uid has changed hands. Weights are  *)
(* taken up to scale: what is sent is the vector of scores.                *)
(***************************************************************************)
EXTENDS Naturals, FiniteSets

CONSTANTS
  Uids,
  Burn,             \* BURN_UID
  Whole, BurnShare, \* a whole reward, and BURN_AMOUNT_PERCENTAGE of it
  MinAllowed,       \* min_allowed_weights of the chain
  None,
  MaxSettlements, MaxReplacements, MaxFaults, MaxRestarts \* bounds

ASSUME WeightsAssumption ==
  /\ Burn \in Uids
  /\ Whole \in Nat \ {0} /\ BurnShare \in 0..Whole
  /\ MinAllowed \in Nat
  /\ None \notin {"forward", "heartbeat"}
  /\ {MaxSettlements, MaxReplacements, MaxFaults, MaxRestarts} \subseteq Nat

VARIABLES
  registered,  \* chain: the hotkey of each uid
  weights,     \* chain: the last weights accepted
  due,         \* chain: an epoch has gone by since weights were accepted
  metagraph,   \* the local copy of registered
  overdue,     \* the same as due, by the local copy of last_update
  hotkeys, scores,
  step,        \* 0 until the first forward of the process, then 1
  begun,       \* a forward of this process has ended
  saved,       \* state.npz
  pc, lock,    \* where the threads are, and who holds _sync_lock
  zeroed,      \* the uids a refresh under way has zeroed
  rewards,     \* final_rewards_array, not yet in the scores
  sending,     \* raw_weights: what each thread has read to send
  settled,     \* history: the rewards of the last settlement
  owner,       \* history: the hotkeys those rewards were computed for
  overlapped,  \* history: the uids paid although a refresh that met that
               \* settlement knew them to have changed hands
  lost,        \* history: a restart loaded other scores than what is payable
  settlements, replacements, faults, restarts

chain == <<registered, weights, due>>
local == <<metagraph, overdue, hotkeys, scores, step, begun>>
threads == <<pc, lock, zeroed, rewards, sending>>
history == <<settled, owner, overlapped, lost>>
bounds == <<settlements, replacements, faults, restarts>>
vars == <<chain, local, saved, threads, history, bounds>>

Threads == {"forward", "heartbeat"}
Vectors == [Uids -> Nat]
Nothing == [u \in Uids |-> 0]
NoRewards == [shares |-> Nothing, owner |-> Nothing]

-------------------------------------------------------------------------------
Burned == [u \in Uids |-> IF u = Burn THEN Whole ELSE 0]

\* The winner takes what is not burnt; the winner may be the burn uid.
Distribution(w) ==
  [u \in Uids |-> (IF u = w THEN Whole - BurnShare ELSE 0)
                    + (IF u = Burn THEN BurnShare ELSE 0)]

\* Too few positive scores, or none: everything is burnt.
Emitted(s) ==
  LET positive == {u \in Uids : s[u] > 0}
  IN  IF positive = {} \/ Cardinality(positive) < MinAllowed THEN Burned ELSE s

\* Where a thread waits between two syncs, and where it goes on after one.
Rest(t) == IF t = "forward" THEN "sync" ELSE "idle"
Resume(t) == IF t = "forward" THEN "round" ELSE "idle"

Goto(t, label) == pc' = [pc EXCEPT ![t] = label]

-------------------------------------------------------------------------------
Init ==
  /\ registered = Nothing /\ metagraph = Nothing /\ hotkeys = Nothing
  /\ weights = Nothing
  /\ due \in BOOLEAN /\ overdue = due
  /\ scores = Nothing /\ step = 0 /\ begun = FALSE
  /\ saved = [step |-> 0, scores |-> Nothing, hotkeys |-> Nothing,
              owner |-> Nothing, overlapped |-> {}]
  /\ pc = [t \in Threads |-> Rest(t)] /\ lock = None
  /\ zeroed = {} /\ rewards = NoRewards
  /\ sending = [t \in Threads |-> Nothing]
  /\ settled = Nothing /\ owner = Nothing
  /\ overlapped = {} /\ lost = FALSE
  /\ settlements = 0 /\ replacements = 0 /\ faults = 0 /\ restarts = 0

-------------------------------------------------------------------------------
(***************************************************************************)
(* The chain.                                                              *)
(***************************************************************************)
EpochPasses ==
  /\ due' = TRUE /\ overdue' = TRUE
  /\ UNCHANGED <<registered, weights, metagraph, hotkeys, scores, step, begun,
                 saved, threads, history, bounds>>

Replace(u) ==
  /\ replacements < MaxReplacements
  /\ replacements' = replacements + 1
  /\ registered' = [registered EXCEPT ![u] = @ + 1]
  /\ UNCHANGED <<weights, due, local, saved, threads, history, settlements,
                 faults, restarts>>

Fault == faults < MaxFaults /\ faults' = faults + 1

Accept(t) ==
  /\ weights' = Emitted(sending[t])
  /\ due' = FALSE

-------------------------------------------------------------------------------
(***************************************************************************)
(* The forward: a round that pays a winner or burns, that keeps the scores *)
(* and sends them again, or that settles nothing.                          *)
(***************************************************************************)
Reward(shares) ==
  /\ pc["forward"] = "round"
  /\ settlements < MaxSettlements
  /\ settlements' = settlements + 1
  /\ rewards' = [shares |-> shares, owner |-> hotkeys]
  /\ begun' = TRUE
  /\ Goto("forward", "rewarded")
  /\ UNCHANGED <<chain, metagraph, overdue, hotkeys, scores, step, saved, lock,
                 zeroed, sending, history, replacements, faults, restarts>>

PayWinner == \E w \in Uids : Reward(Distribution(w))

BurnAll == Reward(Burned)

\* With a moving_average_alpha of 1 the rewards are the scores. They are a
\* new array, put in place without the lock: what a refresh zeroed in the old
\* one is paid again, whether its hotkeys have been taken over yet or not.
UpdateScores ==
  /\ pc["forward"] = "rewarded"
  /\ scores' = rewards.shares /\ settled' = rewards.shares
  /\ owner' = rewards.owner
  /\ overlapped' = {u \in Uids : hotkeys[u] # rewards.owner[u]} \cup zeroed
  /\ lost' = FALSE
  /\ rewards' = NoRewards
  /\ Goto("forward", "set")
  /\ UNCHANGED <<chain, metagraph, overdue, hotkeys, step, begun, saved, lock,
                 zeroed, sending, bounds>>

KeepWeights ==
  /\ pc["forward"] = "round"
  /\ begun' = TRUE
  /\ Goto("forward", "set")
  /\ UNCHANGED <<chain, metagraph, overdue, hotkeys, scores, step, saved, lock,
                 zeroed, rewards, sending, history, bounds>>

SettleNothing ==
  /\ pc["forward"] = "round"
  /\ begun' = TRUE
  /\ Goto("forward", "sync")
  /\ UNCHANGED <<chain, metagraph, overdue, hotkeys, scores, step, saved, lock,
                 zeroed, rewards, sending, history, bounds>>

Forget(t) == sending' = [sending EXCEPT ![t] = Nothing]

Send(t) ==
  /\ sending' = [sending EXCEPT ![t] = scores]
  /\ Goto(t, "send")

SetWeights ==
  /\ pc["forward"] = "set"
  /\ Send("forward")
  /\ UNCHANGED <<chain, local, saved, lock, zeroed, rewards, history, bounds>>

\* The answer of the chain, within a sync or at the end of a settlement.
Answered(t) ==
  /\ pc[t] = "send"
  /\ Goto(t, IF lock = t THEN "save" ELSE "sync")
  /\ \/ Accept(t) /\ UNCHANGED <<registered, bounds>>
     \/ Fault /\ UNCHANGED <<chain, settlements, replacements, restarts>>
  /\ Forget(t)
  /\ UNCHANGED <<local, saved, lock, zeroed, rewards, history>>

\* An exception ends the round thread, and only that thread: the main thread
\* and its heartbeat go on.
Dies ==
  /\ pc["forward"] \in {"sync", "round", "set", "send"} /\ lock # "forward"
  /\ Fault
  /\ Goto("forward", "dead")
  /\ \/ pc["forward"] = "send" /\ Accept("forward") /\ UNCHANGED registered
     \/ UNCHANGED chain
  /\ Forget("forward")
  /\ UNCHANGED <<local, saved, lock, zeroed, rewards, history, settlements,
                 replacements, restarts>>

-------------------------------------------------------------------------------
(***************************************************************************)
(* sync, in both threads.                                                  *)
(***************************************************************************)
\* Mutant: a sync that does not wait for the other.
Unlocked_Always == TRUE

Unlocked == lock = None

BeginSync(t) ==
  /\ pc[t] = Rest(t) /\ Unlocked
  /\ lock' = t
  /\ Goto(t, "resync")
  /\ UNCHANGED <<chain, local, saved, zeroed, rewards, sending, history, bounds>>

\* The refreshed copy is compared with the one before: the axons of the
\* subnet are the same, or a uid changed hands or only its address.
Resync(t) ==
  /\ pc[t] = "resync"
  /\ IF overdue
     THEN /\ metagraph' = registered /\ overdue' = due
          /\ \E moved \in BOOLEAN :
               Goto(t, IF moved \/ metagraph # registered THEN "zero" ELSE "decide")
     ELSE UNCHANGED <<metagraph, overdue>> /\ Goto(t, "decide")
  /\ UNCHANGED <<chain, hotkeys, scores, step, begun, saved, lock, zeroed,
                 rewards, sending, history, bounds>>

Replaced == {u \in Uids : hotkeys[u] # metagraph[u]}

\* One turn of the loop, in the scores as they are by then.
ZeroReplaced(t) ==
  /\ pc[t] = "zero"
  /\ \E u \in Replaced \ zeroed :
       /\ scores' = [scores EXCEPT ![u] = 0]
       /\ zeroed' = zeroed \cup {u}
       /\ overlapped' = overlapped \ {u}
  /\ UNCHANGED <<chain, metagraph, overdue, hotkeys, step, begun, saved, pc, lock,
                 rewards, sending, settled, owner, lost, bounds>>

\* The loop has passed every uid; the hotkeys are taken over.
UpdateHotkeys(t) ==
  /\ pc[t] = "zero" /\ Replaced \subseteq zeroed
  /\ hotkeys' = metagraph
  /\ zeroed' = {}
  /\ Goto(t, "decide")
  /\ UNCHANGED <<chain, metagraph, overdue, scores, step, begun, saved, lock,
                 rewards, sending, history, bounds>>

\* Mutant: the comparison reversed.
Elapsed_Not == step > 0 /\ ~overdue

Elapsed == step > 0 /\ overdue

ShouldSetWeights(t) ==
  /\ pc[t] = "decide"
  /\ IF Elapsed
     THEN Send(t)
     ELSE Goto(t, "save") /\ UNCHANGED sending
  /\ UNCHANGED <<chain, local, saved, lock, zeroed, rewards, history, bounds>>

EndSync(t) ==
  /\ lock' = None
  /\ Goto(t, Resume(t))
  /\ step' = IF t = "forward" /\ begun THEN 1 ELSE step
  /\ Forget(t)
  /\ UNCHANGED <<metagraph, overdue, hotkeys, scores, begun, zeroed, rewards, history>>

SaveState(t) ==
  /\ pc[t] = "save"
  /\ saved' = [step |-> step, scores |-> scores, hotkeys |-> hotkeys,
               owner |-> owner, overlapped |-> overlapped]
  /\ EndSync(t)
  /\ UNCHANGED <<chain, bounds>>

\* An exception of the node or of the disk: nothing is saved, the thread goes
\* on. The chain may have accepted weights whose answer was lost.
SyncFails(t) ==
  /\ lock = t /\ pc[t] \in {"resync", "decide", "send", "save"}
  /\ Fault
  /\ EndSync(t)
  /\ \/ pc[t] = "send" /\ Accept(t) /\ UNCHANGED registered
     \/ UNCHANGED chain
  /\ UNCHANGED <<saved, settlements, replacements, restarts>>

-------------------------------------------------------------------------------
(***************************************************************************)
(* A restart. The constructor of the base class syncs, and so saves scores *)
(* of zero, before the constructor of the validator loads the file. Only a *)
(* first sync that fails leaves the old file to load.                      *)
(***************************************************************************)
\* Mutant: scores are loaded, the hotkeys they belong to are not.
LoadedHotkeys_Current(file) == registered

LoadedHotkeys(file) == file.hotkeys

\* What was settled last, less the uids known to have changed hands, but for
\* those a settlement put back.
Payable ==
  [u \in Uids |-> IF hotkeys[u] = owner[u] \/ u \in overlapped THEN settled[u] ELSE 0]

Boot(file) ==
  /\ restarts < MaxRestarts /\ restarts' = restarts + 1
  /\ metagraph' = registered /\ overdue' = due
  /\ saved' = file
  /\ scores' = file.scores /\ hotkeys' = LoadedHotkeys(file)
  /\ step' = file.step /\ begun' = FALSE
  /\ owner' = file.owner /\ overlapped' = file.overlapped
  /\ settled' = settled
  /\ lost' = (lost \/ scores' # Payable')
  /\ pc' = [t \in Threads |-> Rest(t)] /\ lock' = None
  /\ zeroed' = {} /\ rewards' = NoRewards
  /\ sending' = [t \in Threads |-> Nothing]
  /\ UNCHANGED <<chain, settlements, replacements>>

Fresh == [step |-> 0, scores |-> Nothing, hotkeys |-> registered,
          owner |-> registered, overlapped |-> {}]

Restart == Boot(Fresh) /\ UNCHANGED faults

RestartUnsaved == Boot(saved) /\ Fault

-------------------------------------------------------------------------------
Sync(t) ==
  \/ BeginSync(t)
  \/ Resync(t)
  \/ ZeroReplaced(t)
  \/ UpdateHotkeys(t)
  \/ ShouldSetWeights(t)
  \/ Answered(t)
  \/ SaveState(t)

Forward ==
  \/ PayWinner
  \/ BurnAll
  \/ UpdateScores
  \/ KeepWeights
  \/ SettleNothing
  \/ SetWeights

Next ==
  \/ EpochPasses
  \/ \E u \in Uids : Replace(u)
  \/ Forward
  \/ Dies
  \/ \E t \in Threads : Sync(t) \/ SyncFails(t)
  \/ Restart
  \/ RestartUnsaved

Spec == Init /\ [][Next]_vars

-------------------------------------------------------------------------------
(***************************************************************************)
(* Epochs go by and both threads are scheduled. A thread that waits for    *)
(* the lock gets it in the end: a heartbeat holds it for one sync in half  *)
(* an hour.                                                                *)
(***************************************************************************)
Fairness ==
  /\ WF_vars(EpochPasses)
  /\ WF_vars(Forward)
  /\ \A t \in Threads : WF_vars(Sync(t)) /\ SF_vars(BeginSync(t))

FairSpec == Spec /\ Fairness

PcOK ==
  /\ pc \in [Threads -> {"idle", "sync", "round", "rewarded", "set", "send",
                         "resync", "zero", "decide", "save", "dead"}]
  /\ \A t \in Threads : pc[t] \in {"resync", "zero", "decide", "save"} => lock = t

\* Every variable has its type; the threads inside a sync hold its lock.
TypeOK ==
  /\ registered \in Vectors /\ metagraph \in Vectors /\ hotkeys \in Vectors
  /\ weights \in Vectors /\ scores \in Vectors /\ settled \in Vectors
  /\ owner \in Vectors
  /\ due \in BOOLEAN /\ overdue \in BOOLEAN /\ begun \in BOOLEAN
  /\ step \in {0, 1}
  /\ saved \in [step: {0, 1}, scores: Vectors, hotkeys: Vectors,
                owner: Vectors, overlapped: SUBSET Uids]
  /\ lock \in Threads \cup {None}
  /\ PcOK
  /\ zeroed \subseteq Uids
  /\ rewards \in [shares: Vectors, owner: Vectors]
  /\ sending \in [Threads -> Vectors]
  /\ overlapped \subseteq Uids /\ lost \in BOOLEAN
  /\ settlements \in 0..MaxSettlements /\ replacements \in 0..MaxReplacements
  /\ faults \in 0..MaxFaults /\ restarts \in 0..MaxRestarts

\* Whoever is on the scores of the validator still has the hotkey the score
\* was computed for, as far as the validator knows: a refresh zeroes the
\* uids that changed hands, and what a restart loads goes with the hotkeys
\* it was saved with. The exceptions are the uids that a refresh had found
\* replaced when a settlement put them back.
ReplacedIsZeroed ==
  \A u \in Uids \ overlapped : scores[u] > 0 => hotkeys[u] = owner[u]

\* The round thread is over before the first step of the process.
Silent == pc["forward"] = "dead" /\ step = 0

\* In the end the chain has, and keeps, the weights of the last settlement,
\* whatever was rejected, failed or overtaken by a stale emission or a refresh
\* on the way, and also when the round thread died. The exceptions are a
\* restart that lost them, and a round thread that died before its first step,
\* after which no sync emits.
SettledIsPaid ==
  <>[](lost \/ Silent \/ weights = Emitted(Payable))
===============================================================================
