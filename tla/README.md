# Autoppia web agents subnet: a TLA+ verification project

This directory holds TLA+ models of the validator of Bittensor subnet 36, the
TLC configurations that check them on small instances, and proofs, checked by
TLAPS, of what holds for every instance. The reference is the code in `src/`;
`PROJECT.json` maps each definition to the lines it stands for. Paths below are
relative to `src/autoppia_web_agents_subnet/`, except `neurons/`.

## 1. The system

A *validator* repeats rounds of `ROUND_SIZE_EPOCHS` on the height of the
Bittensor chain; a fixed number of rounds is a season, and every round of a
season uses the same tasks. In a round a validator asks the miners for their
agents (handshake), runs each agent in a sandbox on the tasks (evaluation),
uploads what it measured to IPFS and commits the CID on chain, waits for the
fetch block, aggregates what all validators committed for the round, decides
who leads the season, sets weights (all to the leader, the rest burned), and
reports the round to IWAP, the platform.

| Component | State it keeps | Operations | Interacts with |
|---|---|---|---|
| Round clock: `validator/season_manager.py`, `round_manager.py`, `platform/client.py` | season number and start, round number, start / fetch / target block | season, round and window of a height; name of a round | read by everything |
| Round lifecycle: `neurons/validator.py` `forward`, `base/validator.py` `run` | the step of the round it is in, blocks frozen for the settlement, round id | start, late start, guard, waits, settlement, end; failure of the thread, restart of the process | chain, PM2, all phases |
| Handshake: `validator/round_start/mixin.py` | agents, queue, owners per repository, pending updates | ask miners, cap, reuse, cool down | miners, evaluation |
| Evaluation: `validator/evaluation/` | queue, accumulators, evaluated commits | run an agent, stop at the deadline, zero the rest | sandbox, IWAP |
| Consensus: `validator/settlement/consensus.py`, `utils/ipfs_client.py`, `utils/commitments.py` | one commitment on chain | publish, filter, average by stake | chain, IPFS |
| Season leadership: `validator/settlement/mixin.py`, `platform/utils/round_flow.py`, `neurons/validator.py` | season bests, winner and its reward, leader before / after each round, artifacts on disk | settle, report, save, replay after a restart | consensus, weights |
| Round report: `platform/mixin.py`, `platform/utils/round_flow.py`, `task_flow.py`, `platform/client.py` | round id, shadow and offline flags, registered miners, pending files | start, register, finish, retry, persist, replay | IWAP |
| Season tasks: `validator/season_manager.py`, `validator/evaluation/tasks.py` | cache and file of a season's tasks | load, generate, save, migrate | start of a round |
| Sandbox and gateway: `opensource/` | containers, cost and token use per agent | build, start, stop; admit and account a request | evaluation, model providers |
| Weights: `base/validator.py`, `base/neuron.py`, `base/utils/weight_utils.py` | scores and their hotkeys, copy of the metagraph, `state.npz` | update scores, refresh, emit, save, load | chain, settlement; two threads |

The miner (`neurons/miner.py`, `miner/`) only answers; logging, tables, scripts
and configuration have no behaviour of their own.

### What is hard about it

* Validators are coordinated by nothing but the block height, which each reads
  through a cache (`ttl_get_block`), sometimes hours after it took a decision
  that depends on it.
* A validator has one commitment on chain. The next round overwrites it.
* The season's throne is decided twice per round, by the settlement (from season
  bests) and by the report (from the rewards of the round), and a third time after
  a restart by replaying files.
* Rounds burn, are skipped, are cut off by a restart or finished offline, and each
  of these paths leaves a different part of the state behind.
* `forward()` runs in a daemon thread; the main thread sends heartbeats, and both sync
  the same scores with the chain.
* Containers call the gateway when they like, name a task in a header, and their calls
  are answered after retries: perhaps after their task, their container or their
  validator's patience is over.

`PROJECT.json` lists the hazards one by one, with the properties that cover them.

### What makes each component correct

* Clock: three computations of season and round agree at every height; names are
  never reused and never go back.
* Lifecycle: a round has one name from start to settlement; it is started once; no
  vote of another round is counted; whoever commits in time is counted; no wait
  hangs; a failed validator comes back.
* Leadership: whoever leads has earned it; nobody who beats the bar is passed over;
  the leader keeps the throne until beaten; payout and report agree; a restart
  changes nothing.
* Consensus: a reward is the stake-weighted average of what was published for the
  round, whatever order payloads arrive in; whoever is left out for its zeros had
  nothing else to say.
* Report: a report that was built gets through or is kept for later, unless the process
  dies while sending it or the disk refuses its file; nothing is sent for a round the
  platform has not accepted, or that went offline.
* Handshake and evaluation: every agent of the first handshake ends evaluated, so
  that weights are set; what is published for a miner was earned by its registered runs
  of this season; a cooldown is kept whatever is sent meanwhile; zeros that consensus threw out do not come back; a
  failed deployment is tried again (the code does not).
* Sandbox and gateway: an agent pays for its own calls, an agent over its budget is
  stopped, and its container goes with it.
* Weights: the chain ends up with the weights of the last settlement; no reward stays on
  a uid that is known to have changed hands (the code leaves one there when a settlement
  meets a refresh).

## 2. Modules and plan

| # | Module | Content | State |
|---|---|---|---|
| 1 | `SeasonLeadership`, `SeasonThrone` | a season of one validator: settlement, report, artifacts, restarts; the abstract throne it implements | done |
| 1p | `SeasonLeadership_proofs` | types, crowns, payout, the paid winner, the bar, the replay, the refinement of `SeasonThrone` | done |
| 2 | `RoundClock` | seasons, rounds, names | done |
| 3 | `ValidatorRounds`, `ValidatorRounds_proofs` | several validators in their rounds against one chain; the proofs start with the arithmetic of `RoundClock` | done |
| 4 | `RoundReport`, `RoundReport_proofs` | start, finish and replay of a round's report, flags and pending files; liveness | done |
| 5 | `AgentPool`, `MCAgentPool`, `AgentPool_proofs` | handshake, evaluation and kept results of one validator: caps, reuse, cooldown, queue, deadline, all-zero policy | done |
| 6 | `ConsensusRewards`, `MCConsensusRewards`, `ConsensusRewards_proofs` | publication, filters, all-zero exclusion, stake-weighted average of one settlement, against a reference definition | done |
| 7 | `ModelGateway`, `TaskEvaluation`, `MCTaskEvaluation`, `TaskEvaluation_proofs` | the evaluation of the queued agents task by task, their containers, and the gateway that meters their calls | done |
| p | `SumTheorems` | sums over finite sets, for the proofs of 6 and 7 | done |
| 8 | `Weights`, `MCWeights`, `Weights_proofs` | two threads between the settled rewards and the chain; refresh, save and restart | done |

`TaskEvaluation` extends `ModelGateway`: its next-state relation is the validator, the
containers and the gateway side by side. The modules meet at their ends: `AgentPool`
leaves the queue that `TaskEvaluation` empties, `ValidatorRounds` says when
`ConsensusRewards` runs and whose commitments it finds, `SeasonLeadership` turns its
averages into a winner, and `Weights` carries the winner to the chain.

Every invariant and action property that a passing run checks is also a theorem, for
every value of the constants its hypotheses allow, and so is the refinement of
`SeasonThrone`. Two hypotheses restrict the constants: `Quiet` (section 3) and the
threshold of `RoundsStartOnce` (section 4); a third, that payloads can be read
(`InTimeCounted`), restricts the failures. What remains with TLC alone are the four
liveness properties `RoundsEnd`, `PendingIsSent`, `Settles` and `SettledIsPaid`, because
proofs from `WF` and `SF` need `ENABLED`, which the prover does not support, and the three
runs that end in a violation.

Left of the plan: `SeasonTasks` (cache, file and generation of a season's tasks); the
theorem `SeasonImplementsThrone` for seasons that cross round 10, once the replay is in
the order of the rounds; abstract specifications for the settlement of
`ConsensusRewards` and for the report, as `SeasonThrone` is one for the leadership.

## 3. Season leadership

`SeasonLeadership` is one validator through one season, from the aggregated
rewards to the artifacts on disk. `Settle` is `_calculate_final_weights`,
`FinishRound` and `FinishOffline` are the part of `finish_round_flow` after it,
`SkipRound` the rounds that are not settled, and `Restart`, `LoadRound`, `Loaded`
the process's restart and `_load_competition_state`, which replays one artifact
after another. The model keeps each place where the code stores a leader apart:
the winner last paid, the leader before and after each round in memory, the
artifact of each round. Rewards are integers in hundredths, `Pct` is
`LAST_WINNER_BONUS_PCT`. Ties the code breaks by dictionary order are left open.

The constant `Events` says what a season may see: a leader that improves, absent
miners, ties, rounds of zeros, rounds without consensus, offline rounds, skipped
rounds, restarts between rounds, in the middle of a round, and torn files. What
holds depends on it, so each run names its regime.

| Run | Regime | Shows |
|---|---|---|
| `throne_restart` | absences, restarts between rounds | after a report nobody's season best clears the bar over the leader: `LeaderHoldsTheBar`; `RestartKeepsTheThrone`; the model implements `SeasonThrone` |
| `throne_events` | everything | `TypeOK`, `CrownsAreEarned`, `NoChallengerPassedOver`, and `WinnerKeptUntilBeaten` as long as the season is calm |
| `throne_x_lexicographic` | a restart after round 10 | `RestartKeepsTheThrone` fails |

A property is not checked where the code decides otherwise. Adding the event to the
`Events` of the configuration shows each case:

* an absent winner loses the payout and not the throne, so `WinnerKeptUntilBeaten` speaks
  of the steps of a season that has been `calm`, a history variable: every miner was in
  every round settled, no reigning leader outdid its bar, and there was no restart;
* the bar of a reigning leader is the reward of its coronation, which
  `tests/validator/scenarios/test_leader_and_weight_scenarios.py` asserts, so
  `LeaderHoldsTheBar` has no `LeaderImproves`;
* an offline round leaves no report, so the throne of the report does not move while
  the payout does: `throne_restart` has no `Offline`;
* when the aggregation fails the report is built from local rewards: `throne_restart`
  has no `NoConsensus`.

`SeasonThrone` is what the documents promise: a throne that changes hands only to
somebody who beats its bar. `SeasonLeadership` refines it by
`INSTANCE SeasonThrone WITH` the reported leader and bar, restarts being stutters.

The bounds are three miners, three rounds and rewards from a small set around one
threshold, enough for a leader, a challenger and a rival that profits from their
dispute; a third round is needed for every effect of a decision taken in the second
on the state of the first. `throne_x_lexicographic` starts at round 9, so that
round 10 sorts before it.

Proved for every value of the constants (`SeasonLeadership_proofs`): `TypeCorrect`;
`CrownsEarned`, by the strengthening `CrownInv`, which says of every place a leader
is stored, on disk too, that its reward is on record; `PayoutSound`, which rests on
`TopExists` (a finite set of challengers has a best one, by a minimal
counterexample); `WinnersAreKept`, by `CalmInv`: while the season is calm no season best
beats the winner paid, and the report shows that winner or, after a burned, skipped or
offline round, nobody, so that the next round reads it back from the winner last paid.

Proved where `Quiet` holds: `LeadersHoldTheBar`, `RestartsKeepTheThrone` and
`SeasonImplementsThrone`. `Quiet` admits the events of `throne_restart` only (the list above
says why the others break these properties), and seasons whose rounds all have one
digit or all have two, because of the replay order of section 10. The inductive invariant
`ThroneInv` relates the leaders in memory to the artifacts on disk: between rounds
(`IdleInv`) they are what the artifacts give when replayed in order (`Chronicle`); between settlement
and report (`SettledInv`) the same holds up to the round before, and the verdict of the round in
flight is spelled out; during a restart (`LoadingInv`) the history as reported is in no
variable, and the invariant says that *there is* one which the artifacts give, which ends with the
leader last reported, and of which the replay has rebuilt a prefix. The algorithms of
settlement, report and replay meet in `Passes`: nobody clears the bar and the
leader stays, or the best of those who clear it takes over. Lemmas show it of each of the
three for all rewards, and the steps of `SeasonThrone` follow from it.

Assumed: the burn uid is not a miner and less than everything is burned; a restart
tears at most one file.

## 4. Rounds and their clock

`RoundClock` has the three computations of season and round as operators.
`ValidatorRounds` extends it with validators that run `forward()`: `pc[v]` is the
step, an action runs to the next `await` after which state is read again. `rm` is
the `RoundManager`, `frozen` the three `_settlement_round_*` blocks, `id` the
`current_round_id` (by season and round), `season` and `tasks` the two numbers of
the `SeasonManager`, `slot` the commitment on chain. `Heights(v)` is what `self.block` may
return: the cached height, at most `Lag` blocks old, or the present one. `Sync` is
the read by either thread. `Fail` ends the thread that runs `forward()`, `Crash` the
process, `Restart` is PM2. `counted` and `ontime` are history variables.

A vote is only its author and the round the chain was in when it arrived: stake,
payloads and averages do not matter here. A season is a whole number of rounds, as
the defaults make it. IWAP may answer `start_round` with another round id; that is
not modelled.

| Run | Instance | Shows |
|---|---|---|
| `rounds_faults` | rounds of 3, seasons of 2 rounds, blocks 1..11, crashes, failures | one name per round, votes of the round, everyone in time counted, no process starts a round twice |
| `rounds_live` | rounds of 3, blocks 1..8, fair | `RoundsEnd`: no wait hangs, whatever fails |
| `rounds_x_stopped` | fair, one validator | `FailuresAreRestarted` fails |

A commitment that arrives while others already read the chain is counted by some
validators only; `EveryoneInTimeIsCounted` therefore speaks of those that were on
chain before the fetch block.

Two validators are enough: all properties relate one validator to another's slot.
The heights reach from before the launch over the first season boundary into the
second season, so that numbers start again; a lag of one block is enough to read a
height of the round before. The fetch block is the last block of a round or the one before
it; the late and guard thresholds are set so that both outcomes occur.

Fairness is assumed of three things: the chain produces blocks (`Tick`); the event
loop of a live process goes on (`Step`), which the code justifies by polling every 12
seconds, timeouts on every network call and on each task; PM2 restarts a process that
exits (`Restart`). Nothing is assumed of `Sync`, `Fail` or `Crash`.

Proved: `TypeCorrect`, `RoundsNamed`, `VotesOfTheRound`, and, unless payloads
cannot be read, `InTimeCounted`. The invariant `RoundInv` is split into a part per
validator (`Own`), which a step of another validator leaves alone (`OwnFrame`,
`StepFrame`), so only a validator's own steps need a case each (`OwnStep`) and the
chain's (`TickOwn`). `InTimeCounted` needs `TimelyInv` beside it: who is
in `ontime` holds the current round's name in its slot, and neither works on another
round nor has a height of another round in its cache. The arithmetic comes
first: `OneName` (the three computations agree), `NamesOrdered`,
`SameNameSameWindow`, `SameWindowSameName`, all from uniqueness of quotient and
remainder.

`RoundsStartOnce` is proved where `(RoundLength - Lag) * 100 > LatePct * RoundLength`: a
process that has finished a round may read a cached height of that round, and only the
late-start check then keeps it from starting the round again. The code leaves ample
room: rounds of 1800 blocks, a cache of 12 seconds, which is one block, and
`SKIP_ROUND_IF_STARTED_AFTER_FRACTION = 0.30`; the setting can be raised by the environment,
and at 1.0 the check would be gone. The invariant `BegunInv` says of each validator (`Begun`) that
the round it remembers is a window of the clock, that the chain has reached the end of that round
when it is about to start the next, and that no cached height is older than the lag; `NextRoundIsLater` is the arithmetic.

`RoundsEnd` is model-checked only.

## 5. Round report

`RoundReport` is one validator and the platform. `pc` is the call about to be made;
an action is one call of `IWAPClient`, its answer and what the code does with it.
`StartRound` is `_start_round`, which mints the id; `Begin` keys the tasks; `Flush` and
`Auth` are the head of `start_round_flow` (`_retry_pending_finish_requests`,
`auth_check`), `StartAccepted`, `StartRefused`, `StartFailed` and `SetTasks` its rest;
`Register` is `register_participating_miners_in_iwap`, `Evaluate` the batch submission,
`Finish`, `CallFinish` and `Fallback` are `finish_round_flow`, `Kept` is
`_persist_pending_finish_request`, which may write the file or fail to, `Reset` is `_reset_iwap_round_state`.

An answer is `ok`, a refusal the code tells apart (`authority`, `window`, `duplicate`,
`mismatch`), an error, or a call that was carried out and whose answer was lost.
`Events` says which may occur. `closed` and `confirmed` belong to the platform.
`report` is a history variable: `Finish` builds the report of a round, before its first
call; a crash while it is being sent, or a file that is not written (`disk`), makes it
`gone`.

| Run | Instance | Shows |
|---|---|---|
| `report_faults` | three ids, two retries, every event | `ReportsAreKept`, `RunsBelongToTheRound`, `OfflineRoundsSendNothing`, and `PendingIsSent` under fairness |

The number of rounds is not bounded: an id that neither process nor disk remembers
may be minted again, which stands for a fresh one. Three ids allow two pending files
beside the current round; with all ids but one pending the platform behaves (`Full`), the
only bound on what may fail. One miner stands for all, since runs are independent.

From the moment it is built, a report is being sent, is in a file or has been received
(`ReportsAreKept`). Two ways to lose it are excepted, because the code takes no precaution
against them: the report is in memory only during the retries of `finish_round`, so that a
crash in between takes it along, and `_persist_pending_finish_request` swallows the failure
of its write, on which the caller logs that the report was persisted. Each exception is
needed: with `report[i] # "none"` in place of `report[i] = "built"` TLC finds both losses. A
crash at any other moment and every mixture of refusals, lost answers and replays leaves each
report accounted for.

Fairness: the calls of a live process are made and return (`WF(Step)`: every request has
a timeout, every retry a bound); not every round is started too late (`SF(Begin)`,
because `Step` alone would allow every round to end at its late-start guard); the
platform recovers for good at some moment (`WF(Recover)`). Before that moment anything
may happen, crashes included.

Proved for any ids and retry bounds (`RoundReport_proofs`): `TypeCorrect`,
`ReportsKept` (which is inductive with the types), `RunsBelong` (whose invariant says at which `pc` the ready flag may be
trusted) and `OfflineSilent`. `PendingIsSent` is model-checked only.

Left out: round logs and the checkpoint upload, which nothing reads again; the
contents of messages. A file that was torn while it was written counts as no file: the
replay skips what it cannot read.

## 6. Agents, handshake and evaluation

`AgentPool` is one validator through the rounds of a season and into the next. `AskMiners`
is the head of `_perform_handshake`; each answer is one action, named for the branch it
takes (`NoResponse`, `MissingFields`, `ColdkeyCapped`, `InvalidUrl`, `RepoCapped`,
`Reuse`, `PutOff`, `Enqueue`), in any order, because the order by stake is not modelled.
`Register` is the start of the agent runs on the platform. In `_run_evaluation_phase`
`Run` and `Fail` take an agent off the queue, `Deadline` and `AllEvaluated` end the
phase with `_mark_all_zero_round_for_re_evaluation`. `Settle` and `EndUnsettled` are the
settlement as far as it concerns the agents, `Crash` a restart.

`known`, `evaluated`, `last` and `putOff` are the fields of the agents in `agents_dict`
that decisions depend on; `queue` is `agents_queue` with `named` for the agents whose
commit was resolved in the handshake; `kept` is `_evaluated_commits_by_miner`, `suspicion`
`_pending_all_zero_round_policy`, `guard` `_disable_reuse_until`. A commit stands for its
URL and its repository (`RepoOf`); the reward of a run is drawn from `Rewards`. `cooldown`
is the setting of the validator: 0 and 0 is the default, no cooldown. What the score of a
miner does to the length of its cooldown is left open between the two bounds. `excluded`,
`earned` (what the registered runs of a miner earned in this season, since the process
began) and `cut` are history variables.

| Run | Instance | Shows |
|---|---|---|
| `pool_rounds` | three miners of two owners, two commits, caps of one, three rounds, with and without a cooldown | `GateIsOpen`, `CountsForItsRuns`, `ExcludedZerosAreGone`, `CooldownIsKept` |
| `pool_x_deploy` | failed deployments only | `FailedIsTriedAgain` fails |

Two of the miners have one owner, which the cap on coldkeys needs, the third another, which
the cap on repositories needs. In three rounds a suspicious round is followed by the round
without reuse and by one in which reuse is allowed again, and a cooldown of two
rounds by the round in which it is over. The miners of one owner may be swapped, and the
commits with their repositories, which the specification never tells apart. The run has
every event but `unresolved` (a URL whose commit the validator cannot resolve); with it the
space has ten million states and takes too long to check every time. The proofs cover it.

A first round that is cut after its handshake (`cut`) leaves agents behind that nobody has
evaluated. If such a miner does not answer again, the gate of the weights stays closed for
the season; and if nobody can be asked in the next round, the statuses of the cut round are
settled. `GateIsOpen` exempts these seasons; without `~cut` it fails. The other properties
hold in them too.

An agent cut off by the deadline, or one whose deployment failed, is eligible although
nothing was measured; that is what the code does. What it must not do is count for more than
zero: `CountsForItsRuns` compares everything that may be published for a miner, the results
kept by commit over the rounds and the run of the round, with what its runs have earned. It
fails as soon as a result outlives its season.

Proved for any miners, commits, caps, cooldowns, rounds and events
(`AgentPool_proofs`): all five properties. `InOrder` says where in a round the validator is.
`AnswerEffect` sums up what any answer may do to the queue and the statuses, so that the
inductive steps need one case for the eight answers. The invariants are `GateInv` (between
handshake and settlement an unevaluated agent of the first handshake is in the queue),
`EarnedInv` (within a season every kept result and every run of the round is zero or was
earned, and no reward is left between the rounds; `RunsCounted`), `CooldownInv` (whoever is queued has its cooldown behind it), and `ZerosInv`
(the results of the suspicious round belong to the miners the policy names, so that the
purge finds them all, and the rounds excluded are earlier ones).

## 7. Consensus rewards

`ConsensusRewards` follows one validator, `Self`, through `publish_round_snapshot` and
`aggregate_scores_from_commitments`, while the others publish for this round or the next
(`Publish`, `PublishNext`) early, late or never. `Read` takes all commitments at once, as
the code does; `Fetch` filters and downloads them one by one (`todo`, `compatible`);
`AllFetched` decides whether anybody has a positive run; `Count` is the second pass,
payload by payload, with the sums and weights per miner; `Settle` ends it. A CID names its
content, so a commitment holds the payload. Averages are kept as a sum and its divisor, so
nothing is rounded. A best run of the miner with uid 0 is dropped by
`get("uid") or get("miner_uid")`: `Votes` has that too.

| Run | Instance | Shows |
|---|---|---|
| `consensus` | three validators, one without the stake, with more stake than the others together, or of another version; five payloads; failing publication, reading, downloads and an exception | `RewardIsTheAverage`, `BetweenTheVotes`, `PositiveIfSomeoneSaysSo`, `LeftOutHadNothing`, `CountedWerePublished`; `Settles` under fairness |

`RewardIsTheAverage` compares the two passes with a definition in one sentence (`Voters`):
the accepted payloads with a vote for the miner, without the all-zero ones if there are
others. Three validators allow a minority of zeros, a majority of zeros and one voice that
is not counted; three miners allow votes that overlap in part, and have uid 0 among them.
Fairness: the settlement is one coroutine whose requests have timeouts.

Proved for any validators, payloads, stakes and faults (`ConsensusRewards_proofs`):
`TypeCorrect`, `AveragesAreBetweenVotes`, `PositiveVotesCount`, `ZerosAreLeftOutForARun`,
`OnlyThisRoundCounts`, `RewardsAreAverages`. The invariants say what a sum is while payloads are still to be
added: between the bounds of what was counted, and zero only if all of it was. `RewardsAreAverages` adds that a sum is the sum, over the set of
payloads counted so far, of their terms (`Totalled`), and that counted and left out
payloads are apart and never come back (`Apart`), so that the order of arrival cannot matter; at
the end `VotersAreCounted` identifies that set with the one of the definition. Nothing is assumed finite: what is
counted grows one payload at a time.

A sum over a set is a fold, defined by recursion, and the prover has no induction for it.
`SumTheorems` therefore proves, by a minimal counterexample over the subsets of a finite
set, that a function obeying the recursion exists, that every such function adds
one term for a new element, and what follows: sums are natural numbers, agree where their terms do, and
grow with their terms. `Settles` is model-checked only.

## 8. Tasks, containers and the gateway

`ModelGateway` is the proxy in front of the model providers. `Request` admits a call if its
task is allowed and has not spent `COST_LIMIT_PER_TASK`; `Checked`, `Priced`, `Lock`,
`Refresh`, `Send`, `Retries`, `Again` and `Fail` are the awaits between admission and answer;
`Charge` adds the cost when the answer is there. `SetAllowed` is the reset of the counters.
`TaskEvaluation` is the validator beside it: `StartContainer`, `Healthy`, `Unhealthy`,
`AllowTasks` deploy an agent, `StartBatch`, `EndTask`, `EndBatch` and `Record` evaluate its
tasks and read what they cost, `Finish` scores it and removes its container, `Crash` is a
restart in the middle. `caller`, `spent`, `inherited` and `strays` are history variables:
who made a call, what it really cost, whether others could reach the counters, which
containers a crash left.

| Run | Instance | Shows |
|---|---|---|
| `tasks` | two agents, two tasks, two calls open at a time, batches of one and two, tasks that raise or are solved in half their time, one retry, one crash | `CostIsBounded`, `PaysForItself`, `StoppedForItsOwn`, `OverCostIsCut`, `OnlyCrashesLeaveContainers`, `NeverPaidLess` |

The order of the two agents is fixed, and calls are interchangeable (symmetry). Two agents are what a late
answer needs to reach the wrong bill; two calls what it needs to pass the limit together;
batches of one and two tell the budget of a task from that of a batch. `inherited` holds
after a reset that failed or that met a call or a container of another agent: then the
properties on costs do not hold, because all agents have the same tasks.

Proved for any agents, tasks, costs, retries and faults (`TaskEvaluation_proofs`):
`TypeCorrect`, `BoundedCost`, `ContainersAreRemoved`, `OwnCostsOnly`, `OverCostStops`,
`OwnCostsStop`, `NobodyIsPaidLess`: all six properties.
`OwnCostsOnly` rests on an invariant (`Own`) that ties every open call to the agent being
evaluated, and a billed task to the counter it was read from. `OwnCostsStop` adds `Held`:
the hits held against an agent are at most the number of its recorded tasks that were
billed the limit. `NobodyIsPaidLess` adds `Scored`: only evaluated tasks are recorded,
and none of them is evaluated again. A reward falls with its cost (`CheaperEarnsMore`) and
bills are at most what was spent, so `SumMonotone`, over the recorded tasks, ends it.

Left out: failures to stop a container, which the code suppresses; a request to the gateway
that times out in the validator and is applied later; cloning and building the
repositories; the steps of a task in the browser. There is no liveness here: a task
ends because `TASK_TIMEOUT_SECONDS` says so. `docs/miner.md:63` says that the score of an agent over its budget is forced
to 0; the code stops it and finalises the average so far (`Earned`).

## 9. Weights

`Weights` is what happens between `_calculate_final_weights` and the chain. The round
thread (`pc["forward"]`) pays a winner, burns, keeps the scores or settles nothing, emits
outside any lock (`SetWeights`, `Answered`) and then syncs; the heartbeat of the main thread syncs
when it likes. A sync is `BeginSync` (the lock), `Resync`, `ZeroReplaced` for each uid and `UpdateHotkeys`
(`resync_metagraph`), `ShouldSetWeights`, `Answered`, `SaveState`; `SyncFails` is its
`except`. `due` is the chain's clock of the last emission, `overdue` the same by the
validator's copy of the metagraph. `Boot` is a restart: the first `sync()` of the base
constructor saves zeros over `state.npz` before `load_state` reads it, unless that sync
fails (`RestartUnsaved`). A hotkey is the number of times its uid has changed hands;
`owner`, `settled`, `overlapped` and `lost` are history variables, `zeroed` is where the loop of
a refresh is.

`update_scores` runs in the round thread and takes no lock. It puts a new array in place, so
that a uid which a refresh has zeroed, before or after the refresh takes the new hotkeys over,
has the score of its old hotkey again, and is paid until the next settlement. `overlapped` is
the set of these uids; the next refresh that finds one replaced again takes it out.

| Run | Instance | Shows |
|---|---|---|
| `weights` | a miner and the burn uid, two settlements, one replaced hotkey, two faults, one restart | `ReplacedIsZeroed`; `SettledIsPaid` under fairness |

A paid winner, a burn, and the two after each other are all that a settlement can leave to
be overtaken; two faults allow an emission that is rejected and a round thread that then
dies, or a restart that keeps the file after a lost answer. Without its exceptions
`SettledIsPaid` fails: after a restart the scores are gone and the heartbeat emits burn
weights once a forward has ended (`lost`); a round thread that dies before its first step
leaves a heartbeat that never emits (`Silent`). What it demands of the chain (`Payable`) is
the last settlement less the uids that changed hands, with those the settlement put back:
there the code pays whom it should not. `ReplacedIsZeroed` excepts them too, and without the
exception TLC finds the refresh that a settlement meets in its middle.
That a uid which changes hands is paid again by the next settlement, for the season best of
its predecessor, is outside these properties: the settlement never looks at hotkeys.

Fairness: epochs go by, both threads run, and a thread that waits for the lock gets it
(strong fairness of `BeginSync`): the heartbeat takes it for one sync in half an hour.
The chain may reject, and a sync fail, at most `MaxFaults` times; without such a bound
nothing would ever have to be accepted.

Proved for any uids and bounds (`Weights_proofs`): `TypeCorrect`, with the exclusion of the
two threads, and `ScoresFollowHotkeys`, by the invariant that the scores in memory and in
the file both belong to the hotkeys beside them, and that what a refresh under way has
zeroed is zero or was put back (`ZeroedIsZero`). `SettledIsPaid` is model-checked only.

Left out: a `moving_average_alpha` other than 1, the default; a metagraph that grows
(a settlement that the growth overlaps raises in `update_scores`, which is `Dies`); the cut
at `max_weight_limit` and the 16-bit quantisation, since weights are taken up to scale.

## 10. Findings

`PROJECT.json` lists the runs that end in a violation with the sentence of the
repository they refute: the replay of artifacts in lexicographic order, a failed
`forward()` that no supervisor restarts, and the zero of a failed deployment, which is kept for
the rest of the season.

Five more disagreements have no run of their own. The settlement dethrones by season best
and the report by the reward of the round, so with a leader that improves the miner that is
paid and the leader that is reported may differ. A platform that answers `start_round`
with an id of its own leaves the tasks under the old id, and no evaluation of the round is
sent. An agent over its budget keeps the average it had, where `docs/miner.md:63` forces it to 0.
A report whose file could not be written is logged as "persisted for retry"
(`round_flow.py:681` and `2184`), and lost. The score of a hotkey that "has been replaced"
(`base/validator.py:336-339`) comes back when a settlement meets the refresh (`388`).

## 11. Not modelled

* Season tasks: read and written by one process at the start of a round, and by nobody
  else; `TaskEvaluation` takes the tasks as given.
* `task_flow.py`, round logs and checkpoints: payloads of messages that nothing reads again.
* The miner's agent and axon, logging, tables, configuration and scripts, which change no
  state the others read.
* The platform's and the chain's internals beyond what the validator observes.
* In `RoundReport` the rounds themselves (heights, settlement) are those of
  `ValidatorRounds`, reduced to their calls. In `AgentPool` stake and the exchange with the
  miners are left out, and a run ends with some reward; its tasks are in `TaskEvaluation`.
