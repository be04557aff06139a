--------------------------- MODULE ValidatorRounds ---------------------------
(***************************************************************************)
(* Several validators going through their rounds against one chain.        *)
(*                                                                         *)
(* Each validator runs forward() (neurons/validator.py): it starts the     *)
(* round the chain is in, shakes hands, evaluates, publishes one           *)
(* commitment under the round's name, waits for the fetch block, counts    *)
(* the commitments of all validators that carry that name, and waits for   *)
(* the end of the round.  A validator has ONE commitment on chain: the     *)
(* next round overwrites it.  Nothing synchronises the validators but the  *)
(* block height, which each reads through a cache of its own (ttl_get_block*)
(* in base/utils/misc.py) and sometimes fresh.                             *)
(*                                                                         *)
(* A validator's process has two threads: run(), a daemon thread, calls    *)
(* forward() again and again; the main thread sleeps and calls sync().     *)
(* PM2 starts the process again when it exits, and only then.              *)
(*                                                                         *)
(* What a payload says, who has the stake to be counted and how rewards    *)
(* are averaged is abstracted: a vote is the validator that cast it and    *)
(* the round the chain was in when it got there.                           *)
(***************************************************************************)
EXTENDS RoundClock

CONSTANTS
    Validators,
    FirstBlock,     \* the height at which the validators start
    LastBlock,      \* bound: the chain ends here
    Lag,            \* how many blocks a cached height may be behind
    Events          \* what may go wrong, a subset of EventKinds

EventKinds ==
    {"Unevaluated",   \* an agent of the first handshake was not evaluated
     "PublishFails",  \* IPFS upload or commitment write fails
     "Unreadable",    \* a payload cannot be downloaded, or aggregation raises
     "ChainFails",    \* the chain cannot be read, or a wait for a block times out
     "Crash"}         \* the process exits

ASSUME BlocksAssumption ==
    FirstBlock \in Nat /\ LastBlock \in Nat /\ FirstBlock <= LastBlock
ASSUME LagAssumption == Lag \in Nat
ASSUME EventsAssumption == Events \subseteq EventKinds

VARIABLES
    chain,      \* the height of the chain
    cached,     \* the height each validator's ttl_get_block holds, or Expired
    pc,         \* where each validator's forward() is
    rm,         \* RoundManager: season_start_block and the boundaries
    frozen,     \* _settlement_round_{start,fetch,target}_block
    id,         \* current_round_id, by name
    season,     \* season_manager.season_number
    tasks,      \* season_manager.task_generated_season, 0 for None
    slot,       \* the commitment each validator has on chain
    counted,    \* the aggregation each validator did in the round it is in
    ontime      \* history variable: who has committed the round the chain is
                \* in before its fetch block

clock == <<cached, rm, frozen, id, season, tasks>>
vars == <<chain, cached, pc, rm, frozen, id, season, tasks, slot, counted, ontime>>

Steps == {"start", "boundary", "handshake", "guard", "evaluating", "settling",
          "publishing", "fetch", "aggregating", "ending",
          "stopped",    \* the run() thread is gone, the process lives on
          "exited"}     \* the process is gone

NoWindow == [number |-> 0, start |-> 0, settlement |-> 0, target |-> 0]
Manager == [season_start : Nat \cup {-1}, window : Window]
NoManager == [season_start |-> -1, window |-> NoWindow]

Vote == [by : Validators, during : RoundName]
Commitment == [round : RoundName, during : RoundName]
NoCommitment == [round |-> NoRound, during |-> NoRound]
\* An aggregation: the name it looked for, the name its result is recorded
\* under and the votes it counted.
Aggregation == [round : RoundName, record : RoundName, votes : SUBSET Vote]
NoAggregation == [round |-> NoRound, record |-> NoRound, votes |-> {}]

\* Reading self.block: the cached height while it has not expired, or the
\* height of the chain, which is then cached.
Expired == -1
Heights(v) == {cached[v], chain} \ {Expired}

Goto(v, step) == pc' = [pc EXCEPT ![v] = step]

-----------------------------------------------------------------------------
Init ==
    /\ chain = FirstBlock
    /\ cached = [v \in Validators |-> FirstBlock]
    /\ pc = [v \in Validators |-> "start"]
    /\ rm = [v \in Validators |-> NoManager]
    /\ frozen = [v \in Validators |-> NoWindow]
    /\ id = [v \in Validators |-> NoRound]
    /\ season = [v \in Validators |-> 0]
    /\ tasks = [v \in Validators |-> 0]
    /\ slot = [v \in Validators |-> NoCommitment]
    /\ counted = [v \in Validators |-> NoAggregation]
    /\ ontime = {}

\* A block is produced.
Tick ==
    /\ chain < LastBlock
    /\ chain' = chain + 1
    /\ cached' = [v \in Validators |-> IF cached[v] < chain' - Lag THEN Expired ELSE cached[v]]
    /\ ontime' = IF NameOf(chain') = NameOf(chain) THEN ontime ELSE {}
    /\ UNCHANGED <<pc, rm, frozen, id, season, tasks, slot, counted>>

\* _wait_for_minimum_start_block: the launch gate.  forward() returns.
WaitForLaunch(v) ==
    /\ pc[v] = "start"
    /\ \E b \in Heights(v) :
         /\ b < MinimumStartBlock
         /\ cached' = [cached EXCEPT ![v] = b]
    /\ UNCHANGED <<chain, pc, rm, frozen, id, season, tasks, slot, counted, ontime>>

\* Mutant: the season start is only set once, as _ensure_season_start_block
\* would keep it.
Synced_StickySeason(v, b) ==
    LET s == IF rm[v].season_start = -1 THEN SeasonStart(b) ELSE rm[v].season_start
    IN  [season_start |-> s, window |-> WindowOf(s, b)]

\* set_season_start_block and sync_boundaries.
Synced(v, b) ==
    [season_start |-> SeasonStart(b), window |-> WindowOf(SeasonStart(b), b)]

\* Mutant: a late round is started all the same.
StartRound_NeverLate(v, b) ==
    LET w == Synced(v, b).window
    IN  /\ pc[v] = "start"
        /\ b >= MinimumStartBlock
        /\ rm' = [rm EXCEPT ![v] = Synced(v, b)]
        /\ season' = [season EXCEPT ![v] = SeasonNumber(w.start)]
        /\ cached' = [cached EXCEPT ![v] = b]
        /\ id' = [id EXCEPT ![v] = NameOf(w.start)]
        /\ frozen' = [frozen EXCEPT ![v] = w]
        /\ tasks' = [tasks EXCEPT ![v] = SeasonNumber(w.start)]
        /\ Goto(v, "handshake")
        /\ UNCHANGED <<chain, slot, counted, ontime>>

\* _start_round.  A late validator waits for the round's end and returns from
\* forward(); otherwise it takes the season's tasks if they are not its own
\* yet, names the round and freezes its blocks.
StartRound(v, b) ==
    LET w == Synced(v, b).window
    IN  /\ pc[v] = "start"
        /\ b >= MinimumStartBlock
        /\ rm' = [rm EXCEPT ![v] = Synced(v, b)]
        /\ season' = [season EXCEPT ![v] = SeasonNumber(w.start)]
        /\ cached' = [cached EXCEPT ![v] = b]
        /\ IF TooLate(w, b)
           THEN /\ Goto(v, "boundary")
                /\ UNCHANGED <<id, frozen, tasks>>
           ELSE /\ tasks' = [tasks EXCEPT ![v] = SeasonNumber(w.start)]
                /\ id' = [id EXCEPT ![v] = NameOf(w.start)]
                /\ frozen' = [frozen EXCEPT ![v] = w]
                /\ Goto(v, "handshake")
        /\ UNCHANGED <<chain, slot, counted, ontime>>

\* The wait for rm.target_block after a late start; forward() returns.
Boundary(v) ==
    /\ pc[v] = "boundary"
    /\ chain >= rm[v].window.target
    /\ Goto(v, "start")
    /\ UNCHANGED <<chain, clock, slot, counted, ontime>>

\* _perform_handshake and the guard after it; then get_round_tasks, which
\* resolves the season from the round's first block.
Handshake(v, b) ==
    /\ pc[v] = "handshake"
    /\ cached' = [cached EXCEPT ![v] = b]
    /\ IF AlmostOver(rm[v].window, b)
       THEN Goto(v, "guard") /\ UNCHANGED tasks
       ELSE /\ tasks' = [tasks EXCEPT ![v] = SeasonNumber(rm[v].window.start)]
            /\ Goto(v, "evaluating")
    /\ UNCHANGED <<chain, rm, frozen, id, season, slot, counted, ontime>>

\* The guard's own wait for the end of the round.  It is the one wait inside a
\* try block: when it fails, the validator takes part after all.
Guard(v) ==
    /\ pc[v] = "guard"
    /\ \/ /\ chain >= rm[v].window.target
          /\ Goto(v, "start")
          /\ UNCHANGED tasks
       \/ /\ "ChainFails" \in Events
          /\ chain < rm[v].window.target
          /\ tasks' = [tasks EXCEPT ![v] = SeasonNumber(rm[v].window.start)]
          /\ Goto(v, "evaluating")
    /\ UNCHANGED <<chain, cached, rm, frozen, id, season, slot, counted, ontime>>

\* _run_evaluation_phase: it may end at any height, for its deadline is only
\* looked at between two agents.
Evaluate(v) ==
    /\ pc[v] = "evaluating"
    /\ Goto(v, "settling")
    /\ UNCHANGED <<chain, clock, slot, counted, ontime>>

\* The entry of _run_settlement_phase: nothing is published for a round that
\* is over, or when an agent of the first handshake was not evaluated.
Settle(v, b) ==
    /\ pc[v] = "settling"
    /\ cached' = [cached EXCEPT ![v] = b]
    /\ \/ b > frozen[v].target /\ Goto(v, "ending")
       \/ b <= frozen[v].target /\ "Unevaluated" \in Events /\ Goto(v, "ending")
       \/ b <= frozen[v].target /\ Goto(v, "publishing")
    /\ UNCHANGED <<chain, rm, frozen, id, season, tasks, slot, counted, ontime>>

\* publish_round_snapshot: the commitment overwrites the validator's last one.
Publish(v) ==
    /\ pc[v] = "publishing"
    /\ \/ /\ slot' = [slot EXCEPT ![v] = [round |-> id[v], during |-> NameOf(chain)]]
          /\ ontime' = IF chain < frozen[v].settlement THEN ontime \cup {v} ELSE ontime
       \/ "PublishFails" \in Events /\ UNCHANGED <<slot, ontime>>
    /\ Goto(v, "fetch")
    /\ UNCHANGED <<chain, clock, counted>>

\* Mutant: the fetch block is not waited for.
FetchReached_Immediately(v) ==
    /\ pc[v] = "fetch"
    /\ Goto(v, "aggregating")
    /\ UNCHANGED <<chain, clock, slot, counted, ontime>>

\* The wait for the consensus fetch block.
FetchReached(v) ==
    /\ pc[v] = "fetch"
    /\ chain >= frozen[v].settlement
    /\ Goto(v, "aggregating")
    /\ UNCHANGED <<chain, clock, slot, counted, ontime>>

\* Mutant: commitments are filtered by the round number alone.
Votes_AnySeason(v) ==
    {[by |-> w, during |-> slot[w].during] : w \in {u \in Validators : slot[u].round.r = id[v].r}}

\* The commitments that carry the round's season and number.
Votes(v) ==
    {[by |-> w, during |-> slot[w].during] : w \in {u \in Validators : slot[u].round = id[v]}}

\* aggregate_scores_from_commitments and the final weights, which are recorded
\* under season_manager.season_number and round_manager.round_number.
\* finish_round_flow ends by resetting the round id.
Aggregate(v, votes) ==
    /\ pc[v] = "aggregating"
    /\ votes \subseteq Votes(v)
    /\ votes # Votes(v) => "Unreadable" \in Events
    /\ counted' = [counted EXCEPT ![v] =
                     [round |-> id[v],
                      record |-> [s |-> season[v], r |-> rm[v].window.number],
                      votes |-> votes]]
    /\ id' = [id EXCEPT ![v] = NoRound]
    /\ Goto(v, "ending")
    /\ UNCHANGED <<chain, cached, rm, frozen, season, tasks, slot, ontime>>

\* Mutant: the wait looks at the boundaries of the height it has read, so the
\* end of the round is always ahead.
EndRound_MovingTarget(v) ==
    /\ pc[v] = "ending"
    /\ chain >= Synced(v, chain).window.target
    /\ frozen' = [frozen EXCEPT ![v] = NoWindow]
    /\ id' = [id EXCEPT ![v] = NoRound]
    /\ counted' = [counted EXCEPT ![v] = NoAggregation]
    /\ Goto(v, "start")
    /\ UNCHANGED <<chain, cached, rm, season, tasks, slot, ontime>>

\* The wait for the end of the round, which clears the frozen blocks and the
\* round id.
EndRound(v) ==
    /\ pc[v] = "ending"
    /\ chain >= frozen[v].target
    /\ frozen' = [frozen EXCEPT ![v] = NoWindow]
    /\ id' = [id EXCEPT ![v] = NoRound]
    /\ counted' = [counted EXCEPT ![v] = NoAggregation]
    /\ Goto(v, "start")
    /\ UNCHANGED <<chain, cached, rm, season, tasks, slot, ontime>>

\* sync(), by either thread, reads self.block.
Sync(v) ==
    /\ pc[v] # "exited"
    /\ cached[v] = Expired
    /\ cached' = [cached EXCEPT ![v] = chain]
    /\ UNCHANGED <<chain, pc, rm, frozen, id, season, tasks, slot, counted, ontime>>

\* The chain cannot be read, five times in a row in a wait, or a wait times out:
\* forward() raises, run() logs it and raises again, and its thread ends.
Fail(v) ==
    /\ "ChainFails" \in Events
    /\ pc[v] \notin {"stopped", "exited"}
    /\ Goto(v, "stopped")
    /\ UNCHANGED <<chain, clock, slot, counted, ontime>>

\* The process exits.
Crash(v) ==
    /\ "Crash" \in Events
    /\ pc[v] # "exited"
    /\ cached' = [cached EXCEPT ![v] = Expired]
    /\ rm' = [rm EXCEPT ![v] = NoManager]
    /\ frozen' = [frozen EXCEPT ![v] = NoWindow]
    /\ id' = [id EXCEPT ![v] = NoRound]
    /\ season' = [season EXCEPT ![v] = 0]
    /\ tasks' = [tasks EXCEPT ![v] = 0]
    /\ counted' = [counted EXCEPT ![v] = NoAggregation]
    /\ Goto(v, "exited")
    /\ UNCHANGED <<chain, slot, ontime>>

\* PM2 starts it again.
Restart(v) ==
    /\ pc[v] = "exited"
    /\ Goto(v, "start")
    /\ UNCHANGED <<chain, clock, slot, counted, ontime>>

\* What run() does when nothing goes wrong.
Step(v) ==
    \/ WaitForLaunch(v)
    \/ \E b \in Heights(v) : StartRound(v, b)
    \/ Boundary(v)
    \/ \E b \in Heights(v) : Handshake(v, b)
    \/ Guard(v)
    \/ Evaluate(v)
    \/ \E b \in Heights(v) : Settle(v, b)
    \/ Publish(v)
    \/ FetchReached(v)
    \/ \E votes \in SUBSET Votes(v) : Aggregate(v, votes)
    \/ EndRound(v)

Process(v) == Step(v) \/ Sync(v) \/ Fail(v) \/ Crash(v) \/ Restart(v)

\* The bound: nothing more happens on the chain.
ChainEnds == chain = LastBlock /\ UNCHANGED vars

Next ==
    \/ Tick
    \/ \E v \in Validators : Process(v)
    \/ ChainEnds

Spec == Init /\ [][Next]_vars

\* The chain goes on and every validator's event loop runs on: the waits poll
\* every 12 seconds, a task of the evaluation and every network call time out.
\* PM2 restarts a process that has exited.
Fairness ==
    WF_vars(Tick) /\ \A v \in Validators : WF_vars(Step(v)) /\ WF_vars(Restart(v))
FairSpec == Spec /\ Fairness

-----------------------------------------------------------------------------
(* Properties.                                                             *)

TypeOK ==
    /\ chain \in FirstBlock..LastBlock
    /\ cached \in [Validators -> {Expired} \cup FirstBlock..LastBlock]
    /\ pc \in [Validators -> Steps]
    /\ rm \in [Validators -> Manager]
    /\ frozen \in [Validators -> Window]
    /\ id \in [Validators -> RoundName]
    /\ season \in [Validators -> Nat]
    /\ tasks \in [Validators -> Nat]
    /\ slot \in [Validators -> Commitment]
    /\ counted \in [Validators -> Aggregation]
    /\ ontime \subseteq Validators

InRound(v) == pc[v] \in {"handshake", "guard", "evaluating", "settling",
                         "publishing", "fetch", "aggregating"}

\* From its start to its settlement a round has one name: the round id it is
\* published under, the season and the number its artifact is stored under,
\* the season its tasks belong to and the round the chain was in when it
\* started are computed from four different pieces of state and agree,
\* although the chain moves on meanwhile.
OneNamePerRound ==
    \A v \in Validators :
        InRound(v) =>
            /\ id[v] = [s |-> season[v], r |-> rm[v].window.number]
            /\ id[v] = NameOf(rm[v].window.start)
            /\ tasks[v] = id[v].s
            /\ frozen[v] = rm[v].window
            /\ id[v].r \in 1..RoundsPerSeason

\* A validator that has aggregated looked for, and records its result under,
\* the name of the round it works on, and never mixes rounds: every vote it
\* counted got on chain no earlier than that round.
VotesAreFromTheRound ==
    \A v \in Validators :
        counted[v] # NoAggregation =>
            /\ counted[v].round = NameOf(frozen[v].start)
            /\ counted[v].record = counted[v].round
            /\ \A vote \in counted[v].votes : ~Precedes(vote.during, counted[v].round)

\* No validator aggregates before the fetch block, and whoever put its
\* commitment on chain before that block is counted by every validator that
\* aggregates before the round ends: the one slot a validator has is not taken
\* for its next round too early.
EveryoneInTimeIsCounted ==
    [][\A v \in Validators :
         pc[v] = "aggregating" /\ pc'[v] = "ending" =>
             /\ chain >= frozen[v].settlement
             /\ chain < frozen[v].target =>
                  ontime \subseteq {vote.by : vote \in counted'[v].votes}]_vars

\* A process never starts a round twice, nor an older one, although it may
\* read a cached height from before the end of the round it has just finished.
StartsEachRoundOnce ==
    [][\A v \in Validators :
         pc[v] = "start" /\ pc'[v] = "handshake" /\ rm[v] # NoManager
         => rm'[v].window.start > rm[v].window.start]_vars

\* No wait hangs: whatever fails, forward() returns or raises, or its process
\* is restarted, once the chain has reached the end of the round it was called
\* in (unless that end is past the bound).
RoundsEnd ==
    \A v \in Validators :
        pc[v] # "start" ~>
            pc[v] \in {"start", "stopped"} \/ rm[v].window.target > LastBlock

\* A validator whose run() has failed is restarted and runs forward() again.
FailuresAreRestarted ==
    \A v \in Validators : pc[v] \in {"stopped", "exited"} ~> pc[v] = "start"
=============================================================================
