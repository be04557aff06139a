----------------------------- MODULE AgentPool ------------------------------
(***************************************************************************)
(* The agents a validator knows in a season: the handshake that collects   *)
(* their submissions (validator/round_start/mixin.py), the evaluation that *)
(* empties the queue (validator/evaluation/mixin.py), and the results kept *)
(* so that the same commit is not evaluated again (platform/mixin.py).     *)
(*                                                                         *)
(* A submission is a commit; its reward is drawn when it is run.  The      *)
(* order by stake decides who is seen first: any order is possible.        *)
(***************************************************************************)
EXTENDS Naturals, FiniteSets

CONSTANTS
    Miners,
    Commits,
    NoCommit,
    Rewards,        \* rewards a run may earn
    ColdkeyOf,      \* the owner of a miner
    RepoOf,         \* the repository of a commit
    MaxPerColdkey,  \* MAX_MINERS_PER_COLDKEY
    MaxPerRepo,     \* MAX_MINERS_PER_REPO
    Cooldowns,      \* EVALUATION_COOLDOWN_MIN_ROUNDS and _MAX_ROUNDS, as they may
                    \* be set; 0 and 0 when there is no cooldown
    LastRound,      \* rounds of a season
    Events          \* what may go wrong

AllEvents == {"late", "short", "nobody", "unresolved", "unregistered", "undeployable",
              "unsettled", "crash"}

ASSUME PoolAssumption ==
    /\ NoCommit \notin Commits
    /\ Rewards \subseteq Nat /\ 0 \in Rewards
    /\ DOMAIN ColdkeyOf = Miners
    /\ DOMAIN RepoOf = Commits
    /\ MaxPerColdkey \in Nat \ {0} /\ MaxPerRepo \in Nat \ {0}
    /\ Cooldowns \subseteq {w \in [min : Nat, max : Nat] : w.min <= w.max}
    /\ LastRound \in Nat \ {0}
    /\ Events \subseteq AllEvents

Coldkeys == {ColdkeyOf[u] : u \in Miners}
Repos == {RepoOf[c] : c \in Commits}

VARIABLES
    cooldown,       \* the setting of this validator
    round,          \* round of the season
    generated,      \* the season's tasks are those of this season
    pc,
    todo,           \* candidates whose answer has not been looked at
    quota,          \* coldkey_counts of this handshake
    owners,         \* _season_repo_owners
    known,          \* agents_dict: who has an entry,
    evaluated,      \*   which are evaluated,
    last,           \*   last_evaluated_round, 0 for None,
    putOff,         \*   pending_github_url
    queue,          \* agents_queue: the commit queued for a miner
    named,          \* the queued agents whose git_commit is known
    first,          \* agents_on_first_handshake
    active,         \* active_miner_uids
    reused,         \* miners_reused_this_round, with the commit reused
    eligible,       \* uids with a valid eligibility status
    runs,           \* current_agent_runs
    reward,         \* what the runs of this round earned
    zeroed,         \* runs with zero_reason round_window_exceeded
    kept,           \* _evaluated_commits_by_miner
    suspicion,      \* _pending_all_zero_round_policy
    guard,          \* _disable_reuse_until, 0 for None
    excluded,       \* history: rounds this validator was excluded for
    earned,         \* history: what a miner's registered runs earned in this
                    \* season, since the process began
    cut             \* history: a round was left after its handshake

agents == <<known, evaluated, last, putOff>>
results == <<kept, suspicion, guard, excluded, earned>>
answers == <<quota, active, reused, eligible>>
running == <<runs, reward, zeroed>>
clock == <<round, generated, cooldown>>
vars == <<clock, pc, cut, todo, queue, named, first, owners, agents, results, answers,
                   running>>

Steps == {"start", "candidates", "handshake", "guard", "evaluating", "settling"}

NoStats == [reward |-> 0, round |-> 0, ran |-> FALSE]
Nothing == [round |-> 0, of |-> {}]
NothingKept == [u \in Miners |-> [c \in Commits |-> NoStats]]
NobodyQueued == [u \in Miners |-> NoCommit]
NothingEarned == [u \in Miners |-> {}]

-----------------------------------------------------------------------------
(* The start of a round and the end of one.                                *)

Forget ==
    /\ known' = {} /\ evaluated' = {}
    /\ last' = [u \in Miners |-> 0] /\ putOff' = NobodyQueued
    /\ queue' = NobodyQueued /\ named' = {} /\ first' = {}
    /\ owners' = [r \in Repos |-> {}]
    /\ suspicion' = Nothing /\ guard' = 0

Init ==
    /\ round = 1 /\ generated = FALSE /\ pc = "start" /\ todo = {}
    /\ cut = FALSE /\ cooldown \in Cooldowns
    /\ known = {} /\ evaluated = {}
    /\ last = [u \in Miners |-> 0] /\ putOff = NobodyQueued
    /\ queue = NobodyQueued /\ named = {} /\ first = {}
    /\ owners = [r \in Repos |-> {}]
    /\ suspicion = Nothing /\ guard = 0 /\ excluded = {} /\ kept = NothingKept
    /\ earned = NothingEarned
    /\ quota = [k \in Coldkeys |-> 0]
    /\ active = {} /\ reused = NobodyQueued /\ eligible = {}
    /\ runs = {} /\ reward = [u \in Miners |-> 0] /\ zeroed = {}

\* Mutant: the results of the commits are not forgotten.
StartRound_KeepsResults ==
    /\ pc = "start"
    /\ IF generated
       THEN UNCHANGED <<queue, named, first, owners, agents, results>>
       ELSE Forget /\ UNCHANGED <<kept, excluded, earned>>
    /\ generated' = TRUE
    /\ pc' = "candidates"
    /\ UNCHANGED <<round, cooldown, cut, todo, answers,
                   running>>

\* A new season, and the first round of a process, begins with nothing known.
StartRound ==
    /\ pc = "start"
    /\ IF generated
       THEN UNCHANGED <<queue, named, first, owners, agents, results>>
       ELSE Forget /\ kept' = NothingKept /\ UNCHANGED <<excluded, earned>>
    /\ generated' = TRUE
    /\ pc' = "candidates"
    /\ UNCHANGED <<round, cooldown, cut, todo, answers,
                   running>>

\* A round leaves the state as it is; the round after the last one belongs
\* to a season whose tasks are not generated yet.
NextRound ==
    /\ pc' = "start"
    /\ round' = IF round < LastRound THEN round + 1 ELSE 1
    /\ generated' = (generated /\ round < LastRound)
    /\ earned' = IF round < LastRound THEN earned ELSE NothingEarned
    /\ UNCHANGED cooldown

ThisSeason(rounds) == IF round < LastRound THEN rounds ELSE {}

\* Started too late, or too little left of the round after the handshake.
SkipRound ==
    /\ \/ pc = "start" /\ "late" \in Events
       \/ pc = "guard" /\ "short" \in Events
    /\ cut' = (cut \/ pc = "guard")
    /\ NextRound
    /\ excluded' = ThisSeason(excluded)
    /\ UNCHANGED <<todo, queue, named, first, owners, agents, kept, suspicion, guard,
                   answers,
                   running>>

-----------------------------------------------------------------------------
(* The handshake.                                                          *)

AskMiners ==
    /\ pc = "candidates"
    /\ queue' = NobodyQueued /\ named' = {}
    /\ \/ /\ todo' \in (SUBSET Miners) \ {{}}
          /\ quota' = [k \in Coldkeys |-> 0]
          /\ active' = {} /\ reused' = NobodyQueued /\ eligible' = {}
          /\ pc' = "handshake"
       \/ /\ "nobody" \in Events
          /\ pc' = "guard"
          /\ UNCHANGED <<todo, answers>>
    /\ UNCHANGED <<clock, cut, first, owners, agents, results, running>>

\* A miner cools down for the rounds its score calls for, between the least
\* and the most after its last evaluation.
MayCool(u) == last[u] # 0 /\ round - last[u] < cooldown.max
MayRun(u) == last[u] = 0 \/ round - last[u] >= cooldown.min

Handled(u) ==
    /\ pc = "handshake"
    /\ u \in todo
    /\ todo' = todo \ {u}
    /\ UNCHANGED <<clock, pc, cut, results, running>>

\* No answer: a submission that was put off takes its turn all the same.
NoResponse(u) ==
    /\ Handled(u)
    /\ \/ MayCool(u) /\ UNCHANGED queue
       \/ MayRun(u) /\ queue' = [queue EXCEPT ![u] = putOff[u]]
    /\ UNCHANGED <<named, first, owners, agents, answers>>

\* Mutant: the agent is replaced by a new one.
Rejected_Anew(u, atFirst) ==
    /\ known' = known \cup {u}
    /\ evaluated' = evaluated \cup {u}
    /\ first' = IF atFirst /\ round = 1 THEN first \cup {u} ELSE first
    /\ last' = [last EXCEPT ![u] = 0]
    /\ UNCHANGED <<putOff, queue, named, active, reused, eligible>>

\* Mutant: the agent is left as not evaluated.
Rejected_Waiting(u, atFirst) ==
    /\ known' = known \cup {u}
    /\ first' = IF atFirst /\ round = 1 THEN first \cup {u} ELSE first
    /\ UNCHANGED <<evaluated, last, putOff, queue, named, active, reused, eligible>>

\* An agent whose submission is not accepted counts as evaluated, with score 0.
Rejected(u, atFirst) ==
    /\ known' = known \cup {u}
    /\ evaluated' = evaluated \cup {u}
    /\ first' = IF atFirst /\ round = 1 THEN first \cup {u} ELSE first
    /\ UNCHANGED <<last, putOff, queue, named, active, reused, eligible>>

\* Name or URL is missing.
MissingFields(u) ==
    /\ Handled(u)
    /\ Rejected(u, u \notin known)
    /\ UNCHANGED <<quota, owners>>

ColdkeyCapped(u) ==
    /\ Handled(u)
    /\ quota[ColdkeyOf[u]] >= MaxPerColdkey
    /\ Rejected(u, TRUE)
    /\ UNCHANGED <<quota, owners>>

\* Mutant: one more than the quota is let in.
Counted_OneMore(u) ==
    /\ Handled(u)
    /\ quota[ColdkeyOf[u]] <= MaxPerColdkey
    /\ quota' = [quota EXCEPT ![ColdkeyOf[u]] = @ + 1]

\* From here on the answer counts against the quota of its coldkey.
Counted(u) ==
    /\ Handled(u)
    /\ quota[ColdkeyOf[u]] < MaxPerColdkey
    /\ quota' = [quota EXCEPT ![ColdkeyOf[u]] = @ + 1]

InvalidUrl(u) ==
    /\ Counted(u)
    /\ Rejected(u, u \notin known)
    /\ UNCHANGED owners

RepoFull(u, c) ==
    /\ ColdkeyOf[u] \notin owners[RepoOf[c]]
    /\ Cardinality(owners[RepoOf[c]]) >= MaxPerRepo

RepoCapped(u) ==
    /\ Counted(u)
    /\ \E c \in Commits : RepoFull(u, c)
    /\ Rejected(u, TRUE)
    /\ UNCHANGED owners

Accepted(u, c) ==
    /\ Counted(u)
    /\ ~RepoFull(u, c)
    /\ owners' = [owners EXCEPT ![RepoOf[c]] = @ \cup {ColdkeyOf[u]}]
    /\ active' = active \cup {u}
    /\ eligible' = eligible \cup {u}

Reusable(u, c) == kept[u][c] # NoStats /\ round > guard

\* The commit behind the URL is known and was evaluated before.
Reuse(u) ==
    \E c \in Commits :
        /\ Accepted(u, c)
        /\ Reusable(u, c)
        /\ reused' = [reused EXCEPT ![u] = c]
        /\ known' = known \cup {u}
        /\ putOff' = [putOff EXCEPT ![u] = NoCommit]
        /\ UNCHANGED <<queue, named, first, evaluated, last>>

\* The commits that have to be evaluated: no result is found, or the URL could
\* not be resolved to a commit to look for.
MustRun(u, c, resolved) ==
    IF resolved THEN ~Reusable(u, c) ELSE "unresolved" \in Events

PutOff(u) ==
    \E c \in Commits, resolved \in BOOLEAN :
        /\ Accepted(u, c)
        /\ MustRun(u, c, resolved)
        /\ u \in known
        /\ MayCool(u)
        /\ putOff' = [putOff EXCEPT ![u] = c]
        /\ UNCHANGED <<queue, named, first, known, evaluated, last, reused>>

Enqueue(u) ==
    \E c \in Commits, resolved \in BOOLEAN :
        /\ Accepted(u, c)
        /\ MustRun(u, c, resolved)
        /\ u \in known => MayRun(u)
        /\ queue' = [queue EXCEPT ![u] = c]
        /\ named' = IF resolved THEN named \cup {u} ELSE named
        /\ known' = known \cup {u}
        /\ first' = IF u \notin known /\ round = 1 THEN first \cup {u} ELSE first
        /\ UNCHANGED <<evaluated, last, putOff, reused>>

EndHandshake ==
    /\ pc = "handshake" /\ todo = {}
    /\ quota' = [k \in Coldkeys |-> 0]
    /\ pc' = "guard"
    /\ UNCHANGED <<clock, cut, todo, queue, named, first, owners, agents, results,
                   active, reused, eligible, running>>

\* Agent runs are started for the active miners whose result is not reused,
\* unless the platform is not there or refuses.
Register ==
    LET wanted == {u \in active : reused[u] = NoCommit}
    IN  /\ pc = "guard"
        /\ runs' \in IF "unregistered" \in Events THEN SUBSET wanted ELSE {wanted}
        /\ pc' = "evaluating"
        /\ UNCHANGED <<clock, cut, todo, queue, named, first, owners, agents, results, answers,
                       reward, zeroed>>

-----------------------------------------------------------------------------
(* The evaluation.                                                         *)

Queued == {u \in Miners : queue[u] # NoCommit}

\* _finalize_agent, but for the eligibility: the agent of the queue takes the
\* place of the one that was known.
Finalized(done) ==
    /\ evaluated' = evaluated \cup done
    /\ known' = known \cup done
    /\ last' = [u \in Miners |-> IF u \in done THEN round ELSE last[u]]
    /\ putOff' = [u \in Miners |-> IF u \in done THEN NoCommit ELSE putOff[u]]

\* The first result of a commit stays.
Registered(u, stats) ==
    kept' = IF u \in runs /\ kept[u][queue[u]] = NoStats
            THEN [kept EXCEPT ![u][queue[u]] = stats] ELSE kept

\* The repository cannot be reached, or the agent cannot be built or started.
Fail(u) ==
    /\ pc = "evaluating" /\ u \in Queued
    /\ "undeployable" \in Events
    /\ Finalized({u})
    /\ IF u \in named
       THEN Registered(u, [reward |-> 0, round |-> round, ran |-> FALSE])
       ELSE UNCHANGED kept
    /\ queue' = [queue EXCEPT ![u] = NoCommit] /\ named' = named \ {u}
    /\ eligible' = eligible \ {u}
    /\ UNCHANGED <<clock, pc, cut, todo, first, owners, suspicion, guard, excluded, earned,
                   quota, active, reused, running>>

Run(u) ==
    /\ pc = "evaluating" /\ u \in Queued
    /\ \E r \in Rewards :
         /\ reward' = [reward EXCEPT ![u] = r]
         /\ earned' = IF u \in runs THEN [earned EXCEPT ![u] = @ \cup ({r} \ {0})]
                      ELSE earned
         /\ Registered(u, [reward |-> r, round |-> round, ran |-> TRUE])
    /\ Finalized({u})
    /\ queue' = [queue EXCEPT ![u] = NoCommit] /\ named' = named \ {u}
    /\ eligible' = eligible \cup {u}
    /\ UNCHANGED <<clock, pc, cut, todo, first, owners, suspicion, guard, excluded,
                   quota, active, reused, runs, zeroed>>

\* The round looks wrong when every miner that was run earned nothing: its
\* results wait for what the other validators say.
Suspicious ==
    LET fresh == {u \in active : reused[u] = NoCommit} \ (runs \cap zeroed')
    IN  /\ fresh # {}
        /\ \A u \in fresh \cap runs : reward[u] = 0

Mark ==
    suspicion' = IF Suspicious /\ runs \ zeroed' # {}
                 THEN [round |-> round, of |-> runs \ zeroed'] ELSE suspicion

\* The deadline of the round: everybody still queued gets zero, and the zero
\* is not kept for the commit.
Deadline ==
    /\ pc = "evaluating" /\ Queued # {}
    /\ zeroed' = zeroed \cup Queued
    /\ Finalized(Queued)
    /\ eligible' = eligible \cup Queued
    /\ Mark
    /\ queue' = NobodyQueued /\ named' = {}
    /\ pc' = "settling"
    /\ UNCHANGED <<clock, cut, todo, first, owners, kept, guard, excluded, earned,
                   quota, active, reused, runs, reward>>

AllEvaluated ==
    /\ pc = "evaluating" /\ Queued = {}
    /\ UNCHANGED zeroed
    /\ Mark
    /\ pc' = "settling"
    /\ UNCHANGED <<clock, cut, todo, queue, named, first, owners, agents, kept, guard,
                   excluded, earned, answers, runs, reward>>

-----------------------------------------------------------------------------
(* The settlement, as far as it concerns the agents.                       *)

\* What speaks for a miner: its kept results and its run of this round.
Results(u) ==
    {kept[u][c].reward : c \in Commits} \cup IF u \in runs THEN {reward[u]} ELSE {}

\* The best of them is published for it.
Best(u) == CHOOSE r \in Results(u) : \A q \in Results(u) : r >= q

\* What this validator publishes is nothing but zeros.
DeclaresZeros == active # {} /\ \A u \in active : Best(u) = 0

\* _reset_iwap_round_state.
Reset ==
    /\ eligible' = {} /\ runs' = {} /\ zeroed' = {}
    /\ reward' = [u \in Miners |-> 0]
    /\ UNCHANGED <<cut, todo, quota, active, reused, queue, named, first, owners, agents>>

\* The round ends without consensus: it is over, an agent of the first
\* handshake is not evaluated, or the commitments cannot be read.
EndUnsettled ==
    /\ pc = "settling"
    /\ "unsettled" \in Events \/ ~(first \subseteq evaluated)
    /\ NextRound
    /\ excluded' = ThisSeason(excluded)
    /\ Reset
    /\ UNCHANGED <<kept, suspicion, guard>>

\* Mutant: the results of the round are kept.
Purged_None == kept

\* The results of the suspicious round are forgotten.
Purged ==
    [u \in Miners |-> [c \in Commits |->
        IF u \in suspicion.of /\ kept[u][c].round = suspicion.round
        THEN NoStats ELSE kept[u][c]]]

\* Consensus leaves out a validator that declares zeros when others do not.
\* It then takes back the suspicious round and evaluates anew in the next.
Settle ==
    /\ pc = "settling"
    /\ first \subseteq evaluated
    /\ \E leftOut \in IF DeclaresZeros THEN BOOLEAN ELSE {FALSE} :
         IF leftOut /\ suspicion # Nothing
         THEN /\ kept' = Purged
              /\ guard' = suspicion.round + 1
              /\ excluded' = ThisSeason(excluded \cup {suspicion.round})
         ELSE /\ UNCHANGED <<kept, guard>>
              /\ excluded' = ThisSeason(excluded)
    /\ suspicion' = Nothing
    /\ NextRound
    /\ Reset

\* The process ends and is started again: only the results come back, from the
\* artifacts, and the next start of a round forgets them.
Crash ==
    /\ "crash" \in Events
    /\ Forget
    /\ generated' = FALSE
    /\ pc' = "start" /\ todo' = {}
    /\ quota' = [k \in Coldkeys |-> 0]
    /\ active' = {} /\ reused' = NobodyQueued /\ eligible' = {}
    /\ runs' = {} /\ reward' = [u \in Miners |-> 0] /\ zeroed' = {}
    /\ cut' = FALSE
    /\ earned' = NothingEarned
    /\ UNCHANGED <<round, cooldown, kept, excluded>>

Answer(u) ==
    \/ NoResponse(u) \/ MissingFields(u) \/ ColdkeyCapped(u) \/ InvalidUrl(u)
    \/ RepoCapped(u) \/ Reuse(u) \/ PutOff(u) \/ Enqueue(u)

Next ==
    \/ StartRound \/ SkipRound \/ AskMiners \/ EndHandshake \/ Register
    \/ Deadline \/ AllEvaluated \/ EndUnsettled \/ Settle \/ Crash
    \/ \E u \in Miners : Answer(u) \/ Fail(u) \/ Run(u)

Spec == Init /\ [][Next]_vars

-----------------------------------------------------------------------------
(* Properties.                                                             *)

PoolTypes ==
    /\ known \subseteq Miners
    /\ evaluated \subseteq known
    /\ last \in [Miners -> 0..LastRound]
    /\ putOff \in [Miners -> Commits \cup {NoCommit}]
    /\ \A u \in Miners \ known : last[u] = 0 /\ putOff[u] = NoCommit
    /\ queue \in [Miners -> Commits \cup {NoCommit}]
    /\ named \subseteq Miners
    /\ first \subseteq known

RoundTypes ==
    /\ round \in 1..LastRound
    /\ cooldown \in Cooldowns
    /\ generated \in BOOLEAN /\ cut \in BOOLEAN
    /\ pc \in Steps
    /\ todo \subseteq Miners
    /\ quota \in [Coldkeys -> 0..MaxPerColdkey]
    /\ owners \in [Repos -> SUBSET Coldkeys]
    /\ active \subseteq Miners
    /\ reused \in [Miners -> Commits \cup {NoCommit}]
    /\ eligible \subseteq Miners
    /\ runs \subseteq Miners
    /\ reward \in [Miners -> Rewards]
    /\ zeroed \subseteq Miners

Stats == [reward : Rewards, round : 0..LastRound, ran : BOOLEAN]

ResultTypes ==
    /\ kept \in [Miners -> [Commits -> Stats]]
    /\ suspicion \in {Nothing} \cup [round : 1..LastRound, of : SUBSET Miners]
    /\ guard \in 0..LastRound + 1
    /\ excluded \subseteq 1..LastRound
    /\ earned \in [Miners -> SUBSET Rewards]

TypeOK == PoolTypes /\ RoundTypes /\ ResultTypes

\* The weights are updated once all agents of the first handshake are
\* evaluated.  Whatever was refused, put off, cut off by the deadline or failed
\* in this round or an earlier one, the settlement is reached with no such
\* agent left, so that the gate never holds the weights back.  (A first round
\* that is cut after its handshake does leave agents behind.)
GateIsOpen == pc = "settling" /\ ~cut => first \subseteq evaluated

\* What the validator publishes for a miner at a settlement, other than a zero,
\* was earned by a run of its agent that was registered on the platform, on the
\* tasks of this very season.  Results are kept over rounds, reused, purged and,
\* after a restart, read back; none of them outlives the season ("New season =
\* new tasks", _start_round), and neither a failed deployment nor an agent cut
\* off by the deadline counts for more than zero.
CountsForItsRuns ==
    pc = "settling" => \A u \in Miners : Results(u) \subseteq earned[u] \cup {0}

\* Within a season no agent is evaluated again before its cooldown is over, and
\* none forgets when it was, whatever it has sent in between.
CooldownIsKept ==
    [][generated /\ generated' =>
        \A u \in Miners :
            last[u] > 0 /\ last'[u] # last[u] => last'[u] >= last[u] + cooldown.min]_vars

\* After a validator was left out for the zeros of a round, those zeros are
\* never used again, neither in the rounds after it nor when the suspension of
\* reuse is over.
ExcludedZerosAreGone ==
    \A u \in Miners : reused[u] # NoCommit /\ pc \in {"guard", "evaluating", "settling"}
        => kept[u][reused[u]].round \notin excluded

\* A result that is reused was measured in a run of the agent; a failed
\* deployment is tried again in the next round.
FailedIsTriedAgain ==
    \A u \in Miners : reused[u] # NoCommit /\ pc \in {"guard", "evaluating", "settling"}
        => kept[u][reused[u]].ran
=============================================================================
