-------------------------- MODULE SeasonLeadership --------------------------
(***************************************************************************)
(* The throne of one season, as one validator keeps it.                    *)
(*                                                                         *)
(* A round is settled in two stages.  Settle is _calculate_final_weights   *)
(* (validator/settlement/mixin.py): it decides who is paid from the season *)
(* best of every miner, and records its own idea of the leader.  Finish is *)
(* finish_round_flow (platform/utils/round_flow.py): it decides again, now *)
(* from the rewards of this round alone, and overwrites that record.  Only *)
(* what the two stages wrote to post_consensus.json survives a restart:    *)
(* Boot and LoadRound are _load_competition_state (neurons/validator.py),  *)
(* which replays the files one by one.                                     *)
(*                                                                         *)
(* Rewards are natural numbers (hundredths); the float arithmetic of the   *)
(* code, reward > leader * (1 + pct), is the comparison reward * 100 >     *)
(* leader * (100 + Pct).  BURN_UID is no member of Miners and burns only a *)
(* part of the weight (BURN_AMOUNT_PERCENTAGE < 1, the default).           *)
(***************************************************************************)
EXTENDS Integers, FiniteSets

CONSTANTS
    Miners,         \* uids, natural numbers: ties are broken by uid
    Rewards,        \* the consensus rewards a round may give
    Pct,            \* LAST_WINNER_BONUS_PCT, in percent
    FirstRound,     \* the first round of the season this validator sees
    LastRound,      \* bound: the last round modelled
    Events          \* what may happen in the season, a subset of EventKinds

EventKinds ==
    {"LeaderImproves", \* a reigning leader may outdo the reward it leads with
     "Absence",     \* a miner may be missing from a round
     "Ties",        \* two miners may earn the same reward in a round
     "ZeroRound",   \* every reward of a round may be zero
     "NoConsensus", \* no payload counted, or the aggregation raised
     "Offline",     \* the platform is offline: finish_round_flow returns early
     "Skip",        \* a round may never be settled by this validator
     "Crash",       \* the process may restart between two rounds
     "CrashMid",    \* ... and between settling a round and finishing it
     "Torn"}        \* a restart may leave one artifact half written

ASSUME MinersAssumption == Miners \subseteq Nat /\ Miners # {} /\ IsFiniteSet(Miners)
ASSUME RewardsAssumption == Rewards \subseteq Nat
ASSUME PctAssumption == Pct \in Nat
ASSUME RoundsAssumption ==
    FirstRound \in 1..99 /\ LastRound \in 1..99 /\ FirstRound <= LastRound
ASSUME EventsAssumption == Events \subseteq EventKinds

Rounds == FirstRound..LastRound

\* A miner the round says nothing about: no entry in the rewards dictionary.
NoReward == -1
NoMiner == -1

\* One round's rewards dictionary, and the snapshot of a leader.
RoundRewards == [Miners -> Rewards \cup {NoReward}]
NoRewards == [m \in Miners |-> NoReward]
Snapshot == [uid : Miners \cup {NoMiner}, reward : Nat]
NoSnapshot == [uid |-> NoMiner, reward |-> 0]
Snap(m, r) == [uid |-> m, reward |-> r]

\* What post_consensus.json of a round holds.
Artifact == [kind : {"none", "torn", "burn", "summary"}, rew : RoundRewards]
NoArtifact == [kind |-> "none", rew |-> NoRewards]

VARIABLES
    pc,         \* "idle", "settled" (paid, not finished), "loading"
    round,      \* the last round settled, finished or skipped
    best,       \* summary.best_by_miner, 0 when absent
    current,    \* summary.current_winner_uid / _reward
    snapshot,   \* summary.current_winner_snapshot
    leader,     \* rounds[r].post_consensus_json.summary.leader_after_round
    verdict,    \* the settlement in flight, its summary and its inputs
    disk,       \* post_consensus.json of every round
    todo,       \* rounds whose artifact is still to be loaded
    earned,     \* history variable: best consensus reward ever settled
    replayed,   \* history variable: the leader reported before a restart
    calm        \* history variable: every miner was in every round settled, no
                \* reigning leader outdid its bar, and there was no restart

memory == <<best, current, snapshot, leader>>
vars == <<pc, round, best, current, snapshot, leader, verdict, disk, todo,
          earned, replayed, calm>>

Verdict == [elig : SUBSET Miners,       \* eligible_uids
            rew : RoundRewards,         \* consensus_rewards
            burn : BOOLEAN,             \* paid to BURN_UID alone
            reigning : Snapshot,        \* reigning_uid / reigning_reward
            before : Snapshot,          \* leader_before_round
            candidate : Snapshot,       \* candidate_this_round
            winner : Snapshot]          \* winner, leader_after_round
NoVerdict == [elig |-> {}, rew |-> NoRewards, burn |-> TRUE,
              reigning |-> NoSnapshot, before |-> NoSnapshot,
              candidate |-> NoSnapshot, winner |-> NoSnapshot]

-----------------------------------------------------------------------------
(* The rules, shared by the two stages and by the replay.                  *)

Listed(rew) == {m \in Miners : rew[m] # NoReward}
Positive(rew) == {m \in Miners : rew[m] > 0}

\* reward > leader.reward * (1 + required_improvement_pct)
Beats(reward, bar) == reward * 100 > bar * (100 + Pct)

\* leader_after_round of a round's entry; absent for a burned, skipped or
\* unknown round.
LeaderAfter(n) == IF n \in Rounds THEN leader[n] ELSE NoSnapshot

\* The members of S whose value is largest.
Top(S, value) == {m \in S : \A n \in S : value[n] <= value[m]}

\* Mutant: the last reward replaces the best one.
Improved_KeepsLast(rew) ==
    [m \in Miners |-> IF rew[m] # NoReward THEN rew[m] ELSE best[m]]

\* best_by_miner after the consensus rewards of a round.
Improved(rew) == [m \in Miners |-> IF rew[m] > best[m] THEN rew[m] ELSE best[m]]

\* The throne a round starts from: the leader reported for the previous round
\* or, without a positive one, the winner last paid.
Reigning(n) ==
    IF LeaderAfter(n - 1).reward > 0 THEN LeaderAfter(n - 1)
    ELSE IF current.reward > 0 THEN current ELSE NoSnapshot

\* leader_before_round as the settlement writes it.
LeaderBefore(n) ==
    IF LeaderAfter(n - 1).reward > 0 THEN LeaderAfter(n - 1)
    ELSE IF Reigning(n).uid # NoMiner /\ snapshot.uid = Reigning(n).uid
         THEN snapshot ELSE Reigning(n)

\* The best eligible miner other than the reigning one, the lowest uid on ties.
Challengers(elig, b, reigning) ==
    IF reigning.uid = NoMiner THEN {}
    ELSE LET tops == Top(elig \ {reigning.uid}, b)
         IN  {m \in tops : \A n \in tops : m <= n}

Candidate(elig, b, reigning) ==
    IF Challengers(elig, b, reigning) = {} THEN NoSnapshot
    ELSE LET m == CHOOSE m \in Challengers(elig, b, reigning) : TRUE IN Snap(m, b[m])

\* Mutant: the first eligible miner with any reward will do.
Contenders_First(elig, b) == {m \in elig : b[m] > 0}

\* Any of the eligible miners with the greatest season best: the first in
\* dictionary order, which the model leaves open.
Contenders(elig, b) == Top({m \in elig : b[m] > 0}, b)

\* Mutant: any improvement dethrones.
Winners_NoBar(elig, b, reigning, challenger) ==
    IF Contenders(elig, b) = {} THEN {NoSnapshot}
    ELSE IF reigning.uid \notin elig
         THEN {Snap(m, b[m]) : m \in Contenders(elig, b)}
    ELSE IF challenger.uid # NoMiner /\ challenger.reward > reigning.reward
         THEN {challenger} ELSE {reigning}

\* The winner: the best eligible miner, unless the reigning one is eligible
\* and the challenger does not clear the bar.
Winners(elig, b, reigning, challenger) ==
    IF Contenders(elig, b) = {} THEN {NoSnapshot}
    ELSE IF reigning.uid \notin elig
         THEN {Snap(m, b[m]) : m \in Contenders(elig, b)}
    ELSE IF challenger.uid # NoMiner /\ Beats(challenger.reward, reigning.reward)
         THEN {challenger} ELSE {reigning}

\* A snapshot as the report shows it: with the miner's reward of this round
\* when the round has one.
Canonical(s, rew) ==
    IF s.uid \in Listed(rew) THEN Snap(s.uid, rew[s.uid]) ELSE s

\* The miners with the greatest positive reward of the round; score, time and
\* list position, which order equal rewards, are left open.
TopOfRound(rew, except) ==
    LET tops == Top(Positive(rew) \ {except}, rew)
    IN  IF tops = {} THEN {NoSnapshot} ELSE {Snap(m, rew[m]) : m \in tops}

\* Mutant: the leader's bar is refreshed with its reward of this round.
Normalized_MovingBar(rew) ==
    LET before == Canonical(verdict.before, rew)
        candidate == Canonical(verdict.candidate, rew)
    IN  IF before = NoSnapshot THEN {Canonical(verdict.winner, rew)}
        ELSE {IF Beats(c.reward, before.reward) THEN c ELSE before :
                c \in IF candidate # NoSnapshot THEN {candidate}
                      ELSE TopOfRound(rew, before.uid)}

\* leader_after_round once _normalize_post_consensus_leadership_summary has
\* run: the previous round's leader stands unless a candidate clears the bar
\* with its reward of this round.
Normalized(rew) ==
    LET previous == LeaderAfter(round - 1)
        before == IF previous # NoSnapshot THEN previous ELSE verdict.before
        candidate == Canonical(verdict.candidate, rew)
        after == Canonical(verdict.winner, rew)
    IN  IF before = NoSnapshot
        THEN IF candidate # NoSnapshot THEN {candidate}
             ELSE IF after # NoSnapshot THEN {after} ELSE TopOfRound(rew, NoMiner)
        ELSE {IF Beats(c.reward, before.reward) THEN c ELSE before :
                c \in IF candidate # NoSnapshot THEN {candidate}
                      ELSE TopOfRound(rew, before.uid)}

\* Mutant: the replay gives the throne to the best miner of each round.
Replayed_EachRound(rew) == TopOfRound(rew, NoMiner)

\* _resolve_loaded_round_leadership: the throne after one replayed round.
Replayed(rew) ==
    IF snapshot = NoSnapshot THEN TopOfRound(rew, NoMiner)
    ELSE {IF Beats(c.reward, snapshot.reward) THEN c ELSE snapshot :
            c \in TopOfRound(rew, snapshot.uid)}

\* sorted() on the names round_1 .. round_99: first digit, then the rest, a
\* name before any longer name it begins.
FirstDigit(n) == IF n < 10 THEN n ELSE n \div 10
SecondDigit(n) == IF n < 10 THEN -1 ELSE n % 10
NameBefore(n, k) ==
    \/ FirstDigit(n) < FirstDigit(k)
    \/ FirstDigit(n) = FirstDigit(k) /\ SecondDigit(n) < SecondDigit(k)

-----------------------------------------------------------------------------
Init ==
    /\ pc = "idle"
    /\ round = FirstRound - 1
    /\ best = [m \in Miners |-> 0]
    /\ current = NoSnapshot
    /\ snapshot = NoSnapshot
    /\ leader = [n \in Rounds |-> NoSnapshot]
    /\ verdict = NoVerdict
    /\ disk = [n \in Rounds |-> NoArtifact]
    /\ todo = {}
    /\ earned = [m \in Miners |-> 0]
    /\ replayed = NoSnapshot
    /\ calm = TRUE

\* What the payloads of a round may say.  Every rewarded miner is listed by a
\* counted payload, and every listed miner is eligible; without any reward the
\* eligible miners are those of the local handshake.
RoundInput(elig, rew) ==
    /\ Listed(rew) \subseteq elig
    /\ "NoConsensus" \notin Events => Listed(rew) # {}
    /\ Listed(rew) # {} /\ "ZeroRound" \notin Events => Positive(rew) # {}
    /\ Listed(rew) # {} /\ "Absence" \notin Events => Listed(rew) = Miners
    /\ "LeaderImproves" \notin Events =>
         \A m \in Miners : m = Reigning(round + 1).uid => rew[m] <= Reigning(round + 1).reward
    /\ "Ties" \notin Events =>
         \A m, n \in Positive(rew) : rew[m] = rew[n] => m = n

\* _calculate_final_weights, with the first _save_competition_state.  A round
\* without a positive reward burns: it records the winner but no summary.
Settle(elig, rew) ==
    LET n == round + 1
        b == Improved(rew)
        burn == Positive(rew) = {}
        reigning == Reigning(n)
        candidate == Candidate(elig, b, reigning)
    IN  /\ pc = "idle"
        /\ n \in Rounds
        /\ RoundInput(elig, rew)
        /\ \E winner \in Winners(elig, b, reigning, candidate) :
             /\ current' = winner
             /\ snapshot' = IF burn THEN snapshot ELSE winner
             /\ leader' = [leader EXCEPT ![n] = IF burn THEN NoSnapshot ELSE winner]
             /\ verdict' = [elig |-> elig, rew |-> rew, burn |-> burn,
                            reigning |-> reigning, before |-> LeaderBefore(n),
                            candidate |-> candidate, winner |-> winner]
        /\ disk' = IF burn THEN disk
                   ELSE [disk EXCEPT ![n] = [kind |-> "summary", rew |-> NoRewards]]
        /\ best' = b
        /\ round' = n
        /\ pc' = "settled"
        /\ earned' = [m \in Miners |-> IF rew[m] > earned[m] THEN rew[m] ELSE earned[m]]
        /\ calm' = (calm /\ Listed(rew) = Miners
                        /\ \A m \in Miners : m = reigning.uid => rew[m] <= reigning.reward)
        /\ UNCHANGED <<todo, replayed>>

\* The rewards the report is built from: those of the consensus or, when there
\* are none, those this validator published itself.
ReportedRewards ==
    IF Listed(verdict.rew) # {} THEN {verdict.rew} ELSE RoundRewards

\* finish_round_flow up to the second save: the summary is normalised and the
\* entry of the round replaced.
FinishRound(rew) ==
    /\ pc = "settled"
    /\ rew \in ReportedRewards
    /\ IF Listed(rew) = {}
       THEN UNCHANGED <<leader, disk>>
       ELSE /\ \E after \in (IF verdict.burn THEN {NoSnapshot} ELSE Normalized(rew)) :
                 leader' = [leader EXCEPT ![round] = after]
            /\ disk' = [disk EXCEPT ![round] =
                          [kind |-> IF verdict.burn THEN "burn" ELSE "summary",
                           rew |-> rew]]
    /\ pc' = "idle"
    /\ verdict' = NoVerdict
    /\ UNCHANGED <<round, best, current, snapshot, todo, earned, replayed, calm>>

\* finish_round_flow in offline mode, or when it raises before the second
\* save: what the settlement recorded stands.
FinishOffline ==
    /\ "Offline" \in Events
    /\ pc = "settled"
    /\ pc' = "idle"
    /\ verdict' = NoVerdict
    /\ UNCHANGED <<round, best, current, snapshot, leader, disk, todo, earned, replayed, calm>>

\* Mutant: the rounds run past the end of the season.
SkipRound_PastEnd ==
    /\ "Skip" \in Events
    /\ pc = "idle"
    /\ round' = round + 1
    /\ UNCHANGED <<pc, best, current, snapshot, leader, verdict, disk, todo, earned, replayed, calm>>

\* A round this validator does not settle: a late start, a late settlement, or
\* no weight update due.
SkipRound ==
    /\ "Skip" \in Events
    /\ pc = "idle"
    /\ round < LastRound
    /\ round' = round + 1
    /\ UNCHANGED <<pc, best, current, snapshot, leader, verdict, disk, todo, earned, replayed, calm>>

\* The process ends and starts again.  _save_competition_state rewrites every
\* artifact in place, on every sync too: one of them may be left torn.
Restart(torn) ==
    /\ \/ pc = "idle" /\ "Crash" \in Events
       \/ pc = "settled" /\ "CrashMid" \in Events
    /\ torn \subseteq {n \in Rounds : disk[n].kind # "none"}
    /\ torn # {} => "Torn" \in Events
    /\ disk' = [n \in Rounds |-> IF n \in torn THEN [kind |-> "torn", rew |-> NoRewards]
                                              ELSE disk[n]]
    /\ todo' = {n \in Rounds : disk[n].kind # "none"}
    /\ pc' = "loading"
    /\ best' = [m \in Miners |-> 0]
    /\ current' = NoSnapshot
    /\ snapshot' = NoSnapshot
    /\ leader' = [n \in Rounds |-> NoSnapshot]
    /\ verdict' = NoVerdict
    /\ replayed' = LeaderAfter(round)
    /\ calm' = FALSE
    /\ UNCHANGED <<round, earned>>

\* One artifact of _load_competition_state, in the order of the directory
\* names.  A torn one is skipped, one without a summary only counts towards
\* the season bests.
LoadRound(n) ==
    LET rew == disk[n].rew
    IN  /\ pc = "loading"
        /\ n \in todo
        /\ \A k \in todo \ {n} : NameBefore(n, k)
        /\ todo' = todo \ {n}
        /\ best' = Improved(rew)
        /\ IF disk[n].kind = "summary"
           THEN \E after \in Replayed(rew) :
                  /\ leader' = [leader EXCEPT ![n] = after]
                  /\ current' = after
                  /\ snapshot' = after
           ELSE UNCHANGED <<leader, current, snapshot>>
        /\ UNCHANGED <<pc, round, verdict, disk, earned, replayed, calm>>

\* All artifacts are loaded; the next round is awaited.
Loaded ==
    /\ pc = "loading"
    /\ todo = {}
    /\ pc' = "idle"
    /\ replayed' = NoSnapshot
    /\ UNCHANGED <<round, best, current, snapshot, leader, verdict, disk, todo, earned, calm>>

\* The last round of the bound is over.
SeasonOver == pc = "idle" /\ round = LastRound /\ UNCHANGED vars

Next ==
    \/ \E elig \in SUBSET Miners, rew \in RoundRewards : Settle(elig, rew)
    \/ \E rew \in RoundRewards : FinishRound(rew)
    \/ FinishOffline
    \/ SkipRound
    \/ \E torn \in {{}} \cup {{n} : n \in Rounds} : Restart(torn)
    \/ \E n \in Rounds : LoadRound(n)
    \/ Loaded
    \/ SeasonOver

Spec == Init /\ [][Next]_vars

-----------------------------------------------------------------------------
(* Properties.                                                             *)

TypeOK ==
    /\ pc \in {"idle", "settled", "loading"}
    /\ round \in (FirstRound - 1)..LastRound
    /\ best \in [Miners -> Nat]
    /\ current \in Snapshot
    /\ snapshot \in Snapshot
    /\ leader \in [Rounds -> Snapshot]
    /\ verdict \in Verdict
    /\ disk \in [Rounds -> Artifact]
    /\ todo \subseteq Rounds
    /\ earned \in [Miners -> Nat]
    /\ replayed \in Snapshot
    /\ calm \in BOOLEAN

\* Whatever fails, and after any restart, a crown the validator holds (the
\* winner it pays, the bar a challenger has to clear, the leader it reports)
\* was earned: the miner has that reward on record this season.  The crown, the
\* records and the report are rebuilt by different code on different paths.
Earned(s) == s.uid # NoMiner => s.reward <= best[s.uid]
CrownsAreEarned ==
    /\ Earned(current)
    /\ Earned(snapshot)
    /\ \A n \in Rounds : Earned(leader[n])

\* The winner a round is paid to takes part in that round, has a positive
\* season best, and no other eligible miner's season best clears the bar over
\* the reward it is crowned with, except that a reigning winner's own later
\* improvements do not count.
NoChallengerPassedOver ==
    pc = "settled" /\ ~verdict.burn =>
        /\ verdict.winner.uid \in verdict.elig
        /\ verdict.winner.reward > 0
        /\ \A m \in verdict.elig \ {verdict.reigning.uid, verdict.winner.uid} :
             ~Beats(best[m], verdict.winner.reward)

\* When every round is settled and finished and no leader outdoes its own
\* crown, the reported leader is never overtaken silently: after each round,
\* nobody else's season best clears the bar.  The settlement offers only its top
\* challenger by season best, absent miners excluded, and the report judges
\* that one challenger by its reward of the round.
LeaderHoldsTheBar ==
    pc = "idle" /\ LeaderAfter(round) # NoSnapshot =>
        \A m \in Miners \ {LeaderAfter(round).uid} :
            ~Beats(best[m], LeaderAfter(round).reward)

\* Replaying the artifacts after a restart gives back the leader that was
\* reported before it.
RestartKeepsTheThrone == pc = "loading" /\ todo = {} => snapshot = replayed

\* As long as everybody takes part, no leader outdoes its bar and nothing
\* restarts, the winner last paid is paid again until an eligible miner beats its
\* reward by more than LAST_WINNER_BONUS_PCT: over rounds that are skipped, burned
\* or never reported too, although the reigning miner is read from the report.
WinnerKeptUntilBeaten ==
    [][calm' /\ pc = "idle" /\ pc' = "settled" /\ current.uid \in verdict'.elig
         /\ current'.uid # current.uid
       => Beats(current'.reward, current.reward)]_vars

\* The reported history is the history of SeasonThrone: during a restart and
\* between the two stages of a settlement the throne is the one last reported.
ReportedThrone ==
    CASE pc = "idle" -> LeaderAfter(round)
      [] pc = "settled" -> LeaderAfter(round - 1)
      [] pc = "loading" -> replayed

Throne == INSTANCE SeasonThrone WITH
    throne <- ReportedThrone, record <- earned, open <- (pc = "settled")
ImplementsSeasonThrone == Throne!Spec
=============================================================================
