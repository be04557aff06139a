----------------------- MODULE SeasonLeadership_proofs -----------------------
(***************************************************************************)
(* Proofs about SeasonLeadership, for every set of miners, every set of    *)
(* rewards, every season and every set of events.                          *)
(***************************************************************************)
EXTENDS SeasonLeadership, FiniteSetTheorems, WellFoundedInduction, TLAPS

-----------------------------------------------------------------------------
(* The operators the rules are built from.                                 *)

\* A finite set that is not empty has a member of greatest value.  A smallest
\* counterexample would have one more member than a set that has one.
LEMMA TopExists ==
    ASSUME NEW S, IsFiniteSet(S), S # {}, NEW v, \A m \in S : v[m] \in Int
    PROVE  \E m \in S : \A n \in S : v[n] <= v[m]
PROOF
  <1> DEFINE HasTop(U) == \E m \in U : \A n \in U : v[n] <= v[m]
             Bad == {U \in FiniteSubsetsOf(S) : U # {} /\ ~HasTop(U)}
  <1>1. SUFFICES ASSUME Bad # {} PROVE FALSE
    <2>1. S \in FiniteSubsetsOf(S)
      BY DEF FiniteSubsetsOf
    <2>2. HasTop(S) => \E m \in S : \A n \in S : v[n] <= v[m]
      OBVIOUS
    <2> QED BY <2>1, <2>2
  <1>2. PICK U \in Bad : \A V \in Bad : <<V, U>> \notin StrictSubsetOrdering(S)
    <2>1. Bad \subseteq FiniteSubsetsOf(S)
      OBVIOUS
    <2> HIDE DEF Bad
    <2> QED BY <1>1, <2>1, WFMin, FS_StrictSubsetOrderingWellFounded
  <1>3. U \subseteq S /\ IsFiniteSet(U) /\ U # {} /\ ~HasTop(U)
    BY DEF FiniteSubsetsOf
  <1>4. PICK x \in U : TRUE
    BY <1>3
  <1> DEFINE V == U \ {x}
  <1>5. V # {}
    <2>1. SUFFICES ASSUME V = {} PROVE FALSE
      OBVIOUS
    <2>2. \A n \in U : n = x
      BY <2>1
    <2>3. v[x] <= v[x]
      BY <1>3, <1>4
    <2> QED BY <1>3, <1>4, <2>2, <2>3
  <1>6. V \in FiniteSubsetsOf(S)
    BY <1>3, FS_RemoveElement DEF FiniteSubsetsOf
  <1>7. <<V, U>> \in StrictSubsetOrdering(S)
    BY <1>3, <1>4, <1>6 DEF StrictSubsetOrdering, FiniteSubsetsOf
  <1>8. HasTop(V)
    BY <1>2, <1>5, <1>6, <1>7
  <1>9. PICK y \in V : \A n \in V : v[n] <= v[y]
    BY <1>8
  <1>10. v[x] \in Int /\ v[y] \in Int /\ \A n \in U : v[n] \in Int
    BY <1>3, <1>4
  <1>11. CASE v[x] <= v[y]
    <2>1. \A n \in U : v[n] <= v[y]
      BY <1>9, <1>11
    <2> QED BY <1>3, <2>1
  <1>12. CASE v[y] <= v[x]
    <2>1. \A n \in U : v[n] <= v[x]
      BY <1>9, <1>10, <1>12
    <2> QED BY <1>3, <2>1
  <1> QED BY <1>10, <1>11, <1>12

LEMMA RewardsAreIntegers ==
    ASSUME NEW rew \in RoundRewards, NEW m \in Miners
    PROVE  rew[m] \in Int /\ (rew[m] # NoReward => rew[m] \in Nat)
PROOF
  <1>1. rew[m] \in Rewards \cup {NoReward}
    BY DEF RoundRewards
  <1>2. NoReward \in Int
    BY DEF NoReward
  <1>3. CASE rew[m] \in Rewards
    <2>1. rew[m] \in Nat
      BY <1>3, RewardsAssumption DEF RewardsAssumption
    <2> QED BY <2>1
  <1>4. CASE rew[m] = NoReward
    BY <1>2, <1>4
  <1> QED BY <1>1, <1>3, <1>4

LEMMA ImprovedType ==
    ASSUME best \in [Miners -> Nat], NEW rew \in RoundRewards
    PROVE  /\ Improved(rew) \in [Miners -> Nat]
           /\ \A m \in Miners : best[m] <= Improved(rew)[m] /\ rew[m] <= Improved(rew)[m]
PROOF
  <1>1. \A m \in Miners : rew[m] \in Int /\ best[m] \in Nat
    BY RewardsAreIntegers
  <1> QED BY <1>1 DEF Improved

LEMMA NoSnapshotType == NoSnapshot \in Snapshot
BY DEF NoSnapshot, Snapshot, NoMiner

LEMMA LeaderAfterType ==
    ASSUME TypeOK, NEW n \in Int
    PROVE  LeaderAfter(n) \in Snapshot
BY NoSnapshotType DEF TypeOK, LeaderAfter

LEMMA ReigningType ==
    ASSUME TypeOK, NEW n \in Int
    PROVE  Reigning(n) \in Snapshot /\ LeaderBefore(n) \in Snapshot
BY NoSnapshotType, LeaderAfterType DEF TypeOK, Reigning, LeaderBefore

LEMMA CandidateType ==
    ASSUME NEW elig \in SUBSET Miners, NEW b \in [Miners -> Nat], NEW reigning
    PROVE  /\ Candidate(elig, b, reigning) \in Snapshot
           /\ \/ Candidate(elig, b, reigning) = NoSnapshot
              \/ \E m \in Challengers(elig, b, reigning) :
                   Candidate(elig, b, reigning) = Snap(m, b[m])
PROOF
  <1>1. CASE Challengers(elig, b, reigning) = {}
    BY <1>1, NoSnapshotType DEF Candidate
  <1>2. CASE Challengers(elig, b, reigning) # {}
    <2> DEFINE m == CHOOSE m \in Challengers(elig, b, reigning) : TRUE
    <2>1. m \in Challengers(elig, b, reigning)
      BY <1>2
    <2>2. m \in Miners
      BY <2>1 DEF Challengers, Top
    <2>3. Candidate(elig, b, reigning) = Snap(m, b[m])
      BY <1>2 DEF Candidate
    <2>4. Snap(m, b[m]) \in Snapshot
      BY <2>2 DEF Snap, Snapshot
    <2> QED BY <2>1, <2>3, <2>4
  <1> QED BY <1>1, <1>2

LEMMA WinnersType ==
    ASSUME NEW elig \in SUBSET Miners, NEW b \in [Miners -> Nat],
           NEW reigning \in Snapshot, NEW candidate \in Snapshot
    PROVE  Winners(elig, b, reigning, candidate) \subseteq Snapshot
BY NoSnapshotType DEF Winners, Contenders, Top, Snap, Snapshot

LEMMA TopOfRoundType ==
    ASSUME NEW rew \in RoundRewards, NEW except
    PROVE  /\ TopOfRound(rew, except) \subseteq Snapshot
           /\ \A s \in TopOfRound(rew, except) :
                s = NoSnapshot \/ (s.uid \in Miners /\ s.reward = rew[s.uid])
PROOF
  <1>1. \A m \in Positive(rew) : m \in Miners /\ rew[m] \in Nat
    BY RewardsAreIntegers DEF Positive
  <1>2. \A m \in Top(Positive(rew) \ {except}, rew) : m \in Miners /\ rew[m] \in Nat
    BY <1>1 DEF Top
  <1> QED BY <1>2, NoSnapshotType DEF TopOfRound, Snap, Snapshot

LEMMA CanonicalType ==
    ASSUME NEW rew \in RoundRewards, NEW s \in Snapshot
    PROVE  /\ Canonical(s, rew) \in Snapshot
           /\ Canonical(s, rew) = s
              \/ (Canonical(s, rew).uid \in Miners
                  /\ Canonical(s, rew).reward = rew[Canonical(s, rew).uid])
PROOF
  <1>1. ASSUME s.uid \in Listed(rew)
        PROVE  s.uid \in Miners /\ rew[s.uid] \in Nat
    BY <1>1, RewardsAssumption DEF Listed, RoundRewards, NoReward
  <1> QED BY <1>1 DEF Canonical, Snap, Snapshot

LEMMA NormalizedType ==
    ASSUME TypeOK, NEW rew \in RoundRewards
    PROVE  Normalized(rew) \subseteq Snapshot
PROOF
  <1>1. LeaderAfter(round - 1) \in Snapshot
    <2>1. round - 1 \in Int
      BY RoundsAssumption DEF TypeOK
    <2> QED BY <2>1, LeaderAfterType
  <1>2. verdict.before \in Snapshot /\ verdict.candidate \in Snapshot
          /\ verdict.winner \in Snapshot
    BY DEF TypeOK, Verdict
  <1>3. Canonical(verdict.candidate, rew) \in Snapshot
          /\ Canonical(verdict.winner, rew) \in Snapshot
    BY <1>2, CanonicalType
  <1>4. \A e : TopOfRound(rew, e) \subseteq Snapshot
    BY TopOfRoundType
  <1> QED BY <1>1, <1>2, <1>3, <1>4 DEF Normalized

LEMMA ReplayedType ==
    ASSUME TypeOK, NEW rew \in RoundRewards
    PROVE  Replayed(rew) \subseteq Snapshot
PROOF
  <1>1. \A e : TopOfRound(rew, e) \subseteq Snapshot
    BY TopOfRoundType
  <1> QED BY <1>1 DEF Replayed, TypeOK

-----------------------------------------------------------------------------
(* Type correctness.                                                       *)

LEMMA TypeInit == Init => TypeOK
PROOF
  <1> SUFFICES ASSUME Init PROVE TypeOK
    OBVIOUS
  <1>1. NoRewards \in RoundRewards
    BY DEF NoRewards, RoundRewards
  <1>2. NoVerdict \in Verdict
    BY <1>1, NoSnapshotType DEF NoVerdict, Verdict
  <1>3. NoArtifact \in Artifact
    BY <1>1 DEF NoArtifact, Artifact
  <1>4. FirstRound - 1 \in (FirstRound - 1)..LastRound
    BY RoundsAssumption
  <1> QED BY <1>2, <1>3, <1>4, NoSnapshotType DEF Init, TypeOK

LEMMA TypeNext == TypeOK /\ [Next]_vars => TypeOK'
PROOF
  <1> SUFFICES ASSUME TypeOK, [Next]_vars PROVE TypeOK'
    OBVIOUS
  <1>0. NoRewards \in RoundRewards /\ NoVerdict \in Verdict /\ NoArtifact \in Artifact
    BY NoSnapshotType
    DEF NoRewards, RoundRewards, NoVerdict, Verdict, NoArtifact, Artifact
  <1>1. ASSUME NEW elig \in SUBSET Miners, NEW rew \in RoundRewards, Settle(elig, rew)
        PROVE  TypeOK'
    <2> DEFINE n == round + 1
               b == Improved(rew)
               reigning == Reigning(n)
               candidate == Candidate(elig, b, reigning)
    <2>1. n \in Rounds /\ n \in (FirstRound - 1)..LastRound /\ n \in Int
      BY <1>1, RoundsAssumption DEF Settle, TypeOK, Rounds
    <2>2. b \in [Miners -> Nat]
      BY ImprovedType DEF TypeOK
    <2>3. reigning \in Snapshot /\ LeaderBefore(n) \in Snapshot
      BY <2>1, ReigningType
    <2>4. candidate \in Snapshot
      BY <2>2, CandidateType
    <2> HIDE DEF b, reigning, candidate
    <2>5. PICK winner \in Winners(elig, b, reigning, candidate) :
             /\ current' = winner
             /\ snapshot' = IF Positive(rew) = {} THEN snapshot ELSE winner
             /\ leader' = [leader EXCEPT ![n] = IF Positive(rew) = {} THEN NoSnapshot ELSE winner]
             /\ verdict' = [elig |-> elig, rew |-> rew, burn |-> Positive(rew) = {},
                            reigning |-> reigning, before |-> LeaderBefore(n),
                            candidate |-> candidate, winner |-> winner]
      BY <1>1 DEF Settle, b, reigning, candidate
    <2>6. winner \in Snapshot
      BY <2>2, <2>3, <2>4, WinnersType
    <2>7. current' \in Snapshot /\ snapshot' \in Snapshot /\ leader' \in [Rounds -> Snapshot]
      BY <2>5, <2>6, NoSnapshotType DEF TypeOK
    <2>8. verdict' \in Verdict
      BY <2>3, <2>4, <2>5, <2>6 DEF Verdict
    <2>9. disk' \in [Rounds -> Artifact]
      BY <1>0, <1>1, <2>1 DEF Settle, TypeOK, Artifact
    <2>10. best' \in [Miners -> Nat]
      BY <1>1, <2>2 DEF Settle, b
    <2>11. earned' \in [Miners -> Nat]
      <3>1. \A m \in Miners : rew[m] \in Int /\ earned[m] \in Nat
        BY RewardsAreIntegers DEF TypeOK
      <3>2. earned' = [m \in Miners |-> IF rew[m] > earned[m] THEN rew[m] ELSE earned[m]]
        BY <1>1 DEF Settle
      <3> QED BY <3>1, <3>2
    <2>12. pc' = "settled" /\ round' = n /\ todo' = todo /\ replayed' = replayed
      BY <1>1 DEF Settle
    <2>13. calm' \in BOOLEAN
      BY <1>1 DEF Settle
    <2> QED BY <2>1, <2>7, <2>8, <2>9, <2>10, <2>11, <2>12, <2>13 DEF TypeOK
  <1>2. ASSUME NEW rew \in RoundRewards, FinishRound(rew)
        PROVE  TypeOK'
    <2>1. leader' \in [Rounds -> Snapshot]
      BY <1>2, NormalizedType, NoSnapshotType DEF FinishRound, TypeOK
    <2>2. disk' \in [Rounds -> Artifact]
      BY <1>2 DEF FinishRound, TypeOK, Artifact
    <2> QED BY <1>0, <1>2, <2>1, <2>2 DEF FinishRound, TypeOK
  <1>3. CASE FinishOffline
    BY <1>0, <1>3 DEF FinishOffline, TypeOK
  <1>4. CASE SkipRound
    BY <1>4, RoundsAssumption DEF SkipRound, TypeOK
  <1>5. ASSUME NEW torn \in {{}} \cup {{n} : n \in Rounds}, Restart(torn)
        PROVE  TypeOK'
    <2>1. disk' \in [Rounds -> Artifact]
      <3>1. [kind |-> "torn", rew |-> NoRewards] \in Artifact
        BY <1>0 DEF Artifact
      <3> QED BY <1>5, <3>1 DEF Restart, TypeOK
    <2>2. replayed' \in Snapshot
      <3>1. round \in Int
        BY RoundsAssumption DEF TypeOK
      <3> QED BY <1>5, <3>1, LeaderAfterType DEF Restart
    <2> QED BY <1>0, <1>5, <2>1, <2>2, NoSnapshotType DEF Restart, TypeOK
  <1>6. ASSUME NEW n \in Rounds, LoadRound(n)
        PROVE  TypeOK'
    <2>1. disk[n].rew \in RoundRewards
      BY DEF TypeOK, Artifact
    <2>2. best' \in [Miners -> Nat]
      BY <1>6, <2>1, ImprovedType DEF LoadRound, TypeOK
    <2>3. leader' \in [Rounds -> Snapshot] /\ current' \in Snapshot /\ snapshot' \in Snapshot
      BY <1>6, <2>1, ReplayedType DEF LoadRound, TypeOK
    <2> QED BY <1>6, <2>2, <2>3 DEF LoadRound, TypeOK
  <1>7. CASE Loaded
    BY <1>7, NoSnapshotType DEF Loaded, TypeOK
  <1>8. CASE SeasonOver
    BY <1>8 DEF SeasonOver, TypeOK, vars
  <1>9. CASE UNCHANGED vars
    BY <1>9 DEF TypeOK, vars
  <1> QED BY <1>1, <1>2, <1>3, <1>4, <1>5, <1>6, <1>7, <1>8, <1>9 DEF Next

\* Every variable keeps its type, through restarts and torn artifacts.
THEOREM TypeCorrect == Spec => []TypeOK
PROOF
  <1> QED BY TypeInit, TypeNext, PTL DEF Spec

-----------------------------------------------------------------------------
(* Crowns are earned.  The bare invariant is not inductive: what Finish      *)
(* reports comes from the verdict in flight, whose snapshots and rewards     *)
(* must be covered by the season bests too.                                  *)

EarnedIn(s, b) == s.uid # NoMiner => s.reward <= b[s.uid]

CrownInv ==
    /\ TypeOK
    /\ CrownsAreEarned
    /\ pc = "settled" =>
         /\ Earned(verdict.before)
         /\ Earned(verdict.candidate)
         /\ Earned(verdict.winner)
         /\ \A m \in Miners : verdict.rew[m] <= best[m]
         /\ verdict.burn <=> Positive(verdict.rew) = {}

LEMMA EarnedMonotone ==
    ASSUME NEW b \in [Miners -> Nat], NEW c \in [Miners -> Nat],
           \A m \in Miners : b[m] <= c[m],
           NEW s \in Snapshot, EarnedIn(s, b)
    PROVE  EarnedIn(s, c)
BY DEF EarnedIn, Snapshot, NoMiner

LEMMA NoSnapshotEarned ==
    ASSUME NEW b
    PROVE  EarnedIn(NoSnapshot, b)
BY DEF EarnedIn, NoSnapshot

LEMMA SnapEarned ==
    ASSUME NEW b \in [Miners -> Nat], NEW m \in Miners
    PROVE  EarnedIn(Snap(m, b[m]), b)
BY DEF EarnedIn, Snap

LEMMA ReigningEarned ==
    ASSUME CrownInv, NEW n \in Int
    PROVE  EarnedIn(Reigning(n), best) /\ EarnedIn(LeaderBefore(n), best)
PROOF
  <1>1. EarnedIn(LeaderAfter(n - 1), best) /\ EarnedIn(current, best) /\ EarnedIn(snapshot, best)
    BY NoSnapshotEarned DEF CrownInv, CrownsAreEarned, Earned, EarnedIn, LeaderAfter
  <1> QED BY <1>1, NoSnapshotEarned DEF Reigning, LeaderBefore

LEMMA WinnersEarned ==
    ASSUME NEW elig \in SUBSET Miners, NEW b \in [Miners -> Nat],
           NEW reigning \in Snapshot, EarnedIn(reigning, b),
           NEW winner \in Winners(elig, b, reigning, Candidate(elig, b, reigning))
    PROVE  EarnedIn(winner, b) /\ EarnedIn(Candidate(elig, b, reigning), b)
PROOF
  <1>1. EarnedIn(Candidate(elig, b, reigning), b)
    <2>1. \A m \in Challengers(elig, b, reigning) : m \in Miners
      BY DEF Challengers, Top
    <2> QED BY <2>1, CandidateType, NoSnapshotEarned, SnapEarned
  <1>2. \A m \in Contenders(elig, b) : EarnedIn(Snap(m, b[m]), b)
    BY SnapEarned DEF Contenders, Top
  <1> QED BY <1>1, <1>2, NoSnapshotEarned DEF Winners

LEMMA NormalizedEarned ==
    ASSUME CrownInv, pc = "settled", NEW after \in Normalized(verdict.rew)
    PROVE  EarnedIn(after, best)
PROOF
  <1>1. /\ verdict.rew \in RoundRewards
        /\ verdict.before \in Snapshot
        /\ verdict.candidate \in Snapshot
        /\ verdict.winner \in Snapshot
        /\ round - 1 \in Int
    BY RoundsAssumption DEF RoundsAssumption, CrownInv, TypeOK, Verdict
  <1>2. /\ EarnedIn(verdict.before, best)
        /\ EarnedIn(verdict.candidate, best)
        /\ EarnedIn(verdict.winner, best)
        /\ EarnedIn(LeaderAfter(round - 1), best)
    BY NoSnapshotEarned
    DEF CrownInv, CrownsAreEarned, Earned, EarnedIn, LeaderAfter
  <1>3. \A m \in Miners : verdict.rew[m] <= best[m]
    BY DEF CrownInv
  <1>4. \A s \in Snapshot : EarnedIn(s, best) => EarnedIn(Canonical(s, verdict.rew), best)
    BY <1>1, <1>3, CanonicalType DEF EarnedIn
  <1>5. \A e : \A s \in TopOfRound(verdict.rew, e) : EarnedIn(s, best)
    BY <1>1, <1>3, TopOfRoundType, NoSnapshotEarned DEF EarnedIn
  <1>6. EarnedIn(Canonical(verdict.candidate, verdict.rew), best)
          /\ EarnedIn(Canonical(verdict.winner, verdict.rew), best)
    BY <1>1, <1>2, <1>4
  <1> QED BY <1>2, <1>5, <1>6 DEF Normalized

LEMMA ReplayedEarned ==
    ASSUME CrownInv, NEW rew \in RoundRewards, NEW after \in Replayed(rew)
    PROVE  EarnedIn(after, Improved(rew))
PROOF
  <1>1. best \in [Miners -> Nat] /\ snapshot \in Snapshot /\ EarnedIn(snapshot, best)
    BY DEF CrownInv, TypeOK, CrownsAreEarned, Earned, EarnedIn
  <1>2. /\ Improved(rew) \in [Miners -> Nat]
        /\ \A m \in Miners : best[m] <= Improved(rew)[m] /\ rew[m] <= Improved(rew)[m]
    BY <1>1, ImprovedType
  <1>3. EarnedIn(snapshot, Improved(rew))
    BY <1>1, <1>2, EarnedMonotone
  <1>4. \A e : \A s \in TopOfRound(rew, e) : EarnedIn(s, Improved(rew))
    BY <1>2, TopOfRoundType, NoSnapshotEarned DEF EarnedIn
  <1> QED BY <1>3, <1>4 DEF Replayed

LEMMA CrownInit == Init => CrownInv
BY TypeInit, NoSnapshotEarned DEF Init, CrownInv, CrownsAreEarned, Earned, EarnedIn

LEMMA CrownNext == CrownInv /\ [Next]_vars => CrownInv'
PROOF
  <1> SUFFICES ASSUME CrownInv, [Next]_vars PROVE CrownInv'
    OBVIOUS
  <1>0. TypeOK /\ TypeOK'
    BY TypeNext DEF CrownInv
  <1>a. /\ EarnedIn(current, best) /\ EarnedIn(snapshot, best)
        /\ \A n \in Rounds : EarnedIn(leader[n], best)
    BY DEF CrownInv, CrownsAreEarned, Earned, EarnedIn
  <1>1. ASSUME NEW elig \in SUBSET Miners, NEW rew \in RoundRewards, Settle(elig, rew)
        PROVE  CrownInv'
    <2> DEFINE n == round + 1
               b == Improved(rew)
               reigning == Reigning(n)
               candidate == Candidate(elig, b, reigning)
    <2>1. n \in Rounds /\ n \in Int
      BY <1>1, RoundsAssumption DEF Settle, TypeOK, Rounds, RoundsAssumption
    <2>2. /\ b \in [Miners -> Nat]
          /\ \A m \in Miners : best[m] <= b[m] /\ rew[m] <= b[m]
      BY <1>0, ImprovedType DEF TypeOK
    <2>3. reigning \in Snapshot /\ LeaderBefore(n) \in Snapshot
      BY <1>0, <2>1, ReigningType
    <2>4. EarnedIn(reigning, b) /\ EarnedIn(LeaderBefore(n), b)
      BY <1>0, <2>1, <2>2, <2>3, ReigningEarned, EarnedMonotone DEF TypeOK
    <2> HIDE DEF b, reigning
    <2>5. PICK winner \in Winners(elig, b, reigning, candidate) :
             /\ current' = winner
             /\ snapshot' = IF Positive(rew) = {} THEN snapshot ELSE winner
             /\ leader' = [leader EXCEPT ![n] = IF Positive(rew) = {} THEN NoSnapshot ELSE winner]
             /\ verdict' = [elig |-> elig, rew |-> rew, burn |-> Positive(rew) = {},
                            reigning |-> reigning, before |-> LeaderBefore(n),
                            candidate |-> candidate, winner |-> winner]
      BY <1>1 DEF Settle, b, reigning
    <2>6. EarnedIn(winner, b) /\ EarnedIn(candidate, b)
      BY <2>2, <2>3, <2>4, WinnersEarned
    <2> HIDE DEF candidate
    <2>7. best' = b
      BY <1>1 DEF Settle, b
    <2>8. EarnedIn(current, b) /\ EarnedIn(snapshot, b) /\ \A k \in Rounds : EarnedIn(leader[k], b)
      BY <1>0, <1>a, <2>2, EarnedMonotone DEF TypeOK
    <2>9. CrownsAreEarned'
      <3>1. EarnedIn(current', b) /\ EarnedIn(snapshot', b)
        BY <2>5, <2>6, <2>8
      <3>2. \A k \in Rounds : EarnedIn(leader'[k], b)
        BY <1>0, <2>5, <2>6, <2>8, NoSnapshotEarned DEF TypeOK
      <3> QED BY <2>7, <3>1, <3>2 DEF CrownsAreEarned, Earned, EarnedIn
    <2>10. /\ Earned(verdict.before)'
           /\ Earned(verdict.candidate)'
           /\ Earned(verdict.winner)'
           /\ \A m \in Miners : verdict'.rew[m] <= best'[m]
           /\ verdict'.burn <=> Positive(verdict'.rew) = {}
      BY <2>2, <2>4, <2>5, <2>6, <2>7 DEF Earned, EarnedIn
    <2> QED BY <1>0, <2>9, <2>10 DEF CrownInv
  <1>2. ASSUME NEW rew \in RoundRewards, FinishRound(rew)
        PROVE  CrownInv'
    <2>1. pc' = "idle" /\ UNCHANGED <<best, current, snapshot>>
      BY <1>2 DEF FinishRound
    <2>2. \A n \in Rounds : EarnedIn(leader'[n], best)
      <3>1. CASE Listed(rew) = {}
        BY <1>2, <1>a, <3>1 DEF FinishRound
      <3>2. CASE verdict.burn
        BY <1>0, <1>2, <1>a, <3>2, NoSnapshotEarned DEF FinishRound, TypeOK
      <3>3. CASE Listed(rew) # {} /\ ~verdict.burn
        <4>1. PICK after \in Normalized(rew) : leader' = [leader EXCEPT ![round] = after]
          BY <1>2, <3>3 DEF FinishRound
        <4>2. rew = verdict.rew
          <5>1. Positive(verdict.rew) # {} => Listed(verdict.rew) # {}
            BY DEF Positive, Listed, NoReward
          <5>2. pc = "settled" /\ rew \in ReportedRewards
            BY <1>2 DEF FinishRound
          <5> QED BY <3>3, <5>1, <5>2 DEF CrownInv, ReportedRewards
        <4>3. EarnedIn(after, best)
          BY <1>2, <4>1, <4>2, NormalizedEarned DEF FinishRound
        <4> QED BY <1>0, <1>a, <4>1, <4>3 DEF TypeOK
      <3> QED BY <3>1, <3>2, <3>3
    <2> QED BY <1>0, <1>a, <2>1, <2>2 DEF CrownInv, CrownsAreEarned, Earned, EarnedIn
  <1>3. CASE FinishOffline
    BY <1>0, <1>3 DEF FinishOffline, CrownInv, CrownsAreEarned, Earned
  <1>4. CASE SkipRound
    BY <1>0, <1>4 DEF SkipRound, CrownInv, CrownsAreEarned, Earned
  <1>5. ASSUME NEW torn \in {{}} \cup {{n} : n \in Rounds}, Restart(torn)
        PROVE  CrownInv'
    BY <1>0, <1>5, NoSnapshotEarned DEF Restart, CrownInv, CrownsAreEarned, Earned, EarnedIn
  <1>6. ASSUME NEW n \in Rounds, LoadRound(n)
        PROVE  CrownInv'
    <2> DEFINE rew == disk[n].rew
    <2>1. rew \in RoundRewards
      BY <1>0 DEF TypeOK, Artifact
    <2>2. best' = Improved(rew) /\ pc' = "loading"
      BY <1>6 DEF LoadRound
    <2>3. /\ Improved(rew) \in [Miners -> Nat]
          /\ \A m \in Miners : best[m] <= Improved(rew)[m]
      BY <1>0, <2>1, ImprovedType DEF TypeOK
    <2>4. /\ EarnedIn(current, Improved(rew)) /\ EarnedIn(snapshot, Improved(rew))
          /\ \A k \in Rounds : EarnedIn(leader[k], Improved(rew))
      BY <1>0, <1>a, <2>3, EarnedMonotone DEF TypeOK
    <2>5. \A after \in Replayed(rew) : EarnedIn(after, Improved(rew))
      BY <2>1, ReplayedEarned
    <2>6. /\ EarnedIn(current', Improved(rew)) /\ EarnedIn(snapshot', Improved(rew))
          /\ \A k \in Rounds : EarnedIn(leader'[k], Improved(rew))
      BY <1>0, <1>6, <2>4, <2>5 DEF LoadRound, TypeOK
    <2> QED BY <1>0, <2>2, <2>6 DEF CrownInv, CrownsAreEarned, Earned, EarnedIn
  <1>7. CASE Loaded
    BY <1>0, <1>7 DEF Loaded, CrownInv, CrownsAreEarned, Earned
  <1>8. CASE SeasonOver
    BY <1>0, <1>8 DEF SeasonOver, vars, CrownInv, CrownsAreEarned, Earned
  <1>9. CASE UNCHANGED vars
    BY <1>0, <1>9 DEF vars, CrownInv, CrownsAreEarned, Earned
  <1> QED BY <1>1, <1>2, <1>3, <1>4, <1>5, <1>6, <1>7, <1>8, <1>9 DEF Next

\* Whatever fails and however often the validator restarts, every crown it
\* pays, defends or reports was earned by its miner.
THEOREM CrownsEarned == Spec => []CrownsAreEarned
PROOF
  <1>1. CrownInv => CrownsAreEarned
    BY DEF CrownInv
  <1> QED BY CrownInit, CrownNext, <1>1, PTL DEF Spec

-----------------------------------------------------------------------------
(* No challenger is passed over by the settlement.                         *)

LEMMA BeatsMonotone ==
    ASSUME NEW x \in Nat, NEW y \in Nat, NEW bar \in Nat, x <= y, Beats(x, bar)
    PROVE  Beats(y, bar)
PROOF
  <1>1. bar * (100 + Pct) \in Nat
    BY PctAssumption DEF PctAssumption
  <1> QED BY <1>1 DEF Beats

LEMMA BeatsNeedsMore ==
    ASSUME NEW x \in Nat, NEW bar \in Nat, Beats(x, bar)
    PROVE  x > bar
PROOF
  <1>1. Pct \in Nat
    BY PctAssumption DEF PctAssumption
  <1>2. bar * Pct \in Nat
    BY <1>1
  <1>3. bar * (100 + Pct) = bar * 100 + bar * Pct
    BY <1>1
  <1> QED BY <1>2, <1>3 DEF Beats

LEMMA TopOfMiners ==
    ASSUME NEW S \in SUBSET Miners, S # {}, NEW v \in [Miners -> Int]
    PROVE  Top(S, v) # {}
PROOF
  <1>1. IsFiniteSet(S)
    BY FS_Subset, MinersAssumption DEF MinersAssumption
  <1>2. \A m \in S : v[m] \in Int
    OBVIOUS
  <1> QED BY <1>1, <1>2, TopExists DEF Top

LEMMA ContendersExist ==
    ASSUME NEW elig \in SUBSET Miners, NEW b \in [Miners -> Nat],
           NEW m \in elig, b[m] > 0
    PROVE  Contenders(elig, b) # {}
PROOF
  <1>1. b \in [Miners -> Int]
    OBVIOUS
  <1>2. {n \in elig : b[n] > 0} # {} /\ {n \in elig : b[n] > 0} \in SUBSET Miners
    OBVIOUS
  <1> QED BY <1>1, <1>2, TopOfMiners DEF Contenders

LEMMA CandidateIsBest ==
    ASSUME NEW elig \in SUBSET Miners, NEW b \in [Miners -> Nat],
           NEW reigning \in Snapshot, reigning.uid # NoMiner,
           NEW m \in elig, m # reigning.uid
    PROVE  LET c == Candidate(elig, b, reigning)
           IN  /\ c.uid \in elig \ {reigning.uid}
               /\ c.reward = b[c.uid]
               /\ b[m] <= c.reward
PROOF
  <1> DEFINE S == elig \ {reigning.uid}
             tops == Top(S, b)
             lower == [n \in Miners |-> -n]
  <1>1. tops # {} /\ tops \subseteq S
    <2>1. S \in SUBSET Miners /\ S # {} /\ b \in [Miners -> Int]
      OBVIOUS
    <2>2. Top(S, b) # {}
      BY <2>1, TopOfMiners
    <2> QED BY <2>2 DEF Top
  <1>2. \A n \in Miners : n \in Int
    BY MinersAssumption DEF MinersAssumption
  <1>3. PICK low \in tops : \A n \in tops : low <= n
    <2>1. lower \in [Miners -> Int] /\ tops \in SUBSET Miners
      BY <1>1, <1>2
    <2>2. Top(tops, lower) # {}
      BY <1>1, <2>1, TopOfMiners
    <2>3. PICK low \in tops : \A n \in tops : lower[n] <= lower[low]
      BY <2>2 DEF Top
    <2>4. \A n \in tops : n \in Miners /\ lower[n] = -n /\ n \in Int
      BY <1>1, <1>2
    <2> HIDE DEF lower, tops
    <2>5. \A n \in tops : low <= n
      BY <2>3, <2>4
    <2> QED BY <2>5
  <1>4. low \in Challengers(elig, b, reigning)
    BY <1>3 DEF Challengers
  <1>5. PICK w \in Challengers(elig, b, reigning) :
          Candidate(elig, b, reigning) = Snap(w, b[w])
    <2>1. Candidate(elig, b, reigning) =
            LET n == CHOOSE n \in Challengers(elig, b, reigning) : TRUE IN Snap(n, b[n])
      BY <1>4 DEF Candidate
    <2> QED BY <1>4, <2>1
  <1>6. w \in S /\ \A n \in S : b[n] <= b[w]
    BY <1>5 DEF Challengers, Top
  <1>7. /\ Candidate(elig, b, reigning).uid = w
        /\ Candidate(elig, b, reigning).reward = b[w]
    BY <1>5 DEF Snap
  <1> QED BY <1>6, <1>7

LEMMA PayoutNext == TypeOK /\ NoChallengerPassedOver /\ [Next]_vars => NoChallengerPassedOver'
PROOF
  <1> SUFFICES ASSUME TypeOK, NoChallengerPassedOver, [Next]_vars
               PROVE  NoChallengerPassedOver'
    OBVIOUS
  <1>1. ASSUME NEW elig \in SUBSET Miners, NEW rew \in RoundRewards, Settle(elig, rew)
        PROVE  NoChallengerPassedOver'
    <2> DEFINE n == round + 1
               b == Improved(rew)
               reigning == Reigning(n)
               candidate == Candidate(elig, b, reigning)
    <2>1. n \in Int
      BY RoundsAssumption DEF TypeOK, RoundsAssumption
    <2>2. /\ b \in [Miners -> Nat]
          /\ \A m \in Miners : rew[m] <= b[m]
      BY ImprovedType DEF TypeOK
    <2>3. reigning \in Snapshot
      BY <2>1, ReigningType
    <2>4. reigning.uid \in elig => reigning.reward > 0
      BY MinersAssumption DEF Reigning, NoSnapshot, NoMiner, MinersAssumption
    <2> HIDE DEF b, reigning
    <2>5. PICK winner \in Winners(elig, b, reigning, candidate) :
             verdict' = [elig |-> elig, rew |-> rew, burn |-> Positive(rew) = {},
                         reigning |-> reigning, before |-> LeaderBefore(n),
                         candidate |-> candidate, winner |-> winner]
      BY <1>1 DEF Settle, b, reigning
    <2>6. best' = b
      BY <1>1 DEF Settle, b
    <2>7. SUFFICES ASSUME Positive(rew) # {}
                   PROVE  /\ winner.uid \in elig
                          /\ winner.reward > 0
                          /\ \A m \in elig \ {reigning.uid, winner.uid} :
                               ~Beats(b[m], winner.reward)
      BY <2>5, <2>6 DEF NoChallengerPassedOver, Beats
    <2>8. Contenders(elig, b) # {}
      <3>1. PICK m \in Positive(rew) : TRUE
        BY <2>7
      <3>2. m \in Miners /\ rew[m] > 0 /\ rew[m] \in Int
        BY <3>1, RewardsAreIntegers DEF Positive
      <3>3. m \in elig
        BY <1>1, <3>2 DEF Settle, RoundInput, Listed, NoReward
      <3>4. b[m] > 0
        BY <2>2, <3>2
      <3> QED BY <2>2, <3>3, <3>4, ContendersExist
    <2>9. CASE reigning.uid \notin elig
      <3>1. PICK w \in Contenders(elig, b) : winner = Snap(w, b[w])
        BY <2>5, <2>8, <2>9 DEF Winners
      <3>2. w \in elig /\ b[w] > 0 /\ \A m \in elig : b[m] > 0 => b[m] <= b[w]
        BY <3>1 DEF Contenders, Top
      <3>3. ASSUME NEW m \in elig, Beats(b[m], b[w])
            PROVE  FALSE
        <4>1. b[m] > b[w] /\ b[m] \in Nat /\ b[w] \in Nat
          BY <2>2, <3>2, <3>3, BeatsNeedsMore
        <4> QED BY <3>2, <4>1
      <3> QED BY <3>1, <3>2, <3>3 DEF Snap
    <2>10. CASE reigning.uid \in elig
      <3>1. reigning.uid # NoMiner /\ reigning.reward \in Nat
        BY <2>3, <2>10, MinersAssumption DEF Snapshot, NoMiner, MinersAssumption
      <3>2. \A m \in elig \ {reigning.uid} :
              /\ candidate.uid \in elig \ {reigning.uid}
              /\ candidate.reward = b[candidate.uid]
              /\ b[m] <= candidate.reward
        BY <2>2, <2>3, <3>1, CandidateIsBest
      <3>3. candidate \in Snapshot
        BY <2>2, CandidateType
      <3> HIDE DEF candidate
      <3>4. CASE candidate.uid # NoMiner /\ Beats(candidate.reward, reigning.reward)
        <4>1. winner = candidate
          BY <2>5, <2>8, <2>10, <3>4 DEF Winners
        <4>2. candidate.reward \in Nat /\ candidate.reward > 0
          BY <3>1, <3>3, <3>4, BeatsNeedsMore DEF Snapshot
        <4>3. candidate.uid \in elig
          <5>1. candidate # NoSnapshot
            BY <3>4 DEF NoSnapshot
          <5>2. PICK w \in Challengers(elig, b, reigning) : candidate = Snap(w, b[w])
            BY <2>2, <5>1, CandidateType DEF candidate
          <5> QED BY <5>2 DEF Challengers, Top, Snap
        <4>4. ASSUME NEW m \in elig \ {reigning.uid}, Beats(b[m], candidate.reward)
              PROVE  FALSE
          <5>1. b[m] \in Nat
            BY <2>2
          <5>2. b[m] > candidate.reward
            BY <4>2, <4>4, <5>1, BeatsNeedsMore
          <5> QED BY <3>2, <4>2, <4>4, <5>1, <5>2
        <4> QED BY <4>1, <4>2, <4>3, <4>4
      <3>5. CASE ~(candidate.uid # NoMiner /\ Beats(candidate.reward, reigning.reward))
        <4>1. winner = reigning
          BY <2>5, <2>8, <2>10, <3>5 DEF Winners
        <4>2. ASSUME NEW m \in elig \ {reigning.uid}, Beats(b[m], reigning.reward)
              PROVE  FALSE
          <5>1. candidate.uid # NoMiner /\ candidate.reward \in Nat /\ b[m] <= candidate.reward
            BY <3>2, <3>3, <4>2, MinersAssumption
            DEF Snapshot, NoMiner, MinersAssumption
          <5>2. b[m] \in Nat
            BY <2>2
          <5>3. Beats(candidate.reward, reigning.reward)
            BY <3>1, <4>2, <5>1, <5>2, BeatsMonotone
          <5> QED BY <3>5, <5>1, <5>3
        <4> QED BY <2>4, <2>10, <4>1, <4>2
      <3> QED BY <3>4, <3>5
    <2> QED BY <2>9, <2>10
  <1>2. ASSUME NEW rew \in RoundRewards, FinishRound(rew)
        PROVE  NoChallengerPassedOver'
    BY <1>2 DEF FinishRound, NoChallengerPassedOver
  <1>3. CASE FinishOffline
    BY <1>3 DEF FinishOffline, NoChallengerPassedOver
  <1>4. CASE SkipRound
    BY <1>4 DEF SkipRound, NoChallengerPassedOver
  <1>5. ASSUME NEW torn \in {{}} \cup {{n} : n \in Rounds}, Restart(torn)
        PROVE  NoChallengerPassedOver'
    BY <1>5 DEF Restart, NoChallengerPassedOver
  <1>6. ASSUME NEW n \in Rounds, LoadRound(n)
        PROVE  NoChallengerPassedOver'
    BY <1>6 DEF LoadRound, NoChallengerPassedOver
  <1>7. CASE Loaded
    BY <1>7 DEF Loaded, NoChallengerPassedOver
  <1>8. CASE SeasonOver
    BY <1>8 DEF SeasonOver, vars, NoChallengerPassedOver, Beats
  <1>9. CASE UNCHANGED vars
    BY <1>9 DEF vars, NoChallengerPassedOver, Beats
  <1> QED BY <1>1, <1>2, <1>3, <1>4, <1>5, <1>6, <1>7, <1>8, <1>9 DEF Next

\* In every circumstance the winner paid is eligible, has a positive season
\* best, and no other eligible rival clears the bar over its crown.
THEOREM PayoutSound == Spec => []NoChallengerPassedOver
PROOF
  <1>1. Init => NoChallengerPassedOver
    BY DEF Init, NoChallengerPassedOver
  <1> QED BY <1>1, TypeInit, TypeNext, PayoutNext, PTL DEF Spec

-----------------------------------------------------------------------------
(* The reported throne in a season without faults but restarts.  A round is  *)
(* decided three times: by the settlement, by the report and, after a        *)
(* restart, by the replay.  The lemmas say of each decision, once and for    *)
(* all rewards, that it Passes: nobody clears the bar and the leader stays,  *)
(* or the best of those who clear it, all of this very round, takes over.    *)

\* No fault but absent miners and restarts between rounds, and rounds whose
\* artifacts the directory lists in the order they were played.
Quiet ==
    /\ Events \subseteq {"Absence", "Crash"}
    /\ LastRound <= 9 \/ FirstRound >= 10

\* The entry of round n in a history h of thrones.
At(h, n) == IF n \in Rounds THEN h[n] ELSE NoSnapshot

\* What the replay makes of a throne s and the rewards of one round.
Crowned(s, rew) ==
    IF s = NoSnapshot THEN TopOfRound(rew, NoMiner)
    ELSE {IF Beats(c.reward, s.reward) THEN c ELSE s : c \in TopOfRound(rew, s.uid)}

\* The throne s passes to after in a round with rewards rew that leaves the
\* season bests b.
Passes(s, b, rew, after) ==
    \/ /\ s # NoSnapshot
       /\ after = s
       /\ \A m \in Miners \ {s.uid} : ~Beats(b[m], s.reward)
    \/ \E w \in Miners \ {s.uid} :
         /\ after = Snap(w, b[w])
         /\ b[w] = rew[w]
         /\ Beats(b[w], s.reward)
         /\ \A m \in Miners \ {s.uid} : Beats(b[m], s.reward) => b[m] <= b[w]

LEMMA NamesInOrder ==
    ASSUME Quiet, NEW n \in Rounds, NEW k \in Rounds, n < k
    PROVE  NameBefore(n, k) /\ ~NameBefore(k, n)
PROOF
  <1>1. n \in 1..99 /\ k \in 1..99
    BY RoundsAssumption DEF RoundsAssumption, Rounds
  <1>2. CASE LastRound <= 9
    BY <1>1, <1>2, RoundsAssumption
    DEF RoundsAssumption, Rounds, NameBefore, FirstDigit, SecondDigit
  <1>3. CASE FirstRound >= 10
    <2>1. n >= 10 /\ k >= 10
      BY <1>3, RoundsAssumption DEF RoundsAssumption, Rounds
    <2>2. n = 10 * (n \div 10) + (n % 10) /\ k = 10 * (k \div 10) + (k % 10)
      BY <1>1
    <2>3. n % 10 \in 0..9 /\ k % 10 \in 0..9 /\ n \div 10 \in Int /\ k \div 10 \in Int
      BY <1>1
    <2> QED BY <1>1, <2>1, <2>2, <2>3 DEF NameBefore, FirstDigit, SecondDigit
  <1> QED BY <1>2, <1>3 DEF Quiet

LEMMA BeatsVacant ==
    ASSUME NEW x \in Int
    PROVE  Beats(x, 0) <=> x > 0
PROOF
  <1>1. 0 * (100 + Pct) = 0
    BY PctAssumption DEF PctAssumption
  <1> QED BY <1>1 DEF Beats

LEMMA NothingBeats ==
    ASSUME NEW x \in Int, NEW bar \in Nat, x <= bar
    PROVE  ~Beats(x, bar)
PROOF
  <1>1. Pct \in Nat
    BY PctAssumption DEF PctAssumption
  <1>2. bar * Pct \in Nat
    BY <1>1
  <1>3. bar * (100 + Pct) = bar * 100 + bar * Pct
    BY <1>1
  <1> QED BY <1>2, <1>3 DEF Beats

\* The settlement's rule for a throne that is taken, on an eligible leader.
Dethroned(cand, s) ==
    IF cand.uid # NoMiner /\ Beats(cand.reward, s.reward) THEN cand ELSE s

\* Settlement and report agree on an eligible leader, although one judges the
\* challenger by its season best and the other by its reward of the round.
LEMMA StagesAgree ==
    ASSUME NEW s \in Snapshot, s # NoSnapshot, s.uid \in Miners,
           NEW elig \in SUBSET Miners, NEW rew \in RoundRewards, Listed(rew) \subseteq elig,
           NEW b \in [Miners -> Nat], \A m \in Miners : rew[m] <= b[m],
           \A m \in Miners \ {s.uid} : Beats(b[m], s.reward) => b[m] = rew[m],
           NEW c \in (IF Canonical(Candidate(elig, b, s), rew) # NoSnapshot
                      THEN {Canonical(Candidate(elig, b, s), rew)}
                      ELSE TopOfRound(rew, s.uid))
    PROVE  (IF Beats(c.reward, s.reward) THEN c ELSE s) = Dethroned(Candidate(elig, b, s), s)
PROOF
  <1> DEFINE cand == Candidate(elig, b, s)
  <1>1. s.uid # NoMiner /\ s.reward \in Nat /\ NoMiner \notin Miners
    BY MinersAssumption DEF MinersAssumption, NoMiner, Snapshot
  <1>2. \A m \in Miners : b[m] \in Nat /\ rew[m] \in Int /\ (rew[m] # NoReward => m \in elig)
    BY RewardsAreIntegers DEF Listed
  <1>3. CASE elig \subseteq {s.uid}
    <2>1. cand = NoSnapshot
      BY <1>3 DEF Candidate, Challengers, Top
    <2>2. Canonical(cand, rew) = NoSnapshot
      BY <1>1, <2>1 DEF Canonical, Listed, NoSnapshot
    <2>3. Positive(rew) \ {s.uid} = {}
      BY <1>2, <1>3 DEF Positive, NoReward
    <2>4. c = NoSnapshot
      BY <2>2, <2>3 DEF TopOfRound, Top
    <2>5. ~Beats(c.reward, s.reward)
      BY <1>1, <2>4, NothingBeats DEF NoSnapshot
    <2> QED BY <2>1, <2>5 DEF Dethroned, NoSnapshot
  <1>4. CASE ~(elig \subseteq {s.uid})
    <2> DEFINE w == cand.uid
    <2>1. w \in elig \ {s.uid} /\ cand.reward = b[w]
      BY <1>1, <1>4, CandidateIsBest
    <2>2. cand = Snap(w, b[w])
      <3>1. cand \in Snapshot
        BY CandidateType
      <3> HIDE DEF cand
      <3> QED BY <2>1, <3>1 DEF Snap, Snapshot
    <2>3. w \in Miners /\ w # NoMiner /\ w # s.uid
            /\ b[w] \in Nat /\ rew[w] \in Int /\ rew[w] <= b[w]
      BY <1>1, <1>2, <2>1
    <2>4. c = Snap(w, IF w \in Listed(rew) THEN rew[w] ELSE b[w])
      <3> HIDE DEF cand
      <3>1. Canonical(cand, rew) = Snap(w, IF w \in Listed(rew) THEN rew[w] ELSE b[w])
        BY <2>2 DEF Canonical, Snap
      <3>2. Canonical(cand, rew) # NoSnapshot
        BY <2>3, <3>1 DEF Snap, NoSnapshot
      <3> QED BY <3>1, <3>2 DEF cand
    <2> HIDE DEF cand, w
    <2>5. c.reward = IF w \in Listed(rew) THEN rew[w] ELSE b[w]
      BY <2>4 DEF Snap
    <2>6. Dethroned(cand, s) = IF Beats(b[w], s.reward) THEN cand ELSE s
      BY <2>2, <2>3 DEF Dethroned, Snap
    <2>7. CASE Beats(b[w], s.reward)
      <3>1. b[w] = rew[w]
        BY <2>3, <2>7
      <3> QED BY <2>2, <2>4, <2>5, <2>6, <2>7, <3>1 DEF cand
    <2>8. CASE ~Beats(b[w], s.reward)
      <3>1. ~Beats(c.reward, s.reward)
        <4>1. w \in Listed(rew) => rew[w] \in Nat
          BY <2>3, RewardsAreIntegers DEF Listed
        <4> QED BY <1>1, <2>3, <2>5, <2>8, <4>1, BeatsMonotone
      <3> QED BY <2>6, <2>8, <3>1 DEF cand
    <2> QED BY <2>7, <2>8
  <1> QED BY <1>3, <1>4

\* ... and what they agree on passes the throne.
LEMMA DethronedPasses ==
    ASSUME NEW s \in Snapshot, s # NoSnapshot, s.uid \in Miners,
           NEW elig \in SUBSET Miners, NEW rew \in RoundRewards, Listed(rew) \subseteq elig,
           NEW b \in [Miners -> Nat],
           \A m \in Miners \ {s.uid} : Beats(b[m], s.reward) => b[m] = rew[m]
    PROVE  Passes(s, b, rew, Dethroned(Candidate(elig, b, s), s))
PROOF
  <1> DEFINE cand == Candidate(elig, b, s)
  <1>1. s.uid # NoMiner /\ s.reward \in Nat /\ NoMiner \notin Miners
    BY MinersAssumption DEF MinersAssumption, NoMiner, Snapshot
  <1>2. \A m \in Miners : b[m] \in Nat /\ rew[m] \in Int /\ (rew[m] # NoReward => m \in elig)
    BY RewardsAreIntegers DEF Listed
  <1>3. \A m \in Miners \ {s.uid} : Beats(b[m], s.reward) => m \in elig
    BY <1>2 DEF NoReward
  <1>4. CASE elig \subseteq {s.uid}
    <2>1. cand = NoSnapshot
      BY <1>4 DEF Candidate, Challengers, Top
    <2>2. Dethroned(cand, s) = s
      BY <2>1 DEF Dethroned, NoSnapshot
    <2> QED BY <1>3, <1>4, <2>2 DEF Passes
  <1>5. CASE ~(elig \subseteq {s.uid})
    <2> DEFINE w == cand.uid
    <2>1. /\ w \in elig \ {s.uid}
          /\ cand.reward = b[w]
          /\ \A m \in elig \ {s.uid} : b[m] <= b[w]
      BY <1>1, <1>5, CandidateIsBest
    <2>2. cand = Snap(w, b[w])
      <3>1. cand \in Snapshot
        BY CandidateType
      <3> HIDE DEF cand
      <3> QED BY <2>1, <3>1 DEF Snap, Snapshot
    <2>3. w \in Miners /\ w # NoMiner /\ w # s.uid /\ b[w] \in Nat
      BY <1>1, <1>2, <2>1
    <2> HIDE DEF cand, w
    <2>4. Dethroned(cand, s) = IF Beats(b[w], s.reward) THEN cand ELSE s
      BY <2>2, <2>3 DEF Dethroned, Snap
    <2>5. CASE Beats(b[w], s.reward)
      <3>1. b[w] = rew[w]
        BY <2>3, <2>5
      <3>2. \A m \in Miners \ {s.uid} : Beats(b[m], s.reward) => b[m] <= b[w]
        BY <1>3, <2>1
      <3> QED BY <2>2, <2>3, <2>4, <2>5, <3>1, <3>2 DEF Passes, cand
    <2>6. CASE ~Beats(b[w], s.reward)
      <3>1. SUFFICES ASSUME NEW m \in Miners \ {s.uid}, Beats(b[m], s.reward)
                     PROVE  FALSE
        BY <2>4, <2>6 DEF Passes, cand
      <3>2. b[m] <= b[w] /\ b[m] \in Nat
        BY <1>2, <1>3, <2>1, <3>1
      <3> QED BY <1>1, <2>3, <2>6, <3>1, <3>2, BeatsMonotone
    <2> QED BY <2>5, <2>6
  <1> QED BY <1>4, <1>5

\* A vacant throne passes to the winner of the settlement, which the report
\* shows unchanged.
LEMMA FirstPasses ==
    ASSUME NEW elig \in SUBSET Miners, NEW rew \in RoundRewards,
           Listed(rew) \subseteq elig, Positive(rew) # {},
           NEW b \in [Miners -> Nat], \A m \in Miners : rew[m] <= b[m],
           \A m \in Miners : b[m] > 0 => b[m] = rew[m],
           NEW w \in Contenders(elig, b)
    PROVE  /\ Canonical(Snap(w, b[w]), rew) = Snap(w, b[w])
           /\ Snap(w, b[w]) # NoSnapshot
           /\ Passes(NoSnapshot, b, rew, Snap(w, b[w]))
PROOF
  <1>1. \A m \in Miners : b[m] \in Nat /\ rew[m] \in Int /\ (rew[m] # NoReward => m \in elig)
    BY RewardsAreIntegers DEF Listed
  <1>2. /\ w \in elig /\ w \in Miners /\ b[w] > 0
        /\ \A m \in elig : b[m] > 0 => b[m] <= b[w]
    BY DEF Contenders, Top
  <1>3. NoMiner \notin Miners
    BY MinersAssumption DEF MinersAssumption, NoMiner
  <1>4. b[w] = rew[w] /\ w \in Listed(rew)
    BY <1>1, <1>2 DEF Listed, NoReward
  <1>5. Canonical(Snap(w, b[w]), rew) = Snap(w, b[w])
    BY <1>4 DEF Canonical, Snap
  <1>6. Snap(w, b[w]) # NoSnapshot
    BY <1>2, <1>3 DEF Snap, NoSnapshot
  <1>7. NoSnapshot.uid = NoMiner /\ NoSnapshot.reward = 0
    BY DEF NoSnapshot
  <1>8. \A m \in Miners : Beats(b[m], 0) => b[m] <= b[w]
    <2>1. SUFFICES ASSUME NEW m \in Miners, Beats(b[m], 0) PROVE b[m] <= b[w]
      OBVIOUS
    <2>2. b[m] > 0
      BY <1>1, <2>1, BeatsVacant
    <2>3. m \in elig
      BY <1>1, <2>2 DEF NoReward
    <2> QED BY <1>2, <2>2, <2>3
  <1>9. Beats(b[w], 0)
    BY <1>1, <1>2, BeatsVacant
  <1> QED BY <1>2, <1>3, <1>4, <1>5, <1>6, <1>7, <1>8, <1>9 DEF Passes

\* Types of what a verdict leaves, and that it is no vacancy.
LEMMA PassesType ==
    ASSUME NEW s \in Snapshot, NEW b \in [Miners -> Nat], NEW rew, NEW after,
           Passes(s, b, rew, after)
    PROVE  after \in Snapshot /\ after # NoSnapshot
PROOF
  <1>1. NoMiner \notin Miners
    BY MinersAssumption DEF MinersAssumption, NoMiner
  <1> QED BY <1>1 DEF Passes, Snap, Snapshot, NoSnapshot

\* The replay repeats the decision from the rewards of the round alone.
LEMMA PassesReplayed ==
    ASSUME NEW s \in Snapshot, NEW rew \in RoundRewards,
           NEW b \in [Miners -> Nat], \A m \in Miners : rew[m] <= b[m],
           \A m, n \in Positive(rew) : rew[m] = rew[n] => m = n,
           NEW after, Passes(s, b, rew, after)
    PROVE  Crowned(s, rew) = {after}
PROOF
  <1> DEFINE rivals == Positive(rew) \ {s.uid}
             tops == Top(rivals, rew)
  <1>1. s.reward \in Nat /\ NoMiner \notin Miners
    BY MinersAssumption DEF MinersAssumption, NoMiner, Snapshot
  <1>2. \A m \in Miners : b[m] \in Nat /\ rew[m] \in Int /\ rew[m] <= b[m]
    BY RewardsAreIntegers
  <1>3. \A m \in rivals : m \in Miners /\ m # s.uid /\ rew[m] \in Nat
    BY <1>2 DEF Positive
  <1>4. CASE s # NoSnapshot /\ after = s /\ \A m \in Miners \ {s.uid} : ~Beats(b[m], s.reward)
    <2>1. ASSUME NEW c \in TopOfRound(rew, s.uid)
          PROVE  ~Beats(c.reward, s.reward)
      <3>1. CASE c = NoSnapshot
        BY <1>1, <3>1, NothingBeats DEF NoSnapshot
      <3>2. CASE \E m \in tops : c = Snap(m, rew[m])
        <4>1. PICK m \in rivals : c = Snap(m, rew[m])
          BY <3>2 DEF Top
        <4>2. c.reward = rew[m] /\ rew[m] \in Nat /\ b[m] \in Nat /\ rew[m] <= b[m]
                /\ ~Beats(b[m], s.reward)
          BY <1>2, <1>3, <1>4, <4>1 DEF Snap
        <4> QED BY <1>1, <4>2, BeatsMonotone
      <3> QED BY <3>1, <3>2 DEF TopOfRound
    <2>2. TopOfRound(rew, s.uid) # {}
      BY DEF TopOfRound
    <2> QED BY <1>4, <2>1, <2>2 DEF Crowned
  <1>5. ASSUME NEW w \in Miners \ {s.uid}, after = Snap(w, b[w]), b[w] = rew[w],
               Beats(b[w], s.reward),
               \A m \in Miners \ {s.uid} : Beats(b[m], s.reward) => b[m] <= b[w]
        PROVE  Crowned(s, rew) = {after}
    <2>1. rew[w] > 0 /\ w \in rivals
      BY <1>1, <1>2, <1>5, BeatsNeedsMore DEF Positive
    <2>2. ASSUME NEW m \in rivals
          PROVE  rew[m] <= rew[w]
      <3>1. SUFFICES ASSUME rew[m] > rew[w] PROVE FALSE
        BY <1>2, <1>3, <2>1
      <3>2. b[m] \in Nat /\ b[w] \in Nat /\ b[m] > b[w]
        BY <1>2, <1>3, <1>5, <3>1
      <3>3. Beats(b[m], s.reward)
        BY <1>1, <1>5, <3>2, BeatsMonotone
      <3> QED BY <1>3, <1>5, <3>2, <3>3
    <2>3. tops = {w}
      <3>1. w \in tops
        BY <2>1, <2>2 DEF Top
      <3>2. ASSUME NEW m \in tops
            PROVE  m = w
        <4>1. m \in rivals /\ rew[w] <= rew[m]
          BY <2>1 DEF Top
        <4>2. rew[m] = rew[w]
          BY <1>3, <2>1, <2>2, <4>1
        <4> QED BY <2>1, <4>1, <4>2
      <3> QED BY <3>1, <3>2
    <2>4. TopOfRound(rew, s.uid) = {after}
      BY <1>5, <2>3 DEF TopOfRound
    <2>5. after.reward = b[w]
      BY <1>5 DEF Snap
    <2>6. CASE s = NoSnapshot
      BY <2>4, <2>6 DEF Crowned, NoSnapshot
    <2>7. CASE s # NoSnapshot
      BY <1>5, <2>4, <2>5, <2>7 DEF Crowned
    <2> QED BY <2>6, <2>7
  <1> QED BY <1>4, <1>5 DEF Passes

\* Whoever holds the throne then is beaten by nobody, a dethroned leader included.
LEMMA PassesStands ==
    ASSUME NEW s \in Snapshot, NEW rew \in RoundRewards, NEW b \in [Miners -> Nat],
           s # NoSnapshot => s.uid \in Miners /\ s.reward > 0 /\ b[s.uid] = s.reward,
           NEW after, Passes(s, b, rew, after)
    PROVE  /\ after.uid \in Miners /\ after.reward > 0 /\ b[after.uid] = after.reward
           /\ \A m \in Miners \ {after.uid} : ~Beats(b[m], after.reward)
PROOF
  <1>1. CASE s # NoSnapshot /\ after = s /\ \A m \in Miners \ {s.uid} : ~Beats(b[m], s.reward)
    BY <1>1
  <1>2. ASSUME NEW w \in Miners \ {s.uid}, after = Snap(w, b[w]), Beats(b[w], s.reward),
               \A m \in Miners \ {s.uid} : Beats(b[m], s.reward) => b[m] <= b[w]
        PROVE  /\ after.uid \in Miners /\ after.reward > 0 /\ b[after.uid] = after.reward
               /\ \A m \in Miners \ {after.uid} : ~Beats(b[m], after.reward)
    <2>1. after.uid = w /\ after.reward = b[w]
      BY <1>2 DEF Snap
    <2>2. s.reward \in Nat /\ b[w] \in Nat /\ b[w] > s.reward
      BY <1>2, BeatsNeedsMore DEF Snapshot
    <2>3. ASSUME NEW m \in Miners \ {w}, Beats(b[m], b[w])
          PROVE  FALSE
      <3>1. b[m] \in Nat /\ b[m] > b[w]
        BY <2>2, <2>3, BeatsNeedsMore
      <3>2. CASE m = s.uid
        BY <2>2, <3>1, <3>2, MinersAssumption
        DEF MinersAssumption, NoSnapshot, NoMiner
      <3>3. CASE m # s.uid
        <4>1. Beats(b[m], s.reward)
          BY <1>2, <2>2, <3>1, BeatsMonotone
        <4> QED BY <1>2, <2>2, <3>1, <3>3, <4>1
      <3> QED BY <3>2, <3>3
    <2> QED BY <2>1, <2>2, <2>3
  <1> QED BY <1>1, <1>2 DEF Passes

\* The artifacts up to round last give, replayed in order, the history h.
Chronicle(files, h, last) ==
    \A n \in Rounds : n <= last =>
        /\ files[n].kind = "summary"
        /\ Crowned(At(h, n - 1), files[n].rew) = {h[n]}

\* The leader s has its record, and only rewards of the round in flight beat it.
Stands(record, s, rew) ==
    /\ s # NoSnapshot => s.uid \in Miners /\ s.reward > 0 /\ record[s.uid] = s.reward
    /\ \A m \in Miners \ {s.uid} : Beats(record[m], s.reward) => record[m] = rew[m]

\* Season bests are what was earned, in memory or in files still to be loaded.
RecordsKept ==
    /\ earned \in [Miners -> Rewards \cup {0}]
    /\ \A m \in Miners :
         /\ verdict.rew[m] <= earned[m]
         /\ \A n \in Rounds : disk[n].rew[m] <= earned[m]
         /\ \/ earned[m] \in {0, verdict.rew[m]}
            \/ \E n \in Rounds : disk[n].rew[m] = earned[m]
         /\ pc # "loading" => best[m] = earned[m]
         /\ pc = "loading" => best[m] <= earned[m]
         /\ pc = "loading" =>
              best[m] = earned[m] \/ \E n \in todo : disk[n].rew[m] = earned[m]

\* Between rounds.
IdleInv ==
    pc = "idle" =>
      /\ Chronicle(disk, leader, round)
      /\ LeaderAfter(round) = NoSnapshot => current = NoSnapshot

\* Between the two stages of a settlement.
SettledInv ==
    pc = "settled" =>
      LET last == LeaderAfter(round - 1)
      IN  /\ round \in Rounds
          /\ Chronicle(disk, leader, round - 1)
          /\ ~verdict.burn
          /\ Listed(verdict.rew) \subseteq verdict.elig
          /\ Positive(verdict.rew) # {}
          /\ \A m, n \in Positive(verdict.rew) : verdict.rew[m] = verdict.rew[n] => m = n
          /\ verdict.before = last
          /\ verdict.candidate = Candidate(verdict.elig, best, last)
          /\ disk[round].rew = NoRewards
          /\ last = NoSnapshot =>
               \E m \in Contenders(verdict.elig, best) : verdict.winner = Snap(m, best[m])

\* During a restart the history is in no variable: one exists that the files
\* give and that ended with the leader reported.  k is the last round replayed.
LoadingInv ==
    pc = "loading" =>
      \E h \in [Rounds -> Snapshot], k \in (FirstRound - 1)..round :
        /\ Chronicle(disk, h, round)
        /\ replayed = At(h, round)
        /\ todo = {n \in Rounds : k < n /\ n <= round}
        /\ snapshot = At(h, k)
        /\ current = snapshot
        /\ \A n \in Rounds : n <= k => leader[n] = h[n]

\* The inductive invariant.
ThroneInv ==
    /\ TypeOK
    /\ RecordsKept
    /\ IdleInv
    /\ SettledInv
    /\ LoadingInv
    /\ Stands(earned, ReportedThrone, verdict.rew)
    /\ pc # "settled" => verdict = NoVerdict
    /\ \A n \in Rounds : n > round => disk[n] = NoArtifact

LEMMA NoRewardsAt ==
    ASSUME NEW m \in Miners
    PROVE  NoRewards[m] = -1
BY DEF NoRewards, NoReward

LEMMA RecordType ==
    ASSUME ThroneInv, NEW m \in Miners
    PROVE  earned[m] \in Nat /\ (earned[m] \in Rewards \/ earned[m] = 0)
PROOF
  <1>1. earned[m] \in Rewards \cup {0}
    BY DEF ThroneInv, RecordsKept
  <1>2. Rewards \subseteq Nat /\ 0 \in Nat
    BY RewardsAssumption DEF RewardsAssumption
  <1> QED BY <1>1, <1>2

LEMMA ThroneType ==
    ASSUME TypeOK
    PROVE  /\ ReportedThrone \in Snapshot
           /\ \A n \in Int : LeaderAfter(n) = At(leader, n)
           /\ round \in Int
           /\ pc = "idle" => ReportedThrone = LeaderAfter(round)
           /\ pc = "settled" => ReportedThrone = LeaderAfter(round - 1)
           /\ pc = "loading" => ReportedThrone = replayed
PROOF
  <1>1. round \in Int
    BY RoundsAssumption DEF TypeOK, RoundsAssumption
  <1>2. /\ pc = "idle" => ReportedThrone = LeaderAfter(round)
        /\ pc = "settled" => ReportedThrone = LeaderAfter(round - 1)
        /\ pc = "loading" => ReportedThrone = replayed
    BY DEF ReportedThrone
  <1>3. LeaderAfter(round) \in Snapshot /\ LeaderAfter(round - 1) \in Snapshot
    BY <1>1, LeaderAfterType
  <1>4. pc \in {"idle", "settled", "loading"} /\ replayed \in Snapshot
    BY DEF TypeOK
  <1> QED BY <1>1, <1>2, <1>3, <1>4 DEF LeaderAfter, At

LEMMA ThroneInit == Init => ThroneInv
PROOF
  <1> SUFFICES ASSUME Init PROVE ThroneInv
    OBVIOUS
  <1>1. TypeOK
    BY TypeInit
  <1>2. \A m \in Miners : earned[m] = 0 /\ best[m] = 0 /\ verdict.rew[m] = -1
    BY NoRewardsAt DEF Init, NoVerdict
  <1>3. \A n \in Rounds, m \in Miners : disk[n].rew[m] = -1
    BY NoRewardsAt DEF Init, NoArtifact
  <1>4. RecordsKept
    BY <1>2, <1>3 DEF RecordsKept, Init
  <1>5. round = FirstRound - 1 /\ round \notin Rounds /\ \A n \in Rounds : ~(n <= round)
    BY RoundsAssumption DEF Init, Rounds, RoundsAssumption
  <1>6. LeaderAfter(round) = NoSnapshot /\ ReportedThrone = NoSnapshot
    BY <1>1, <1>5, ThroneType DEF LeaderAfter, Init
  <1>7. IdleInv
    BY <1>5 DEF IdleInv, Chronicle, Init
  <1>8. Stands(earned, ReportedThrone, verdict.rew)
    BY <1>2, <1>6, BeatsVacant DEF Stands, NoSnapshot
  <1> QED BY <1>1, <1>4, <1>7, <1>8 DEF ThroneInv, Init, SettledInv, LoadingInv

LEMMA ThroneSettle ==
    ASSUME Quiet, ThroneInv, TypeOK',
           NEW elig \in SUBSET Miners, NEW rew \in RoundRewards, Settle(elig, rew)
    PROVE  /\ ThroneInv'
           /\ ReportedThrone' = ReportedThrone
           /\ \A m \in Miners : earned'[m] >= earned[m]
           /\ \E m \in Miners : earned'[m] > 0
PROOF
  <1> DEFINE n == round + 1
             b == Improved(rew)
             last == LeaderAfter(round)
  <1>1. /\ TypeOK /\ pc = "idle" /\ n \in Rounds /\ round \in Int
        /\ n \in Int /\ round # n /\ n - 1 = round
    BY ThroneType DEF ThroneInv, Settle
  <1>2. last \in Snapshot /\ ReportedThrone = last
    BY <1>1, ThroneType
  <1>3. /\ verdict = NoVerdict
        /\ \A m \in Miners : verdict.rew[m] = -1
        /\ disk[n] = NoArtifact
        /\ \A m \in Miners : disk[n].rew[m] = -1
    BY <1>1, NoRewardsAt DEF ThroneInv, NoVerdict, NoArtifact
  <1>4. /\ last # NoSnapshot =>
             last.uid \in Miners /\ last.reward > 0 /\ earned[last.uid] = last.reward
        /\ \A m \in Miners \ {last.uid} : ~Beats(earned[m], last.reward)
    BY <1>2, <1>3, RecordType DEF ThroneInv, Stands
  <1>5. Reigning(n) = last /\ LeaderBefore(n) = last
    <2>1. CASE last # NoSnapshot
      BY <1>1, <1>4, <2>1 DEF Reigning, LeaderBefore
    <2>2. CASE last = NoSnapshot
      <3>1. current = NoSnapshot
        BY <1>1, <2>2 DEF ThroneInv, IdleInv
      <3> QED BY <1>1, <2>2, <3>1 DEF Reigning, LeaderBefore, NoSnapshot
    <2> QED BY <2>1, <2>2
  <1>6. /\ Listed(rew) \subseteq elig
        /\ Positive(rew) # {}
        /\ \A m, k \in Positive(rew) : rew[m] = rew[k] => m = k
        /\ \A m \in Miners : m = last.uid => rew[m] <= last.reward
    BY <1>5 DEF Settle, RoundInput, Quiet
  <1>7. /\ b \in [Miners -> Nat]
        /\ \A m \in Miners : best[m] <= b[m] /\ rew[m] <= b[m]
    BY <1>1, ImprovedType DEF TypeOK
  <1>8. \A m \in Miners : /\ best[m] = earned[m] /\ earned[m] \in Nat
                          /\ b[m] = IF rew[m] > earned[m] THEN rew[m] ELSE earned[m]
    BY <1>1, RecordType DEF ThroneInv, RecordsKept, Improved
  <1>9. \A m \in Miners : rew[m] \in Int /\ (b[m] = rew[m] \/ b[m] = earned[m])
    BY <1>8, RewardsAreIntegers
  <1>10. earned' = b /\ best' = b
    <2>1. earned' = [m \in Miners |-> IF rew[m] > earned[m] THEN rew[m] ELSE earned[m]]
      BY DEF Settle
    <2>2. b = [m \in Miners |-> IF rew[m] > earned[m] THEN rew[m] ELSE earned[m]]
      BY <1>8 DEF Improved
    <2> QED BY <2>1, <2>2 DEF Settle
  <1> HIDE DEF b
  <1>11. PICK winner \in Winners(elig, b, last, Candidate(elig, b, last)) :
             /\ leader' = [leader EXCEPT ![n] = winner]
             /\ verdict' = [elig |-> elig, rew |-> rew, burn |-> FALSE,
                            reigning |-> last, before |-> last,
                            candidate |-> Candidate(elig, b, last), winner |-> winner]
    BY <1>5, <1>6 DEF Settle, b
  <1>12. /\ pc' = "settled" /\ round' = n
         /\ disk' = [disk EXCEPT ![n] = [kind |-> "summary", rew |-> NoRewards]]
    BY <1>6 DEF Settle
  <1>13. /\ \A k \in Rounds \ {n} : disk'[k] = disk[k] /\ leader'[k] = leader[k]
         /\ disk'[n].rew = NoRewards
    BY <1>1, <1>11, <1>12 DEF TypeOK
  <1>14. LeaderAfter(round - 1)' = last /\ ReportedThrone' = last
    <2>1. LeaderAfter(round - 1)' = last
      BY <1>1, <1>12, <1>13 DEF LeaderAfter
    <2>2. ReportedThrone' = LeaderAfter(round - 1)'
      BY <1>12, ThroneType DEF ReportedThrone
    <2> QED BY <2>1, <2>2
  <1>15. RecordsKept'
    <2>1. b \in [Miners -> Rewards \cup {0}]
      <3>1. \A m \in Miners : b[m] \in Rewards \cup {0}
        <4>1. SUFFICES ASSUME NEW m \in Miners PROVE b[m] \in Rewards \cup {0}
          OBVIOUS
        <4>2. rew[m] \in Rewards \cup {NoReward} /\ b[m] \in Nat
          BY <1>7 DEF RoundRewards
        <4>3. earned[m] \in Rewards \cup {0}
          BY RecordType
        <4> QED BY <1>9, <4>2, <4>3 DEF NoReward
      <3> QED BY <1>7, <3>1
    <2>2. ASSUME NEW m \in Miners
          PROVE  /\ verdict'.rew[m] <= earned'[m]
                 /\ \A k \in Rounds : disk'[k].rew[m] <= earned'[m]
                 /\ \/ earned'[m] \in {0, verdict'.rew[m]}
                    \/ \E k \in Rounds : disk'[k].rew[m] = earned'[m]
      <3>1. verdict'.rew[m] = rew[m] /\ rew[m] <= b[m] /\ b[m] \in Nat /\ earned[m] <= b[m]
        BY <1>7, <1>8, <1>11
      <3>2. ASSUME NEW k \in Rounds
            PROVE  disk'[k].rew[m] <= b[m]
        <4>1. CASE k = n
          BY <1>13, <3>1, <4>1, NoRewardsAt
        <4>2. CASE k # n
          <5>1. disk[k].rew[m] <= earned[m] /\ disk[k].rew[m] \in Int
            BY <1>1, RewardsAreIntegers DEF ThroneInv, RecordsKept, TypeOK, Artifact
          <5> QED BY <1>8, <1>13, <3>1, <4>2, <5>1
        <4> QED BY <4>1, <4>2
      <3>3. \/ b[m] \in {0, rew[m]}
            \/ \E k \in Rounds : disk'[k].rew[m] = b[m]
        <4>1. SUFFICES ASSUME b[m] = earned[m], earned[m] # 0
                       PROVE  \E k \in Rounds : disk'[k].rew[m] = b[m]
          BY <1>9
        <4>2. earned[m] # verdict.rew[m]
          BY <1>3, <1>8
        <4>3. PICK k \in Rounds : disk[k].rew[m] = earned[m]
          BY <4>1, <4>2 DEF ThroneInv, RecordsKept
        <4>4. k # n
          BY <1>3, <1>8, <4>3
        <4> QED BY <1>13, <4>1, <4>3, <4>4
      <3> QED BY <1>10, <3>1, <3>2, <3>3
    <2> QED BY <1>10, <1>12, <2>1, <2>2 DEF RecordsKept
  <1>16. Chronicle(disk', leader', round)
    <2>1. SUFFICES ASSUME NEW k \in Rounds, k <= round
                   PROVE  /\ disk'[k].kind = "summary"
                          /\ Crowned(At(leader', k - 1), disk'[k].rew) = {leader'[k]}
      BY <1>1, <1>12 DEF Chronicle
    <2>2. k # n /\ k - 1 # n /\ k \in Int
      BY <1>1, <2>1 DEF Rounds
    <2>3. At(leader', k - 1) = At(leader, k - 1)
      BY <1>13, <2>2 DEF At
    <2> QED BY <1>1, <1>13, <2>1, <2>2, <2>3 DEF ThroneInv, IdleInv, Chronicle
  <1>17. SettledInv'
    <2>1. ASSUME last = NoSnapshot
          PROVE  \E m \in Contenders(elig, b) : winner = Snap(m, b[m])
      <3>1. PICK m \in Positive(rew) : TRUE
        BY <1>6
      <3>2. m \in elig /\ b[m] > 0
        BY <1>6, <1>7, <1>9, <3>1 DEF Positive, Listed, NoReward
      <3>3. Contenders(elig, b) # {}
        BY <1>7, <3>2, ContendersExist
      <3>4. last.uid \notin elig
        BY <2>1, MinersAssumption DEF NoSnapshot, NoMiner, MinersAssumption
      <3> QED BY <1>11, <3>3, <3>4 DEF Winners
    <2>2. Candidate(verdict.elig, best, LeaderAfter(round - 1))' = Candidate(elig, b, last)
      BY <1>10, <1>11, <1>14
    <2>3. Contenders(verdict.elig, best)' = Contenders(elig, b)
      BY <1>10, <1>11
    <2> QED BY <1>1, <1>6, <1>10, <1>11, <1>12, <1>13, <1>14, <1>16, <2>1, <2>2, <2>3
            DEF SettledInv
  <1>18. Stands(earned', ReportedThrone', verdict'.rew)
    <2>1. ASSUME last # NoSnapshot
          PROVE  last.uid \in Miners /\ last.reward > 0 /\ b[last.uid] = last.reward
      <3>1. rew[last.uid] <= last.reward /\ earned[last.uid] = last.reward
        BY <1>4, <1>6, <2>1
      <3> QED BY <1>4, <1>8, <1>9, <2>1, <3>1
    <2>2. ASSUME NEW m \in Miners \ {last.uid}, Beats(b[m], last.reward)
          PROVE  b[m] = rew[m]
      BY <1>4, <1>9, <2>2
    <2> QED BY <1>10, <1>11, <1>14, <2>1, <2>2 DEF Stands
  <1>19. \A k \in Rounds : k > round' => disk'[k] = NoArtifact
    BY <1>1, <1>12, <1>13 DEF ThroneInv, Rounds
  <1>20. ThroneInv'
    BY <1>12, <1>15, <1>17, <1>18, <1>19 DEF ThroneInv, IdleInv, LoadingInv
  <1>21. \A m \in Miners : earned'[m] >= earned[m]
    BY <1>7, <1>8, <1>10
  <1>22. \E m \in Miners : earned'[m] > 0
    <2>1. PICK m \in Positive(rew) : TRUE
      BY <1>6
    <2> QED BY <1>7, <1>9, <1>10, <2>1 DEF Positive
  <1> QED BY <1>2, <1>14, <1>20, <1>21, <1>22

LEMMA ThroneFinish ==
    ASSUME Quiet, ThroneInv, TypeOK', NEW rew \in RoundRewards, FinishRound(rew)
    PROVE  /\ ThroneInv'
           /\ Passes(ReportedThrone, earned, rew, ReportedThrone')
           /\ earned' = earned
PROOF
  <1> DEFINE last == LeaderAfter(round - 1)
  <1>1. /\ TypeOK /\ pc = "settled" /\ round \in Rounds /\ round \in Int
        /\ round - 1 \in Int /\ round # round - 1
    BY ThroneType DEF ThroneInv, SettledInv, FinishRound
  <1>2. last \in Snapshot /\ ReportedThrone = last
    BY <1>1, ThroneType
  <1>3. /\ Chronicle(disk, leader, round - 1)
        /\ ~verdict.burn
        /\ Listed(verdict.rew) \subseteq verdict.elig
        /\ Positive(verdict.rew) # {}
        /\ \A m, n \in Positive(verdict.rew) : verdict.rew[m] = verdict.rew[n] => m = n
        /\ verdict.before = last
        /\ verdict.candidate = Candidate(verdict.elig, best, last)
        /\ disk[round].rew = NoRewards
        /\ last = NoSnapshot =>
             \E m \in Contenders(verdict.elig, best) : verdict.winner = Snap(m, best[m])
    BY <1>1 DEF ThroneInv, SettledInv
  <1>4. rew = verdict.rew /\ Listed(rew) # {}
    <2>1. Listed(verdict.rew) # {}
      BY <1>3 DEF Positive, Listed, NoReward
    <2> QED BY <2>1 DEF FinishRound, ReportedRewards
  <1>5. /\ best \in [Miners -> Nat]
        /\ earned = best
        /\ verdict.elig \in SUBSET Miners
        /\ \A m \in Miners : rew[m] <= best[m] /\ rew[m] \in Int
    <2>1. \A m \in Miners : best[m] = earned[m] /\ rew[m] <= earned[m]
      BY <1>1, <1>4 DEF ThroneInv, RecordsKept
    <2>2. best \in [Miners -> Nat] /\ earned \in [Miners -> Nat] /\ verdict.elig \in SUBSET Miners
      BY <1>1 DEF TypeOK, Verdict
    <2> QED BY <2>1, <2>2, RewardsAreIntegers
  <1>6. /\ last # NoSnapshot =>
             last.uid \in Miners /\ last.reward > 0 /\ best[last.uid] = last.reward
        /\ \A m \in Miners \ {last.uid} : Beats(best[m], last.reward) => best[m] = rew[m]
    BY <1>2, <1>4, <1>5 DEF ThroneInv, Stands
  <1>7. ASSUME NEW after \in Normalized(rew)
        PROVE  Passes(last, best, rew, after)
    <2>1. CASE last # NoSnapshot
      <3> DEFINE cand == Canonical(Candidate(verdict.elig, best, last), rew)
      <3>1. PICK c \in (IF cand # NoSnapshot THEN {cand} ELSE TopOfRound(rew, last.uid)) :
              after = IF Beats(c.reward, last.reward) THEN c ELSE last
        BY <1>3, <2>1 DEF Normalized
      <3>2. after = Dethroned(Candidate(verdict.elig, best, last), last)
        BY <1>2, <1>3, <1>4, <1>5, <1>6, <2>1, <3>1, StagesAgree
      <3> QED BY <1>2, <1>3, <1>4, <1>5, <1>6, <2>1, <3>2, DethronedPasses
    <2>2. CASE last = NoSnapshot
      <3>1. PICK w \in Contenders(verdict.elig, best) : verdict.winner = Snap(w, best[w])
        BY <1>3, <2>2
      <3>2. \A m \in Miners : best[m] > 0 => best[m] = rew[m]
        <4>1. SUFFICES ASSUME NEW m \in Miners, best[m] > 0 PROVE best[m] = rew[m]
          OBVIOUS
        <4>2. Beats(best[m], 0) /\ m # NoMiner
          BY <1>5, <4>1, BeatsVacant, MinersAssumption DEF NoMiner, MinersAssumption
        <4> QED BY <1>6, <2>2, <4>2 DEF NoSnapshot
      <3>3. /\ Canonical(Snap(w, best[w]), rew) = Snap(w, best[w])
            /\ Snap(w, best[w]) # NoSnapshot
            /\ Passes(NoSnapshot, best, rew, Snap(w, best[w]))
        BY <1>3, <1>4, <1>5, <3>1, <3>2, FirstPasses
      <3>4. Canonical(verdict.candidate, rew) = NoSnapshot
        <4>1. verdict.candidate = NoSnapshot
          BY <1>3, <2>2 DEF Candidate, Challengers, NoSnapshot
        <4> QED BY <4>1, MinersAssumption
                DEF Canonical, Listed, NoSnapshot, NoMiner, MinersAssumption
      <3>5. after = Snap(w, best[w])
        BY <1>3, <2>2, <3>1, <3>3, <3>4 DEF Normalized
      <3> QED BY <2>2, <3>3, <3>5
    <2> QED BY <2>1, <2>2
  <1>8. PICK after \in Normalized(rew) : leader' = [leader EXCEPT ![round] = after]
    BY <1>3, <1>4 DEF FinishRound
  <1>9. /\ disk' = [disk EXCEPT ![round] = [kind |-> "summary", rew |-> rew]]
        /\ pc' = "idle" /\ verdict' = NoVerdict
        /\ UNCHANGED <<round, best, current, snapshot, todo, earned, replayed>>
    BY <1>3, <1>4 DEF FinishRound
  <1>10. /\ Passes(last, best, rew, after)
         /\ after \in Snapshot /\ after # NoSnapshot
         /\ Crowned(last, rew) = {after}
         /\ after.uid \in Miners /\ after.reward > 0 /\ best[after.uid] = after.reward
         /\ \A m \in Miners \ {after.uid} : ~Beats(best[m], after.reward)
    <2>1. Passes(last, best, rew, after)
      BY <1>7, <1>8
    <2>2. after \in Snapshot /\ after # NoSnapshot
      BY <1>2, <1>5, <2>1, PassesType
    <2>3. Crowned(last, rew) = {after}
      BY <1>2, <1>3, <1>4, <1>5, <2>1, PassesReplayed
    <2>4. /\ after.uid \in Miners /\ after.reward > 0 /\ best[after.uid] = after.reward
          /\ \A m \in Miners \ {after.uid} : ~Beats(best[m], after.reward)
      BY <1>2, <1>5, <1>6, <2>1, PassesStands
    <2> QED BY <2>1, <2>2, <2>3, <2>4
  <1>11. /\ \A k \in Rounds \ {round} : disk'[k] = disk[k] /\ leader'[k] = leader[k]
         /\ disk'[round].rew = rew /\ disk'[round].kind = "summary" /\ leader'[round] = after
    BY <1>1, <1>8, <1>9 DEF TypeOK
  <1>12. LeaderAfter(round)' = after /\ ReportedThrone' = after
    <2>1. LeaderAfter(round)' = after
      BY <1>1, <1>9, <1>11 DEF LeaderAfter
    <2>2. ReportedThrone' = LeaderAfter(round)'
      BY <1>9 DEF ReportedThrone
    <2> QED BY <2>1, <2>2
  <1>13. Chronicle(disk', leader', round)
    <2>1. SUFFICES ASSUME NEW k \in Rounds, k <= round
                   PROVE  /\ disk'[k].kind = "summary"
                          /\ Crowned(At(leader', k - 1), disk'[k].rew) = {leader'[k]}
      BY <1>1, <1>9 DEF Chronicle
    <2>2. k \in Int /\ k - 1 # round
      BY <1>1, <2>1 DEF Rounds
    <2>3. At(leader', k - 1) = At(leader, k - 1)
      BY <1>11, <2>2 DEF At
    <2>4. CASE k = round
      BY <1>10, <1>11, <2>3, <2>4 DEF At, LeaderAfter
    <2>5. CASE k # round
      <3>1. k <= round - 1
        BY <1>1, <2>1, <2>2, <2>5
      <3> QED BY <1>3, <1>11, <2>3, <2>5, <3>1 DEF Chronicle
    <2> QED BY <2>4, <2>5
  <1>14. RecordsKept'
    <2>1. ASSUME NEW m \in Miners
          PROVE  /\ verdict'.rew[m] <= earned[m]
                 /\ \A k \in Rounds : disk'[k].rew[m] <= earned[m]
                 /\ earned[m] = 0 \/ \E k \in Rounds : disk'[k].rew[m] = earned[m]
      <3>1. verdict'.rew[m] = -1 /\ disk[round].rew[m] = -1
        BY <1>3, <1>9, NoRewardsAt DEF NoVerdict
      <3>2. earned[m] \in Nat /\ rew[m] <= earned[m]
        BY <1>5
      <3>3. \A k \in Rounds : disk[k].rew[m] <= earned[m]
        BY DEF ThroneInv, RecordsKept
      <3>4. \/ earned[m] \in {0, rew[m]}
            \/ \E k \in Rounds : disk[k].rew[m] = earned[m]
        BY <1>4 DEF ThroneInv, RecordsKept
      <3>5. \A k \in Rounds : disk'[k].rew[m] = IF k = round THEN rew[m] ELSE disk[k].rew[m]
        BY <1>11
      <3>6. ASSUME earned[m] # 0
            PROVE  \E k \in Rounds : disk'[k].rew[m] = earned[m]
        BY <1>1, <3>1, <3>2, <3>4, <3>5, <3>6
      <3> QED BY <3>1, <3>2, <3>3, <3>5, <3>6
    <2>2. earned' = earned /\ best' = best /\ pc' = "idle"
      BY <1>9
    <2>3. earned \in [Miners -> Rewards \cup {0}]
      BY DEF ThroneInv, RecordsKept
    <2> QED BY <1>5, <2>1, <2>2, <2>3 DEF RecordsKept
  <1>15. Stands(earned', ReportedThrone', verdict'.rew)
    BY <1>5, <1>9, <1>10, <1>12 DEF Stands
  <1>16. \A k \in Rounds : k > round' => disk'[k] = NoArtifact
    BY <1>1, <1>9, <1>11 DEF ThroneInv, Rounds
  <1>17. ThroneInv'
    BY <1>9, <1>10, <1>12, <1>13, <1>14, <1>15, <1>16 DEF ThroneInv, IdleInv, SettledInv, LoadingInv
  <1> QED BY <1>2, <1>5, <1>9, <1>10, <1>12, <1>17

LEMMA ThroneRestart ==
    ASSUME Quiet, ThroneInv, TypeOK', NEW torn \in SUBSET Rounds, Restart(torn)
    PROVE  ThroneInv' /\ ReportedThrone' = ReportedThrone /\ earned' = earned
PROOF
  <1>1. /\ TypeOK /\ pc = "idle" /\ round \in Int /\ torn = {}
    BY ThroneType DEF ThroneInv, Restart, Quiet
  <1>2. /\ disk' = disk
        /\ pc' = "loading"
        /\ best' = [m \in Miners |-> 0]
        /\ current' = NoSnapshot /\ snapshot' = NoSnapshot
        /\ verdict' = NoVerdict
        /\ replayed' = LeaderAfter(round)
        /\ todo' = {n \in Rounds : disk[n].kind # "none"}
        /\ round' = round /\ earned' = earned
    BY <1>1 DEF Restart, TypeOK
  <1>3. verdict = NoVerdict /\ Chronicle(disk, leader, round)
    BY <1>1 DEF ThroneInv, IdleInv
  <1>4. ReportedThrone' = ReportedThrone
    <2>1. ReportedThrone' = replayed'
      BY <1>2 DEF ReportedThrone
    <2> QED BY <1>1, <1>2, <2>1, ThroneType
  <1>5. \A n \in Rounds : disk[n].kind # "none" <=> n <= round
    <2>1. \A n \in Rounds : n <= round => disk[n].kind # "none"
      BY <1>3 DEF Chronicle
    <2>2. \A n \in Rounds : n > round => disk[n].kind = "none"
      BY DEF ThroneInv, NoArtifact
    <2> QED BY <1>1, <2>1, <2>2 DEF Rounds
  <1>6. LoadingInv'
    <2>1. leader \in [Rounds -> Snapshot] /\ round \in (FirstRound - 1)..LastRound
      BY <1>1 DEF TypeOK
    <2>2. FirstRound - 1 \in (FirstRound - 1)..round /\ FirstRound \in Int
      BY <1>1, <2>1, RoundsAssumption DEF RoundsAssumption
    <2>3. Chronicle(disk, leader, round) /\ replayed' = At(leader, round)
      BY <1>1, <1>2, <1>3, ThroneType
    <2>4. todo' = {n \in Rounds : FirstRound - 1 < n /\ n <= round}
      BY <1>2, <1>5, <2>2 DEF Rounds
    <2>5. At(leader, FirstRound - 1) = NoSnapshot
      BY <2>2 DEF At, Rounds
    <2>6. \A n \in Rounds : ~(n <= FirstRound - 1)
      BY <2>2 DEF Rounds
    <2>7. \E h \in [Rounds -> Snapshot], k \in (FirstRound - 1)..round :
            /\ Chronicle(disk, h, round)
            /\ replayed' = At(h, round)
            /\ todo' = {n \in Rounds : k < n /\ n <= round}
            /\ snapshot' = At(h, k)
            /\ \A n \in Rounds : n <= k => leader'[n] = h[n]
      BY <1>2, <2>1, <2>2, <2>3, <2>4, <2>5, <2>6
    <2> QED BY <1>2, <2>7 DEF LoadingInv
  <1>7. RecordsKept'
    <2>1. ASSUME NEW m \in Miners
          PROVE  /\ verdict'.rew[m] <= earned[m]
                 /\ \A n \in Rounds : disk[n].rew[m] <= earned[m]
                 /\ earned[m] = 0 \/ \E n \in Rounds : disk[n].rew[m] = earned[m]
                 /\ 0 <= earned[m]
                 /\ 0 = earned[m] \/ \E n \in todo' : disk[n].rew[m] = earned[m]
      <3>1. verdict.rew[m] = -1 /\ verdict'.rew[m] = -1
        BY <1>2, <1>3, NoRewardsAt DEF NoVerdict
      <3>2. earned[m] \in Nat
        BY RecordType
      <3>3. \A n \in Rounds : disk[n].rew[m] <= earned[m]
        BY DEF ThroneInv, RecordsKept
      <3>4. earned[m] = 0 \/ \E n \in Rounds : disk[n].rew[m] = earned[m]
        BY <3>1, <3>2 DEF ThroneInv, RecordsKept
      <3>5. ASSUME NEW n \in Rounds, disk[n].rew[m] = earned[m]
            PROVE  n \in todo'
        <4>1. disk[n].rew[m] # -1
          BY <3>2, <3>5
        <4>2. ~(n > round)
          BY <4>1, NoRewardsAt DEF ThroneInv, NoArtifact
        <4> QED BY <1>1, <1>2, <1>5, <4>2 DEF Rounds
      <3> QED BY <3>1, <3>2, <3>3, <3>4, <3>5
    <2>2. earned \in [Miners -> Rewards \cup {0}]
      BY DEF ThroneInv, RecordsKept
    <2> QED BY <1>2, <2>1, <2>2 DEF RecordsKept
  <1>8. Stands(earned', ReportedThrone', verdict'.rew)
    BY <1>2, <1>3, <1>4 DEF ThroneInv, Stands
  <1> QED BY <1>2, <1>4, <1>6, <1>7, <1>8 DEF ThroneInv, IdleInv, SettledInv

LEMMA ThroneLoad ==
    ASSUME Quiet, ThroneInv, TypeOK', NEW n \in Rounds, LoadRound(n)
    PROVE  ThroneInv' /\ ReportedThrone' = ReportedThrone /\ earned' = earned
PROOF
  <1> DEFINE rew == disk[n].rew
  <1>1. /\ TypeOK /\ pc = "loading" /\ round \in Int /\ n \in Int /\ n \in todo
        /\ \A j \in todo \ {n} : NameBefore(n, j)
        /\ rew \in RoundRewards
    BY ThroneType DEF ThroneInv, LoadRound, TypeOK, Artifact, Rounds
  <1>2. PICK h \in [Rounds -> Snapshot], k \in (FirstRound - 1)..round :
          /\ Chronicle(disk, h, round)
          /\ replayed = At(h, round)
          /\ todo = {j \in Rounds : k < j /\ j <= round}
          /\ snapshot = At(h, k)
          /\ current = snapshot
          /\ \A j \in Rounds : j <= k => leader[j] = h[j]
    BY <1>1 DEF ThroneInv, LoadingInv
  <1>3. n = k + 1
    <2>1. k \in Int /\ k < n /\ n <= round /\ FirstRound - 1 <= k /\ FirstRound \in Int
      BY <1>1, <1>2, RoundsAssumption DEF RoundsAssumption
    <2>2. SUFFICES ASSUME k + 1 < n PROVE FALSE
      BY <1>1, <2>1
    <2>3. k + 1 \in todo /\ k + 1 \in Rounds
      <3>1. n \in FirstRound..LastRound /\ LastRound \in Int
        BY RoundsAssumption DEF Rounds, RoundsAssumption
      <3>2. k + 1 \in Rounds
        BY <2>1, <2>2, <3>1 DEF Rounds
      <3> QED BY <1>1, <1>2, <2>1, <2>2, <3>2
    <2> QED BY <1>1, <2>2, <2>3, NamesInOrder
  <1>4. disk[n].kind = "summary" /\ Replayed(rew) = {h[n]}
    <2>1. n <= round /\ n - 1 = k
      BY <1>1, <1>2, <1>3
    <2>2. Replayed(rew) = Crowned(snapshot, rew)
      BY DEF Replayed, Crowned
    <2> QED BY <1>2, <2>1, <2>2 DEF Chronicle
  <1>5. /\ leader' = [leader EXCEPT ![n] = h[n]]
        /\ current' = h[n] /\ snapshot' = h[n]
        /\ todo' = todo \ {n}
        /\ best' = Improved(rew)
        /\ UNCHANGED <<pc, round, verdict, disk, earned, replayed>>
    BY <1>4 DEF LoadRound
  <1>6. ReportedThrone' = ReportedThrone
    <2>1. ReportedThrone' = replayed'
      BY <1>1, <1>5 DEF ReportedThrone
    <2> QED BY <1>1, <1>5, <2>1, ThroneType
  <1>7. LoadingInv'
    <2>1. n \in (FirstRound - 1)..round
      BY <1>1, <1>2, <1>3, RoundsAssumption DEF RoundsAssumption
    <2>2. todo' = {j \in Rounds : n < j /\ j <= round}
      BY <1>1, <1>2, <1>3, <1>5 DEF Rounds
    <2>3. snapshot' = At(h, n) /\ current' = snapshot'
      BY <1>5 DEF At
    <2>4. ASSUME NEW j \in Rounds, j <= n
          PROVE  leader'[j] = h[j]
      <3>1. CASE j = n
        BY <1>1, <1>5, <3>1 DEF TypeOK
      <3>2. CASE j # n
        <4>1. j <= k
          BY <1>2, <1>3, <2>4, <3>2 DEF Rounds
        <4> QED BY <1>1, <1>2, <1>5, <3>2, <4>1 DEF TypeOK
      <3> QED BY <3>1, <3>2
    <2>5. \E g \in [Rounds -> Snapshot], i \in (FirstRound - 1)..round :
            /\ Chronicle(disk, g, round)
            /\ replayed = At(g, round)
            /\ todo' = {j \in Rounds : i < j /\ j <= round}
            /\ snapshot' = At(g, i)
            /\ \A j \in Rounds : j <= i => leader'[j] = g[j]
      BY <1>2, <2>1, <2>2, <2>3, <2>4
    <2> QED BY <1>5, <2>3, <2>5 DEF LoadingInv
  <1>8. RecordsKept'
    <2>1. ASSUME NEW m \in Miners
          PROVE  /\ best'[m] <= earned[m]
                 /\ best'[m] = earned[m] \/ \E j \in todo' : disk[j].rew[m] = earned[m]
      <3>1. best'[m] = IF rew[m] > best[m] THEN rew[m] ELSE best[m]
        BY <1>5 DEF Improved
      <3>2. /\ rew[m] <= earned[m] /\ best[m] <= earned[m]
            /\ best[m] = earned[m] \/ \E j \in todo : disk[j].rew[m] = earned[m]
        BY <1>1 DEF ThroneInv, RecordsKept
      <3>3. rew[m] \in Int /\ best[m] \in Nat /\ earned[m] \in Nat
        BY <1>1, RewardsAreIntegers DEF TypeOK
      <3> QED BY <1>5, <3>1, <3>2, <3>3
    <2> QED BY <1>1, <1>5, <2>1 DEF ThroneInv, RecordsKept
  <1>9. Stands(earned', ReportedThrone', verdict'.rew)
    BY <1>5, <1>6 DEF ThroneInv, Stands
  <1> QED BY <1>1, <1>5, <1>6, <1>7, <1>8, <1>9 DEF ThroneInv, IdleInv, SettledInv

LEMMA ThroneLoaded ==
    ASSUME Quiet, ThroneInv, TypeOK', Loaded
    PROVE  ThroneInv' /\ ReportedThrone' = ReportedThrone /\ earned' = earned
PROOF
  <1>1. /\ TypeOK /\ pc = "loading" /\ todo = {} /\ round \in Int
        /\ round \in (FirstRound - 1)..LastRound
    BY ThroneType DEF ThroneInv, Loaded, TypeOK
  <1>2. PICK h \in [Rounds -> Snapshot], k \in (FirstRound - 1)..round :
          /\ Chronicle(disk, h, round)
          /\ replayed = At(h, round)
          /\ todo = {j \in Rounds : k < j /\ j <= round}
          /\ snapshot = At(h, k)
          /\ current = snapshot
          /\ \A j \in Rounds : j <= k => leader[j] = h[j]
    BY <1>1 DEF ThroneInv, LoadingInv
  <1>3. k = round
    <2>1. k \in Int /\ FirstRound \in Int /\ LastRound \in Int
      BY <1>1, RoundsAssumption DEF RoundsAssumption
    <2>2. SUFFICES ASSUME k < round PROVE FALSE
      BY <1>1, <2>1
    <2>3. round \in Rounds
      BY <1>1, <2>1, <2>2 DEF Rounds
    <2> QED BY <1>1, <1>2, <2>2, <2>3
  <1>4. /\ pc' = "idle"
        /\ UNCHANGED <<round, best, current, snapshot, leader, verdict, disk, todo, earned>>
    BY DEF Loaded
  <1>5. \A j \in Int : j <= round => At(leader, j) = At(h, j)
    BY <1>2, <1>3 DEF At
  <1>6. LeaderAfter(round) = replayed /\ LeaderAfter(round)' = replayed
    <2>1. LeaderAfter(round) = replayed
      BY <1>1, <1>2, <1>5, ThroneType
    <2>2. LeaderAfter(round)' = LeaderAfter(round)
      BY <1>4 DEF LeaderAfter
    <2> QED BY <2>1, <2>2
  <1>7. ReportedThrone' = ReportedThrone
    <2>1. ReportedThrone' = LeaderAfter(round)'
      BY <1>4 DEF ReportedThrone
    <2> QED BY <1>1, <1>6, <2>1, ThroneType
  <1>8. Chronicle(disk, leader, round)
    <2>1. SUFFICES ASSUME NEW j \in Rounds, j <= round
                   PROVE  /\ disk[j].kind = "summary"
                          /\ Crowned(At(leader, j - 1), disk[j].rew) = {leader[j]}
      BY DEF Chronicle
    <2>2. j - 1 \in Int /\ j - 1 <= round
      BY <1>1, <2>1 DEF Rounds
    <2> QED BY <1>2, <1>3, <1>5, <2>1, <2>2 DEF Chronicle
  <1>9. IdleInv'
    <2>1. Chronicle(disk', leader', round)
      BY <1>4, <1>8 DEF Chronicle
    <2>2. LeaderAfter(round) = NoSnapshot => current = NoSnapshot
      BY <1>2, <1>3, <1>6
    <2> QED BY <1>4, <1>6, <2>1, <2>2 DEF IdleInv
  <1>10. RecordsKept'
    <2>1. \A m \in Miners : best[m] = earned[m]
      BY <1>1 DEF ThroneInv, RecordsKept
    <2> QED BY <1>4, <2>1 DEF ThroneInv, RecordsKept
  <1>11. Stands(earned', ReportedThrone', verdict'.rew)
    BY <1>4, <1>7 DEF ThroneInv, Stands
  <1> QED BY <1>1, <1>4, <1>7, <1>9, <1>10, <1>11 DEF ThroneInv, LoadingInv, SettledInv

LEMMA ThroneNext ==
    ASSUME Quiet
    PROVE  ThroneInv /\ [Next]_vars => ThroneInv'
PROOF
  <1> SUFFICES ASSUME ThroneInv, [Next]_vars PROVE ThroneInv'
    OBVIOUS
  <1>0. TypeOK /\ TypeOK'
    BY TypeNext DEF ThroneInv
  <1>1. ASSUME NEW elig \in SUBSET Miners, NEW rew \in RoundRewards, Settle(elig, rew)
        PROVE  ThroneInv'
    BY <1>0, <1>1, ThroneSettle
  <1>2. ASSUME NEW rew \in RoundRewards, FinishRound(rew)
        PROVE  ThroneInv'
    BY <1>0, <1>2, ThroneFinish
  <1>3. ~FinishOffline /\ ~SkipRound
    BY DEF Quiet, FinishOffline, SkipRound
  <1>4. ASSUME NEW torn \in {{}} \cup {{n} : n \in Rounds}, Restart(torn)
        PROVE  ThroneInv'
    BY <1>0, <1>4, ThroneRestart
  <1>5. ASSUME NEW n \in Rounds, LoadRound(n)
        PROVE  ThroneInv'
    BY <1>0, <1>5, ThroneLoad
  <1>6. CASE Loaded
    BY <1>0, <1>6, ThroneLoaded
  <1>7. CASE UNCHANGED vars
    <2>1. /\ UNCHANGED <<pc, round, best, current, snapshot, leader, verdict, disk>>
          /\ UNCHANGED <<todo, earned, replayed>>
      BY <1>7 DEF vars
    <2>2. \A n : LeaderAfter(n)' = LeaderAfter(n)
      BY <2>1 DEF LeaderAfter
    <2>3. ReportedThrone' = ReportedThrone
      <3>1. /\ pc = "idle" => ReportedThrone' = LeaderAfter(round)'
            /\ pc = "settled" => ReportedThrone' = LeaderAfter(round - 1)'
            /\ pc = "loading" => ReportedThrone' = replayed'
        BY <2>1 DEF ReportedThrone
      <3>2. pc \in {"idle", "settled", "loading"}
        BY <1>0 DEF TypeOK
      <3>3. LeaderAfter(round)' = LeaderAfter(round) /\ LeaderAfter(round - 1)' = LeaderAfter(round - 1)
        BY <2>1 DEF LeaderAfter
      <3> QED BY <1>0, <2>1, <3>1, <3>2, <3>3, ThroneType
    <2>4. RecordsKept'
      BY <2>1 DEF ThroneInv, RecordsKept
    <2>5. IdleInv'
      BY <2>1 DEF ThroneInv, IdleInv, LeaderAfter
    <2>6. SettledInv'
      BY <2>1 DEF ThroneInv, SettledInv, LeaderAfter
    <2>7. LoadingInv'
      BY <2>1 DEF ThroneInv, LoadingInv
    <2> QED BY <1>0, <2>1, <2>3, <2>4, <2>5, <2>6, <2>7 DEF ThroneInv
  <1>8. CASE SeasonOver
    BY <1>7, <1>8 DEF SeasonOver
  <1> QED BY <1>1, <1>2, <1>3, <1>4, <1>5, <1>6, <1>7, <1>8 DEF Next

\* In a quiet season every restart, after any number of others, replays the
\* artifacts to the leader reported before it.
THEOREM RestartsKeepTheThrone ==
    ASSUME Quiet
    PROVE  Spec => []RestartKeepsTheThrone
PROOF
  <1>1. Init => ThroneInv
    BY ThroneInit
  <1>2. ThroneInv /\ [Next]_vars => ThroneInv'
    BY ThroneNext
  <1>3. ThroneInv => RestartKeepsTheThrone
    <2>1. SUFFICES ASSUME ThroneInv, pc = "loading", todo = {} PROVE snapshot = replayed
      BY DEF RestartKeepsTheThrone
    <2>2. PICK h \in [Rounds -> Snapshot], k \in (FirstRound - 1)..round :
            /\ replayed = At(h, round)
            /\ todo = {j \in Rounds : k < j /\ j <= round}
            /\ snapshot = At(h, k)
      BY <2>1 DEF ThroneInv, LoadingInv
    <2>3. k = round
      <3>1. /\ k \in Int /\ round \in Int /\ FirstRound \in Int /\ LastRound \in Int
            /\ round <= LastRound
        BY <2>1, RoundsAssumption DEF ThroneInv, TypeOK, RoundsAssumption
      <3>2. SUFFICES ASSUME k < round PROVE FALSE
        BY <3>1
      <3>3. round \in Rounds
        BY <3>1, <3>2 DEF Rounds
      <3> QED BY <2>1, <2>2, <3>1, <3>2, <3>3
    <2> QED BY <2>2, <2>3
  <1> QED BY <1>1, <1>2, <1>3, PTL DEF Spec

\* In a quiet season nobody's season best clears the bar over the reported
\* leader, absences and restarts notwithstanding.
THEOREM LeadersHoldTheBar ==
    ASSUME Quiet
    PROVE  Spec => []LeaderHoldsTheBar
PROOF
  <1>1. Init => ThroneInv
    BY ThroneInit
  <1>2. ThroneInv /\ [Next]_vars => ThroneInv'
    BY ThroneNext
  <1>3. ThroneInv => LeaderHoldsTheBar
    <2>1. SUFFICES ASSUME ThroneInv, pc = "idle",
                          NEW m \in Miners \ {LeaderAfter(round).uid},
                          Beats(best[m], LeaderAfter(round).reward)
                   PROVE  FALSE
      BY DEF LeaderHoldsTheBar
    <2>2. ReportedThrone = LeaderAfter(round) /\ verdict = NoVerdict
      BY <2>1, ThroneType DEF ThroneInv
    <2>3. best[m] = earned[m] /\ earned[m] \in Nat /\ verdict.rew[m] = -1
      BY <2>1, <2>2, RecordType, NoRewardsAt DEF ThroneInv, RecordsKept, NoVerdict
    <2> QED BY <2>1, <2>2, <2>3 DEF ThroneInv, Stands
  <1> QED BY <1>1, <1>2, <1>3, PTL DEF Spec

\* Settlements are plays, reports are decisions, restarts change nothing.
LEMMA ThroneMoves ==
    ASSUME Quiet
    PROVE  ThroneInv /\ [Next]_vars => [Throne!Next]_(Throne!vars)
PROOF
  <1> SUFFICES ASSUME ThroneInv, [Next]_vars PROVE [Throne!Next]_(Throne!vars)
    OBVIOUS
  <1>0. TypeOK /\ TypeOK' /\ ThroneInv'
    BY TypeNext, ThroneNext DEF ThroneInv
  <1>a. ASSUME ReportedThrone' = ReportedThrone, earned' = earned,
               pc # "settled", pc' # "settled"
        PROVE  UNCHANGED Throne!vars
    BY <1>a DEF Throne!vars
  <1>1. ASSUME NEW elig \in SUBSET Miners, NEW rew \in RoundRewards, Settle(elig, rew)
        PROVE  Throne!Next
    <2>1. /\ ReportedThrone' = ReportedThrone
          /\ \A m \in Miners : earned'[m] >= earned[m]
          /\ \E m \in Miners : earned'[m] > 0
      BY <1>0, <1>1, ThroneSettle
    <2>2. pc = "idle" /\ pc' = "settled"
      BY <1>1 DEF Settle
    <2>3. earned' \in [Miners -> Rewards \cup {0}]
      BY <1>0 DEF ThroneInv, RecordsKept
    <2>4. Throne!Play
      BY <2>1, <2>2, <2>3 DEF Throne!Play
    <2> QED BY <2>4 DEF Throne!Next
  <1>2. ASSUME NEW rew \in RoundRewards, FinishRound(rew)
        PROVE  Throne!Next
    <2> DEFINE s == ReportedThrone
               rivals == {m \in Miners \ {s.uid} : Throne!Clears(earned[m], s.reward)}
    <2>1. Passes(s, earned, rew, s') /\ earned' = earned
      BY <1>0, <1>2, ThroneFinish
    <2>2. pc = "settled" /\ pc' = "idle"
      BY <1>2 DEF FinishRound
    <2>3. \A x, bar : Throne!Clears(x, bar) <=> Beats(x, bar)
      BY DEF Throne!Clears, Beats
    <2>4. IF rivals = {} THEN s' = s
          ELSE \E m \in Throne!Leading(rivals) : s' = [uid |-> m, reward |-> earned[m]]
      <3>1. ASSUME NEW w \in Miners \ {s.uid},
                   s' = Snap(w, earned[w]),
                   Beats(earned[w], s.reward),
                   \A m \in Miners \ {s.uid} :
                      Beats(earned[m], s.reward) => earned[m] <= earned[w]
            PROVE  w \in Throne!Leading(rivals)
        BY <2>3, <3>1 DEF Throne!Leading
      <3> QED BY <2>1, <2>3, <3>1 DEF Passes, Snap
    <2>5. Throne!Decide
      BY <2>1, <2>2, <2>4 DEF Throne!Decide
    <2> QED BY <2>5 DEF Throne!Next
  <1>3. ~FinishOffline /\ ~SkipRound
    BY DEF Quiet, FinishOffline, SkipRound
  <1>4. ASSUME NEW torn \in {{}} \cup {{n} : n \in Rounds}, Restart(torn)
        PROVE  UNCHANGED Throne!vars
    <2>1. pc # "settled" /\ pc' # "settled"
      BY <1>4 DEF Restart, Quiet
    <2> QED BY <1>0, <1>4, <1>a, <2>1, ThroneRestart
  <1>5. ASSUME NEW n \in Rounds, LoadRound(n)
        PROVE  UNCHANGED Throne!vars
    <2>1. pc # "settled" /\ pc' # "settled"
      BY <1>5 DEF LoadRound
    <2> QED BY <1>0, <1>5, <1>a, <2>1, ThroneLoad
  <1>6. CASE Loaded
    <2>1. pc # "settled" /\ pc' # "settled"
      BY <1>6 DEF Loaded
    <2> QED BY <1>0, <1>6, <1>a, <2>1, ThroneLoaded
  <1>7. CASE UNCHANGED vars
    BY <1>7 DEF vars, Throne!vars, ReportedThrone, LeaderAfter
  <1>8. CASE SeasonOver
    BY <1>7, <1>8 DEF SeasonOver
  <1> QED BY <1>1, <1>2, <1>3, <1>4, <1>5, <1>6, <1>7, <1>8 DEF Next

\* In a quiet season the two-stage settlement with its files and restarts
\* implements the abstract throne.
THEOREM SeasonImplementsThrone ==
    ASSUME Quiet
    PROVE  Spec => ImplementsSeasonThrone
PROOF
  <1>1. Init => ThroneInv
    BY ThroneInit
  <1>2. ThroneInv /\ [Next]_vars => ThroneInv'
    BY ThroneNext
  <1>3. Init => Throne!Init
    <2> SUFFICES ASSUME Init PROVE Throne!Init
      OBVIOUS
    <2>1. ReportedThrone = LeaderAfter(round)
      BY ThroneType, TypeInit DEF Init
    <2>2. LeaderAfter(round) = NoSnapshot
      BY RoundsAssumption DEF Init, LeaderAfter, Rounds, RoundsAssumption
    <2>3. Throne!Vacant = NoSnapshot
      BY DEF Throne!Vacant, NoSnapshot, NoMiner
    <2> QED BY <2>1, <2>2, <2>3 DEF Init, Throne!Init
  <1>4. ThroneInv /\ [Next]_vars => [Throne!Next]_(Throne!vars)
    BY ThroneMoves
  <1> QED BY <1>1, <1>2, <1>3, <1>4, PTL DEF Spec, ImplementsSeasonThrone, Throne!Spec

-----------------------------------------------------------------------------
(* The paid winner in a calm season, whatever events there are: rounds that  *)
(* are burned, skipped or never reported leave the winner the only copy of   *)
(* the throne, so that the next round reads it back from there.              *)

\* While the season is calm the report shows the winner paid or nobody, and
\* the winner is beaten by no season best.
CalmInv ==
    calm =>
      /\ pc # "loading"
      /\ snapshot = current
      /\ current # NoSnapshot =>
           /\ current.uid \in Miners
           /\ current.reward > 0
           /\ best[current.uid] = current.reward
      /\ \A m \in Miners \ {current.uid} : ~Beats(best[m], current.reward)
      /\ \A n \in Rounds : n > round => leader[n] = NoSnapshot
      /\ pc = "idle" => LeaderAfter(round) \in {NoSnapshot, current}
      /\ pc = "settled" =>
           /\ round \in Rounds
           /\ Listed(verdict.rew) = Miners
           /\ leader[round] = IF verdict.burn THEN NoSnapshot ELSE current
           /\ ~verdict.burn => Normalized(verdict.rew) = {current}

\* A settlement keeps the invariant and dethrones a winner only by the bar.
LEMMA CalmSettle ==
    ASSUME TypeOK, CalmInv, NEW elig \in SUBSET Miners, NEW rew \in RoundRewards,
           Settle(elig, rew), calm'
    PROVE  /\ CalmInv'
           /\ current.uid \in elig /\ current'.uid # current.uid
                => Beats(current'.reward, current.reward)
PROOF
  <1> DEFINE n == round + 1
             b == Improved(rew)
             s == current
             cand == Candidate(elig, b, s)
             burn == Positive(rew) = {}
  <1>1. /\ pc = "idle" /\ n \in Rounds /\ round \in Int /\ n \in Int /\ n # round /\ n - 1 = round
        /\ s \in Snapshot
    BY ThroneType DEF Settle, TypeOK
  <1>2. /\ calm
        /\ Listed(rew) = Miners
        /\ \A m \in Miners : m = Reigning(n).uid => rew[m] <= Reigning(n).reward
    BY DEF Settle
  <1>3. /\ snapshot = s
        /\ s # NoSnapshot => s.uid \in Miners /\ s.reward > 0 /\ best[s.uid] = s.reward
        /\ \A m \in Miners \ {s.uid} : ~Beats(best[m], s.reward)
        /\ \A k \in Rounds : k > round => leader[k] = NoSnapshot
        /\ LeaderAfter(round) \in {NoSnapshot, s}
    BY <1>1, <1>2 DEF CalmInv
  <1>4. Reigning(n) = s /\ LeaderBefore(n) = s
    <2>1. CASE s = NoSnapshot
      BY <1>1, <1>3, <2>1 DEF Reigning, LeaderBefore, NoSnapshot
    <2>2. CASE s # NoSnapshot
      <3>1. NoSnapshot.reward = 0
        BY DEF NoSnapshot
      <3> QED BY <1>1, <1>3, <2>2, <3>1 DEF Reigning, LeaderBefore
    <2> QED BY <2>1, <2>2
  <1>5. elig = Miners
    BY <1>2 DEF Settle, RoundInput
  <1>6. /\ b \in [Miners -> Nat]
        /\ \A m \in Miners : best[m] <= b[m] /\ rew[m] <= b[m]
    BY ImprovedType DEF TypeOK
  <1>7. \A m \in Miners : /\ rew[m] \in Nat /\ best[m] \in Nat
                          /\ b[m] = IF rew[m] > best[m] THEN rew[m] ELSE best[m]
    <2>1. \A m \in Miners : rew[m] \in Nat
      BY <1>2, RewardsAreIntegers DEF Listed
    <2> QED BY <2>1 DEF Improved, TypeOK
  <1>8. burn => \A m \in Miners : b[m] = best[m]
    BY <1>7 DEF Positive
  <1> HIDE DEF b
  <1>9. s # NoSnapshot => b[s.uid] = s.reward
    <2>1. SUFFICES ASSUME s # NoSnapshot PROVE b[s.uid] = s.reward
      OBVIOUS
    <2>2. rew[s.uid] <= s.reward /\ best[s.uid] = s.reward /\ s.uid \in Miners
      BY <1>2, <1>3, <1>4, <2>1
    <2> QED BY <1>7, <2>2
  <1>10. \A m \in Miners \ {s.uid} : Beats(b[m], s.reward) => b[m] = rew[m]
    BY <1>3, <1>7
  <1>11. PICK winner \in Winners(elig, b, s, cand) :
           /\ current' = winner
           /\ snapshot' = IF burn THEN snapshot ELSE winner
           /\ leader' = [leader EXCEPT ![n] = IF burn THEN NoSnapshot ELSE winner]
           /\ verdict' = [elig |-> elig, rew |-> rew, burn |-> burn,
                          reigning |-> s, before |-> s,
                          candidate |-> cand, winner |-> winner]
    BY <1>4 DEF Settle, b
  <1>12. pc' = "settled" /\ round' = n /\ best' = b
    BY DEF Settle, b
  <1>13. ASSUME s # NoSnapshot
         PROVE  /\ winner = Dethroned(cand, s)
                /\ Passes(s, b, rew, winner)
    <2>1. s.uid \in elig /\ b[s.uid] > 0
      BY <1>3, <1>5, <1>9, <1>13
    <2>2. Contenders(elig, b) # {}
      BY <1>6, <2>1, ContendersExist
    <2>3. winner = Dethroned(cand, s)
      BY <1>11, <2>1, <2>2 DEF Winners, Dethroned
    <2>4. Passes(s, b, rew, Dethroned(cand, s))
      BY <1>1, <1>2, <1>3, <1>5, <1>6, <1>10, <1>13, DethronedPasses
    <2> QED BY <2>3, <2>4
  <1>14. ASSUME s = NoSnapshot, ~burn
         PROVE  /\ winner # NoSnapshot
                /\ Canonical(winner, rew) = winner
                /\ Passes(s, b, rew, winner)
    <2>1. \A m \in Miners : b[m] > 0 => b[m] = rew[m]
      <3>1. SUFFICES ASSUME NEW m \in Miners, b[m] > 0 PROVE b[m] = rew[m]
        OBVIOUS
      <3>2. Beats(b[m], 0) /\ m # NoMiner
        BY <1>6, <3>1, BeatsVacant, MinersAssumption DEF NoMiner, MinersAssumption
      <3> QED BY <1>10, <1>14, <3>2 DEF NoSnapshot
    <2>2. PICK m \in Positive(rew) : TRUE
      BY <1>14
    <2>3. Contenders(elig, b) # {}
      BY <1>5, <1>6, <1>7, <2>2, ContendersExist DEF Positive
    <2>4. s.uid \notin elig
      BY <1>14, MinersAssumption DEF NoSnapshot, NoMiner, MinersAssumption
    <2>5. PICK w \in Contenders(elig, b) : winner = Snap(w, b[w])
      BY <1>11, <2>3, <2>4 DEF Winners
    <2> QED BY <1>2, <1>5, <1>6, <1>14, <2>1, <2>5, FirstPasses
  <1>15. ASSUME burn
         PROVE  winner = s
    <2>1. \A m \in Miners \ {s.uid} : ~Beats(b[m], s.reward)
      BY <1>3, <1>8, <1>15
    <2>2. CASE s # NoSnapshot
      BY <1>6, <1>13, <2>1, <2>2 DEF Passes
    <2>3. CASE s = NoSnapshot
      <3>1. \A m \in Miners : b[m] = 0
        <4>1. SUFFICES ASSUME NEW m \in Miners PROVE b[m] = 0
          OBVIOUS
        <4>2. m # NoMiner /\ b[m] \in Nat
          BY <1>6, MinersAssumption DEF NoMiner, MinersAssumption
        <4>3. ~Beats(b[m], 0)
          BY <2>1, <2>3, <4>2 DEF NoSnapshot
        <4> QED BY <4>2, <4>3, BeatsVacant
      <3>2. Contenders(elig, b) = {}
        BY <1>5, <3>1 DEF Contenders, Top
      <3> QED BY <1>11, <2>3, <3>2 DEF Winners
    <2> QED BY <2>2, <2>3
  <1>16. /\ winner # NoSnapshot =>
              winner.uid \in Miners /\ winner.reward > 0 /\ b[winner.uid] = winner.reward
         /\ \A m \in Miners \ {winner.uid} : ~Beats(b[m], winner.reward)
    <2>1. CASE burn
      BY <1>3, <1>8, <1>9, <1>15, <2>1
    <2>2. CASE ~burn
      <3>1. Passes(s, b, rew, winner)
        BY <1>13, <1>14, <2>2
      <3>2. s # NoSnapshot => s.uid \in Miners /\ s.reward > 0 /\ b[s.uid] = s.reward
        BY <1>3, <1>9
      <3> QED BY <1>1, <1>6, <3>1, <3>2, PassesStands
    <2> QED BY <2>1, <2>2
  <1>17. LeaderAfter(round - 1)' = LeaderAfter(round)
    BY <1>1, <1>11, <1>12 DEF LeaderAfter, TypeOK
  <1>18. ASSUME ~burn
         PROVE  Normalized(verdict.rew)' = {winner}
    <2>1. \/ LeaderAfter(round - 1)' = NoSnapshot
          \/ LeaderAfter(round - 1)' = s
      BY <1>3, <1>17
    <2> DEFINE c0 == Canonical(cand, rew)
    <2>2. verdict'.before = s /\ verdict'.candidate = cand /\ verdict'.winner = winner
            /\ verdict'.rew = rew
      BY <1>11
    <2>3. Normalized(verdict.rew)' =
            IF s = NoSnapshot
            THEN IF c0 # NoSnapshot THEN {c0}
                 ELSE IF Canonical(winner, rew) # NoSnapshot THEN {Canonical(winner, rew)}
                      ELSE TopOfRound(rew, NoMiner)
            ELSE {IF Beats(c.reward, s.reward) THEN c ELSE s :
                    c \in IF c0 # NoSnapshot THEN {c0} ELSE TopOfRound(rew, s.uid)}
      BY <2>1, <2>2 DEF Normalized
    <2>4. CASE s = NoSnapshot
      <3>1. cand = NoSnapshot
        BY <2>4 DEF Candidate, Challengers, NoSnapshot
      <3>2. c0 = NoSnapshot
        BY <3>1, MinersAssumption DEF Canonical, Listed, NoSnapshot, NoMiner, MinersAssumption
      <3> QED BY <1>14, <1>18, <2>3, <2>4, <3>2
    <2>5. CASE s # NoSnapshot
      <3>1. \A c \in (IF c0 # NoSnapshot THEN {c0} ELSE TopOfRound(rew, s.uid)) :
              (IF Beats(c.reward, s.reward) THEN c ELSE s) = winner
        BY <1>1, <1>2, <1>3, <1>5, <1>6, <1>10, <1>13, <2>5, StagesAgree
      <3>2. (IF c0 # NoSnapshot THEN {c0} ELSE TopOfRound(rew, s.uid)) # {}
        BY DEF TopOfRound
      <3> HIDE DEF c0
      <3> QED BY <2>3, <2>5, <3>1, <3>2
    <2> QED BY <2>4, <2>5
  <1>19. CalmInv'
    <2>1. snapshot' = current'
      BY <1>3, <1>11, <1>15
    <2>2. \A k \in Rounds : k > n => leader'[k] = NoSnapshot
      BY <1>1, <1>3, <1>11 DEF TypeOK, Rounds
    <2>3. leader'[n] = IF burn THEN NoSnapshot ELSE winner
      BY <1>1, <1>11 DEF TypeOK
    <2>4. \A m \in Miners \ {current'.uid} : ~Beats(best[m], current.reward)'
      BY <1>11, <1>12, <1>16 DEF Beats
    <2>5. /\ Listed(verdict.rew)' = Miners
          /\ ~verdict'.burn => Normalized(verdict.rew)' = {current'}
          /\ verdict'.burn = burn
      BY <1>2, <1>11, <1>18
    <2> QED BY <1>1, <1>11, <1>12, <1>16, <2>1, <2>2, <2>3, <2>4, <2>5 DEF CalmInv
  <1>20. ASSUME current.uid \in elig, current'.uid # current.uid
         PROVE  Beats(current'.reward, current.reward)
    <2>1. s # NoSnapshot
      BY <1>20, MinersAssumption DEF NoSnapshot, NoMiner, MinersAssumption
    <2> QED BY <1>11, <1>13, <1>20, <2>1 DEF Dethroned
  <1> QED BY <1>19, <1>20

LEMMA CalmNext ==
    TypeOK /\ CalmInv /\ [Next]_vars => CalmInv'
PROOF
  <1> SUFFICES ASSUME TypeOK, CalmInv, [Next]_vars, calm' PROVE CalmInv'
    BY DEF CalmInv
  <1>1. ASSUME NEW elig \in SUBSET Miners, NEW rew \in RoundRewards, Settle(elig, rew)
        PROVE  CalmInv'
    BY <1>1, CalmSettle
  <1>2. ASSUME NEW rew \in RoundRewards, FinishRound(rew)
        PROVE  CalmInv'
    <2>1. /\ pc = "settled" /\ pc' = "idle" /\ calm /\ round \in Rounds
          /\ UNCHANGED <<round, best, current, snapshot>>
          /\ Listed(verdict.rew) = Miners
          /\ leader[round] = IF verdict.burn THEN NoSnapshot ELSE current
          /\ ~verdict.burn => Normalized(verdict.rew) = {current}
      BY <1>2 DEF FinishRound, CalmInv
    <2>2. rew = verdict.rew /\ Listed(rew) # {}
      BY <1>2, <2>1, MinersAssumption DEF FinishRound, ReportedRewards, MinersAssumption
    <2>3. leader' = [leader EXCEPT ![round] = IF verdict.burn THEN NoSnapshot ELSE current]
      BY <1>2, <2>1, <2>2 DEF FinishRound
    <2>4. LeaderAfter(round)' \in {NoSnapshot, current}
      BY <2>1, <2>3 DEF LeaderAfter, TypeOK
    <2>5. \A n \in Rounds : n > round => leader'[n] = NoSnapshot
      BY <2>1, <2>3 DEF CalmInv, TypeOK, Rounds
    <2> QED BY <2>1, <2>4, <2>5 DEF CalmInv, Beats
  <1>3. CASE FinishOffline
    <2>1. /\ pc = "settled" /\ pc' = "idle" /\ calm
          /\ UNCHANGED <<round, best, current, snapshot, leader>>
      BY <1>3 DEF FinishOffline
    <2>2. LeaderAfter(round)' \in {NoSnapshot, current}
      BY <2>1 DEF CalmInv, LeaderAfter
    <2> QED BY <2>1, <2>2 DEF CalmInv, Beats
  <1>4. CASE SkipRound
    <2>1. /\ pc = "idle" /\ pc' = "idle" /\ calm /\ round' = round + 1 /\ round < LastRound
          /\ UNCHANGED <<best, current, snapshot, leader>>
      BY <1>4 DEF SkipRound
    <2>2. round \in Int /\ \A n \in Rounds : n \in Int
      BY ThroneType DEF Rounds
    <2>3. LeaderAfter(round)' = NoSnapshot
      BY <2>1, <2>2 DEF CalmInv, LeaderAfter
    <2>4. \A n \in Rounds : n > round' => leader'[n] = NoSnapshot
      BY <2>1, <2>2 DEF CalmInv
    <2> QED BY <2>1, <2>3, <2>4 DEF CalmInv, Beats
  <1>5. ASSUME NEW torn \in {{}} \cup {{n} : n \in Rounds}, Restart(torn)
        PROVE  CalmInv'
    BY <1>5 DEF Restart
  <1>6. ASSUME NEW n \in Rounds, LoadRound(n)
        PROVE  CalmInv'
    BY <1>6 DEF LoadRound, CalmInv
  <1>7. CASE Loaded
    BY <1>7 DEF Loaded, CalmInv
  <1>8. CASE UNCHANGED vars
    <2>1. UNCHANGED <<pc, round, best, current, snapshot, leader, verdict, calm>>
      BY <1>8 DEF vars
    <2>2. Normalized(verdict.rew)' = Normalized(verdict.rew)
      BY <2>1 DEF Normalized, LeaderAfter
    <2> QED BY <2>1, <2>2 DEF CalmInv, LeaderAfter, Beats
  <1>9. CASE SeasonOver
    BY <1>8, <1>9 DEF SeasonOver
  <1> QED BY <1>1, <1>2, <1>3, <1>4, <1>5, <1>6, <1>7, <1>8, <1>9 DEF Next

\* In a calm season the winner is paid again until beaten by the threshold.
THEOREM WinnersAreKept == Spec => WinnerKeptUntilBeaten
PROOF
  <1>1. Init => CalmInv
    <2> SUFFICES ASSUME Init PROVE CalmInv
      OBVIOUS
    <2>1. LeaderAfter(round) = NoSnapshot
      BY RoundsAssumption DEF Init, LeaderAfter, Rounds, RoundsAssumption
    <2>2. \A m \in Miners : ~Beats(best[m], current.reward)
      BY BeatsVacant DEF Init, NoSnapshot
    <2> QED BY <2>1, <2>2 DEF Init, CalmInv
  <1>2. TypeOK /\ CalmInv /\ [Next]_vars =>
          [calm' /\ pc = "idle" /\ pc' = "settled" /\ current.uid \in verdict'.elig
             /\ current'.uid # current.uid
           => Beats(current'.reward, current.reward)]_vars
    <2> SUFFICES ASSUME TypeOK, CalmInv, Next,
                        calm', pc = "idle", pc' = "settled", current.uid \in verdict'.elig,
                        current'.uid # current.uid
                 PROVE  Beats(current'.reward, current.reward)
      OBVIOUS
    <2>1. PICK elig \in SUBSET Miners, rew \in RoundRewards : Settle(elig, rew)
      BY DEF Next, FinishRound, FinishOffline, SkipRound, Restart, LoadRound, Loaded,
             SeasonOver, vars
    <2>2. verdict'.elig = elig
      BY <2>1 DEF Settle
    <2> QED BY <2>1, <2>2, CalmSettle
  <1>3. TypeOK /\ CalmInv /\ [Next]_vars => CalmInv'
    BY CalmNext
  <1> QED BY <1>1, <1>2, <1>3, TypeInit, TypeNext, PTL DEF Spec, WinnerKeptUntilBeaten
=============================================================================
