---------------------------- MODULE Weights_proofs ----------------------------
(* Theorems about Weights, for every set of uids and every bound. *)
EXTENDS Weights, TLAPS

\* The scores s belong to the hotkeys h, computed for o, but for the uids a
\* settlement put back.
Belongs(s, h, o, excused) == \A u \in Uids \ excused : s[u] > 0 => h[u] = o[u]

\* What a refresh under way has zeroed is zero, or was put back.
ZeroedIsZero == \A u \in zeroed : scores[u] = 0 \/ u \in overlapped

IInv ==
  /\ TypeOK
  /\ ReplacedIsZeroed
  /\ ZeroedIsZero
  /\ Belongs(saved.scores, saved.hotkeys, saved.owner, saved.overlapped)

-------------------------------------------------------------------------------
\* What a settlement computes is a vector of natural numbers.
LEMMA VectorsTyped ==
  /\ Nothing \in Vectors
  /\ Burned \in Vectors
  /\ \A w \in Uids : Distribution(w) \in Vectors
<1>1. Nothing \in Vectors /\ Burned \in Vectors
  BY WeightsAssumption DEF Nothing, Burned, Vectors
<1>2. ASSUME NEW w \in Uids PROVE Distribution(w) \in Vectors
  <2>1. Whole \in Nat /\ BurnShare \in Nat /\ Whole - BurnShare \in Nat
    BY WeightsAssumption
  <2>2. ASSUME NEW u \in Uids
        PROVE  (IF u = w THEN Whole - BurnShare ELSE 0)
                 + (IF u = Burn THEN BurnShare ELSE 0) \in Nat
    BY <2>1
  <2> QED BY <2>2 DEF Distribution, Vectors
<1> QED BY <1>1, <1>2

\* What is emitted is a vector whenever the scores are one.
LEMMA EmittedTyped == ASSUME NEW s \in Vectors PROVE Emitted(s) \in Vectors
  BY VectorsTyped DEF Emitted

\* A thread is not the absence of one.
LEMMA ThreadsAreSome == None \notin Threads
  BY WeightsAssumption DEF Threads

-------------------------------------------------------------------------------
LEMMA InitOK == Init => IInv
<1> SUFFICES ASSUME Init PROVE IInv
  OBVIOUS
<1>1. TypeOK
  <2>1. pc \in [Threads -> {"idle", "sync", "round", "rewarded", "set", "send",
                            "resync", "zero", "decide", "save", "dead"}]
    BY DEF Init, Rest
  <2>2. \A t \in Threads : pc[t] \in {"idle", "sync"}
    BY DEF Init, Rest
  <2>3. saved \in [step: {0, 1}, scores: Vectors, hotkeys: Vectors,
                   owner: Vectors, overlapped: SUBSET Uids]
    BY VectorsTyped DEF Init
  <2>4. rewards \in [shares: Vectors, owner: Vectors]
    BY VectorsTyped DEF Init, NoRewards
  <2>5. sending \in [Threads -> Vectors]
    BY VectorsTyped DEF Init
  <2>6. settlements \in 0..MaxSettlements /\ replacements \in 0..MaxReplacements
        /\ faults \in 0..MaxFaults /\ restarts \in 0..MaxRestarts
    BY WeightsAssumption DEF Init
  <2> QED BY <2>1, <2>2, <2>3, <2>4, <2>5, <2>6, VectorsTyped DEF Init, TypeOK, PcOK
<1>2. ReplacedIsZeroed
  BY DEF Init, Nothing, ReplacedIsZeroed
<1>3. Belongs(saved.scores, saved.hotkeys, saved.owner, saved.overlapped)
  BY DEF Init, Nothing, Belongs
<1>4. ZeroedIsZero
  BY DEF Init, ZeroedIsZero
<1> QED BY <1>1, <1>2, <1>3, <1>4 DEF IInv

-------------------------------------------------------------------------------
\* The steps that keep the types, one lemma for each kind.
LEMMA ChainTyped ==
  ASSUME TypeOK, EpochPasses \/ \E u \in Uids : Replace(u)
  PROVE  TypeOK'
<1>1. CASE EpochPasses
  BY <1>1 DEF TypeOK, PcOK, EpochPasses, threads, history, bounds
<1>2. ASSUME NEW u \in Uids, Replace(u) PROVE TypeOK'
  <2>1. registered' \in Vectors
    BY <1>2 DEF TypeOK, Replace, Vectors
  <2>2. replacements' \in 0..MaxReplacements
    BY <1>2, WeightsAssumption DEF TypeOK, Replace
  <2> QED BY <1>2, <2>1, <2>2
        DEF TypeOK, PcOK, Replace, local, threads, history
<1> QED BY <1>1, <1>2

\* A round that pays or burns.
LEMMA RewardTyped ==
  ASSUME TypeOK, NEW shares \in Vectors, Reward(shares) PROVE TypeOK'
<1>1. settlements' \in 0..MaxSettlements
  BY WeightsAssumption DEF TypeOK, Reward
<1>2. rewards' \in [shares: Vectors, owner: Vectors]
  BY DEF TypeOK, Reward
<1>3. PcOK'
  BY DEF TypeOK, PcOK, Reward, Goto, Threads
<1> QED BY <1>1, <1>2, <1>3 DEF TypeOK, PcOK, Reward, chain, history

LEMMA ForwardTyped == ASSUME TypeOK, Forward PROVE TypeOK'
<1>1. CASE PayWinner \/ BurnAll
  BY <1>1, RewardTyped, VectorsTyped DEF PayWinner, BurnAll
<1>2. CASE UpdateScores
  <2>1. scores' \in Vectors /\ settled' \in Vectors /\ owner' \in Vectors
    BY <1>2 DEF TypeOK, UpdateScores
  <2>2. overlapped' \subseteq Uids /\ lost' \in BOOLEAN
    BY <1>2 DEF TypeOK, UpdateScores
  <2>3. rewards' \in [shares: Vectors, owner: Vectors]
    BY <1>2, VectorsTyped DEF UpdateScores, NoRewards
  <2>4. PcOK'
    BY <1>2 DEF TypeOK, PcOK, UpdateScores, Goto, Threads
  <2> QED BY <1>2, <2>1, <2>2, <2>3, <2>4
        DEF TypeOK, PcOK, UpdateScores, chain, bounds
<1>3. CASE KeepWeights \/ SettleNothing
  <2>1. PcOK'
    BY <1>3 DEF TypeOK, PcOK, KeepWeights, SettleNothing, Goto, Threads
  <2> QED BY <1>3, <2>1
        DEF TypeOK, PcOK, KeepWeights, SettleNothing, chain, history, bounds
<1>4. CASE SetWeights
  <2>1. PcOK'
    BY <1>4 DEF TypeOK, PcOK, SetWeights, Send, Goto, Threads
  <2>2. sending' \in [Threads -> Vectors]
    BY <1>4 DEF TypeOK, SetWeights, Send
  <2> QED BY <1>4, <2>1, <2>2
        DEF TypeOK, PcOK, SetWeights, chain, local, history, bounds
<1> QED BY <1>1, <1>2, <1>3, <1>4 DEF Forward

\* Emissions, accepted or not.
LEMMA AnsweredTyped ==
  ASSUME TypeOK, NEW t \in Threads, Answered(t) PROVE TypeOK'
<1>1. PcOK'
  BY DEF TypeOK, PcOK, Answered, Goto
<1>2. sending' \in [Threads -> Vectors]
  BY VectorsTyped DEF TypeOK, Answered, Forget
<1>3. weights' \in Vectors /\ due' \in BOOLEAN /\ registered' \in Vectors
  <2>1. sending[t] \in Vectors
    BY DEF TypeOK
  <2>2. Emitted(sending[t]) \in Vectors
    BY <2>1, EmittedTyped
  <2> QED BY <2>2 DEF TypeOK, PcOK, Answered, Accept, chain
<1>4. settlements' \in 0..MaxSettlements /\ replacements' \in 0..MaxReplacements
      /\ faults' \in 0..MaxFaults /\ restarts' \in 0..MaxRestarts
  BY WeightsAssumption DEF TypeOK, Answered, Fault, bounds
<1> QED BY <1>1, <1>2, <1>3, <1>4 DEF TypeOK, PcOK, Answered, local, history

LEMMA DiesTyped == ASSUME TypeOK, Dies PROVE TypeOK'
<1>1. PcOK'
  BY DEF TypeOK, PcOK, Dies, Goto, Threads
<1>2. sending' \in [Threads -> Vectors]
  BY VectorsTyped DEF TypeOK, Dies, Forget
<1>3. weights' \in Vectors /\ due' \in BOOLEAN /\ registered' \in Vectors
  <2>1. sending["forward"] \in Vectors
    BY DEF TypeOK, Threads
  <2>2. Emitted(sending["forward"]) \in Vectors
    BY <2>1, EmittedTyped
  <2> QED BY <2>2 DEF TypeOK, PcOK, Dies, Accept, chain
<1>4. faults' \in 0..MaxFaults
  BY WeightsAssumption DEF TypeOK, Dies, Fault
<1> QED BY <1>1, <1>2, <1>3, <1>4 DEF TypeOK, PcOK, Dies, local, history

-------------------------------------------------------------------------------
\* The steps of a sync.
LEMMA BeginSyncTyped ==
  ASSUME TypeOK, NEW t \in Threads, BeginSync(t) PROVE TypeOK'
<1>1. pc' \in [Threads -> {"idle", "sync", "round", "rewarded", "set", "send",
                           "resync", "zero", "decide", "save", "dead"}]
  BY DEF TypeOK, PcOK, BeginSync, Goto
<1>2. \A v \in Threads : pc[v] \notin {"resync", "zero", "decide", "save"}
  BY ThreadsAreSome DEF TypeOK, PcOK, BeginSync, Unlocked
<1>3. \A v \in Threads : pc'[v] \in {"resync", "zero", "decide", "save"}
                           => lock' = v
  BY <1>2 DEF TypeOK, PcOK, BeginSync, Goto
<1> QED BY <1>1, <1>3 DEF TypeOK, PcOK, BeginSync, chain, local, history, bounds

LEMMA ResyncTyped ==
  ASSUME TypeOK, NEW t \in Threads, Resync(t) PROVE TypeOK'
<1>1. PICK label \in {"zero", "decide"} : Goto(t, label)
  BY DEF Resync
<1>2. PcOK'
  BY <1>1 DEF TypeOK, PcOK, Resync, Goto
<1>3. metagraph' \in Vectors /\ overdue' \in BOOLEAN
  BY DEF TypeOK, Resync
<1> QED BY <1>2, <1>3 DEF TypeOK, PcOK, Resync, chain, history, bounds

LEMMA ZeroReplacedTyped ==
  ASSUME TypeOK, NEW t \in Threads, ZeroReplaced(t) PROVE TypeOK'
<1>1. PICK u \in Uids : /\ scores' = [scores EXCEPT ![u] = 0]
                        /\ zeroed' = zeroed \cup {u}
                        /\ overlapped' = overlapped \ {u}
  BY DEF ZeroReplaced, Replaced
<1>2. scores' \in Vectors /\ zeroed' \subseteq Uids /\ overlapped' \subseteq Uids
  BY <1>1 DEF TypeOK, Vectors
<1> QED BY <1>2 DEF TypeOK, PcOK, ZeroReplaced, chain, bounds

LEMMA UpdateHotkeysTyped ==
  ASSUME TypeOK, NEW t \in Threads, UpdateHotkeys(t) PROVE TypeOK'
<1>1. PcOK'
  BY DEF TypeOK, PcOK, UpdateHotkeys, Goto
<1> QED BY <1>1 DEF TypeOK, PcOK, UpdateHotkeys, chain, history, bounds

LEMMA ShouldSetWeightsTyped ==
  ASSUME TypeOK, NEW t \in Threads, ShouldSetWeights(t) PROVE TypeOK'
<1>1. PICK label \in {"send", "save"} : Goto(t, label)
  BY DEF ShouldSetWeights, Send
<1>2. PcOK'
  BY <1>1 DEF TypeOK, PcOK, ShouldSetWeights, Goto
<1>3. sending' \in [Threads -> Vectors]
  BY DEF TypeOK, ShouldSetWeights, Send
<1> QED BY <1>2, <1>3
      DEF TypeOK, PcOK, ShouldSetWeights, chain, local, history, bounds

\* The end of a sync, whether it saved or not.
LEMMA EndSyncTyped ==
  ASSUME TypeOK, NEW t \in Threads, lock = t, EndSync(t)
  PROVE  /\ PcOK'
         /\ sending' \in [Threads -> Vectors]
         /\ step' \in {0, 1}
<1>1. Resume(t) \in {"round", "idle"}
  BY DEF Resume
<1>2. pc' = [pc EXCEPT ![t] = Resume(t)]
  BY DEF EndSync, Goto
<1>3. \A v \in Threads \ {t} : pc[v] \notin {"resync", "zero", "decide", "save"}
  BY DEF TypeOK, PcOK
<1>4. pc' \in [Threads -> {"idle", "sync", "round", "rewarded", "set", "send",
                           "resync", "zero", "decide", "save", "dead"}]
  BY <1>1, <1>2 DEF TypeOK, PcOK
<1>5. \A v \in Threads : pc'[v] \notin {"resync", "zero", "decide", "save"}
  BY <1>1, <1>2, <1>3 DEF TypeOK, PcOK
<1>6. sending' \in [Threads -> Vectors]
  BY VectorsTyped DEF TypeOK, EndSync, Forget
<1>7. step' \in {0, 1}
  BY DEF TypeOK, EndSync
<1> QED BY <1>4, <1>5, <1>6, <1>7 DEF PcOK

LEMMA SaveStateTyped ==
  ASSUME TypeOK, NEW t \in Threads, SaveState(t) PROVE TypeOK'
<1>1. lock = t /\ EndSync(t)
  BY DEF TypeOK, PcOK, SaveState
<1>2. saved' \in [step: {0, 1}, scores: Vectors, hotkeys: Vectors,
                  owner: Vectors, overlapped: SUBSET Uids]
  BY DEF TypeOK, SaveState
<1>3. lock' = None
  BY <1>1 DEF EndSync
<1> QED BY <1>1, <1>2, <1>3, EndSyncTyped
      DEF TypeOK, PcOK, SaveState, EndSync, chain, history, bounds

LEMMA SyncFailsTyped ==
  ASSUME TypeOK, NEW t \in Threads, SyncFails(t) PROVE TypeOK'
<1>1. lock = t /\ EndSync(t)
  BY DEF SyncFails
<1>2. weights' \in Vectors /\ due' \in BOOLEAN /\ registered' \in Vectors
  <2>1. sending[t] \in Vectors
    BY DEF TypeOK
  <2>2. Emitted(sending[t]) \in Vectors
    BY <2>1, EmittedTyped
  <2> QED BY <2>2 DEF TypeOK, PcOK, SyncFails, Accept, chain
<1>3. faults' \in 0..MaxFaults
  BY WeightsAssumption DEF TypeOK, SyncFails, Fault
<1> QED BY <1>1, <1>2, <1>3, EndSyncTyped
      DEF TypeOK, PcOK, SyncFails, EndSync, history

LEMMA BootTyped ==
  ASSUME TypeOK,
         NEW file \in [step: {0, 1}, scores: Vectors, hotkeys: Vectors,
                       owner: Vectors, overlapped: SUBSET Uids],
         Boot(file), faults' \in 0..MaxFaults
  PROVE  TypeOK'
<1>1. pc' \in [Threads -> {"idle", "sync", "round", "rewarded", "set", "send",
                           "resync", "zero", "decide", "save", "dead"}]
      /\ \A v \in Threads : pc'[v] \notin {"resync", "zero", "decide", "save"}
  BY DEF Boot, Rest
<1>2. rewards' \in [shares: Vectors, owner: Vectors]
      /\ sending' \in [Threads -> Vectors]
  BY VectorsTyped DEF Boot, NoRewards
<1>3. restarts' \in 0..MaxRestarts
  BY WeightsAssumption DEF TypeOK, Boot
<1>4. step' \in {0, 1} /\ scores' \in Vectors /\ hotkeys' \in Vectors
      /\ owner' \in Vectors /\ overlapped' \subseteq Uids /\ lost' \in BOOLEAN
      /\ begun' \in BOOLEAN /\ zeroed' = {}
  BY DEF TypeOK, Boot, LoadedHotkeys
<1>5. lock' = None /\ saved' = file /\ metagraph' = registered /\ overdue' = due
      /\ UNCHANGED <<registered, weights, due, settled, settlements, replacements>>
  BY DEF Boot, chain
<1> QED BY <1>1, <1>2, <1>3, <1>4, <1>5 DEF TypeOK, PcOK

LEMMA FreshTyped ==
  ASSUME TypeOK
  PROVE  Fresh \in [step: {0, 1}, scores: Vectors, hotkeys: Vectors,
                    owner: Vectors, overlapped: SUBSET Uids]
  BY VectorsTyped DEF Fresh, TypeOK

LEMMA RestartsTyped == ASSUME TypeOK, Restart \/ RestartUnsaved PROVE TypeOK'
<1>1. CASE Restart
  BY <1>1, BootTyped, FreshTyped DEF Restart, TypeOK, PcOK
<1>2. CASE RestartUnsaved
  <2>1. faults' \in 0..MaxFaults
    BY <1>2, WeightsAssumption DEF TypeOK, RestartUnsaved, Fault
  <2>2. saved \in [step: {0, 1}, scores: Vectors, hotkeys: Vectors,
                   owner: Vectors, overlapped: SUBSET Uids]
    BY DEF TypeOK
  <2> QED BY <1>2, <2>1, <2>2, BootTyped DEF RestartUnsaved
<1> QED BY <1>1, <1>2

LEMMA StepTyped == ASSUME TypeOK, [Next]_vars PROVE TypeOK'
<1>1. CASE UNCHANGED vars
  BY <1>1 DEF TypeOK, PcOK, vars, chain, local, threads, history, bounds
<1>2. CASE EpochPasses \/ \E u \in Uids : Replace(u)
  BY <1>2, ChainTyped
<1>3. CASE Forward
  BY <1>3, ForwardTyped
<1>4. CASE Dies
  BY <1>4, DiesTyped
<1>5. ASSUME NEW t \in Threads, Sync(t) \/ SyncFails(t) PROVE TypeOK'
  BY <1>5, BeginSyncTyped, ResyncTyped, ZeroReplacedTyped, UpdateHotkeysTyped,
     ShouldSetWeightsTyped, AnsweredTyped, SaveStateTyped, SyncFailsTyped
     DEF Sync
<1>6. CASE Restart \/ RestartUnsaved
  BY <1>6, RestartsTyped
<1> QED BY <1>1, <1>2, <1>3, <1>4, <1>5, <1>6 DEF Next

\* The types: whatever the threads, the chain and the restarts do, the
\* threads that are inside a sync are the one that holds the lock.
THEOREM TypeCorrect == Spec => []TypeOK
<1>1. Init => TypeOK
  BY InitOK DEF IInv
<1>2. TypeOK /\ [Next]_vars => TypeOK'
  BY StepTyped
<1> QED BY <1>1, <1>2, PTL DEF Spec

-------------------------------------------------------------------------------
\* A file and the scores in memory never mix the scores of one hotkey with
\* the name of another.
LEMMA StepBelongs == ASSUME IInv, [Next]_vars PROVE IInv'
<1> DEFINE File == Belongs(saved.scores, saved.hotkeys, saved.owner, saved.overlapped)
<1> USE DEF IInv
<1>0. TypeOK'
  BY StepTyped
<1>1. ASSUME UNCHANGED <<scores, hotkeys, owner, overlapped, saved, zeroed>> PROVE IInv'
  BY <1>0, <1>1 DEF ReplacedIsZeroed, ZeroedIsZero, Belongs
<1>2. CASE UNCHANGED vars
  BY <1>1, <1>2 DEF vars, local, threads, history
<1>3. CASE EpochPasses \/ \E u \in Uids : Replace(u)
  BY <1>1, <1>3 DEF EpochPasses, Replace, local, threads, history
<1>4. CASE Forward
  <2>1. CASE UpdateScores
    <3>1. /\ overlapped' = {u \in Uids : hotkeys[u] # rewards.owner[u]} \cup zeroed
          /\ owner' = rewards.owner
          /\ UNCHANGED <<hotkeys, zeroed, saved>>
      BY <2>1 DEF UpdateScores
    <3>2. ReplacedIsZeroed' /\ ZeroedIsZero'
      BY <3>1 DEF ReplacedIsZeroed, ZeroedIsZero
    <3> QED BY <1>0, <3>1, <3>2 DEF Belongs
  <2>2. CASE PayWinner \/ BurnAll
    BY <1>1, <2>2 DEF PayWinner, BurnAll, Reward, history
  <2>3. CASE KeepWeights \/ SettleNothing
    BY <1>1, <2>3 DEF KeepWeights, SettleNothing, history
  <2>4. CASE SetWeights
    BY <1>1, <2>4 DEF SetWeights, local, history
  <2> QED BY <1>4, <2>1, <2>2, <2>3, <2>4 DEF Forward
<1>5. CASE Dies
  BY <1>1, <1>5 DEF Dies, local, history
<1>6. ASSUME NEW t \in Threads, Sync(t) \/ SyncFails(t) PROVE IInv'
  <2>1. CASE ZeroReplaced(t)
    <3>1. PICK u \in Uids : /\ scores' = [scores EXCEPT ![u] = 0]
                            /\ zeroed' = zeroed \cup {u}
                            /\ overlapped' = overlapped \ {u}
      BY <2>1 DEF ZeroReplaced, Replaced
    <3>2. UNCHANGED <<hotkeys, owner, saved>>
      BY <2>1 DEF ZeroReplaced
    <3>3. scores'[u] = 0 /\ \A v \in Uids \ {u} : scores'[v] = scores[v]
      BY <3>1 DEF TypeOK, Vectors
    <3>4. ReplacedIsZeroed'
      BY <3>1, <3>2, <3>3 DEF ReplacedIsZeroed
    <3>5. ZeroedIsZero'
      BY <3>1, <3>3 DEF ZeroedIsZero, TypeOK
    <3> QED BY <1>0, <3>2, <3>4, <3>5 DEF Belongs
  <2>2. CASE UpdateHotkeys(t)
    <3>1. hotkeys' = metagraph /\ Replaced \subseteq zeroed /\ zeroed' = {}
          /\ UNCHANGED <<scores, owner, overlapped, saved>>
      BY <2>2 DEF UpdateHotkeys, history
    <3>2. ASSUME NEW u \in Uids \ overlapped, scores[u] > 0 PROVE metagraph[u] = owner[u]
      <4>1. scores[u] # 0
        BY <3>2
      <4>2. u \notin zeroed
        BY <3>2, <4>1 DEF ZeroedIsZero
      <4>3. metagraph[u] = hotkeys[u]
        BY <3>1, <4>2 DEF Replaced
      <4> QED BY <3>2, <4>3 DEF ReplacedIsZeroed
    <3>3. ReplacedIsZeroed'
      BY <3>1, <3>2 DEF ReplacedIsZeroed
    <3> QED BY <1>0, <3>1, <3>3 DEF ZeroedIsZero, Belongs
  <2>3. CASE SaveState(t)
    <3>1. UNCHANGED <<scores, hotkeys, owner, overlapped, zeroed>>
      BY <2>3 DEF SaveState, EndSync, history
    <3>2. saved' = [step |-> step, scores |-> scores, hotkeys |-> hotkeys,
                    owner |-> owner, overlapped |-> overlapped]
      BY <2>3 DEF SaveState
    <3> QED BY <1>0, <3>1, <3>2 DEF ReplacedIsZeroed, ZeroedIsZero, Belongs
  <2>4. CASE BeginSync(t) \/ Resync(t) \/ ShouldSetWeights(t) \/ Answered(t)
    BY <1>1, <2>4
       DEF BeginSync, Resync, ShouldSetWeights, Answered, local, history
  <2>5. CASE SyncFails(t)
    BY <1>1, <2>5 DEF SyncFails, EndSync, history
  <2> QED BY <1>6, <2>1, <2>2, <2>3, <2>4, <2>5 DEF Sync
<1>7. CASE Restart
  <2>1. saved' = Fresh /\ scores' = Nothing /\ zeroed' = {}
    BY <1>7 DEF Restart, Boot, Fresh
  <2>2. ReplacedIsZeroed' /\ ZeroedIsZero'
    BY <2>1 DEF ReplacedIsZeroed, ZeroedIsZero, Nothing
  <2>3. File'
    BY <2>1 DEF Belongs, Fresh, Nothing
  <2> QED BY <1>0, <2>2, <2>3
<1>8. CASE RestartUnsaved
  <2>1. saved' = saved /\ scores' = saved.scores /\ hotkeys' = saved.hotkeys
        /\ owner' = saved.owner /\ overlapped' = saved.overlapped /\ zeroed' = {}
    BY <1>8 DEF RestartUnsaved, Boot, LoadedHotkeys
  <2> QED BY <1>0, <2>1 DEF ReplacedIsZeroed, ZeroedIsZero, Belongs
<1> QED BY <1>2, <1>3, <1>4, <1>5, <1>6, <1>7, <1>8 DEF Next

\* Scores follow their hotkeys: no refresh, save, failed sync or restart
\* leaves the reward of a hotkey on a uid the validator knows to be another's,
\* wherever the round thread replaces the scores in between, but for the uids
\* that this very replacement puts back.
THEOREM ScoresFollowHotkeys == Spec => []ReplacedIsZeroed
<1>1. Init => IInv
  BY InitOK
<1>2. IInv /\ [Next]_vars => IInv'
  BY StepBelongs
<1>3. IInv => ReplacedIsZeroed
  BY DEF IInv
<1> QED BY <1>1, <1>2, <1>3, PTL DEF Spec
===============================================================================
