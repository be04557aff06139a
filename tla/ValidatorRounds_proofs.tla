------------------------ MODULE ValidatorRounds_proofs ------------------------
(***************************************************************************)
(* What holds of the validators' rounds for any number of validators, any  *)
(* clock, any cache lag and whatever fails: the clock is consistent (the   *)
(* three pieces of the code that compute seasons and rounds agree on every *)
(* block from the launch on), a round has one name, no vote of an earlier  *)
(* round is ever counted, whoever is in time is counted, and no round is   *)
(* started twice.                                                          *)
(***************************************************************************)
EXTENDS ValidatorRounds, TLAPS

-----------------------------------------------------------------------------
(* Division.                                                               *)

\* The quotient of a natural number is the natural number that brackets it.
LEMMA Quotient ==
    ASSUME NEW a \in Nat, NEW d \in Nat, d > 0
    PROVE  /\ a \div d \in Nat
           /\ d * (a \div d) <= a
           /\ a < d * (a \div d) + d
<1> DEFINE q == a \div d
<1>1. q \in Int /\ d * q <= a /\ a < d * q + d
  OBVIOUS
<1> HIDE DEF q
<1>2. q >= 0
  <2>1. SUFFICES ASSUME q < 0 PROVE FALSE
    BY <1>1
  <2>2. q + 1 <= 0
    BY <1>1, <2>1
  <2>3. d * (q + 1) <= 0
    BY <1>1, <2>2, SMT
  <2>4. d * (q + 1) = d * q + d
    BY <1>1, SMT
  <2> QED
    BY <1>1, <2>3, <2>4
<1>3. QED
  BY <1>1, <1>2 DEF q

\* A natural number that brackets a is its quotient.
LEMMA QuotientUnique ==
    ASSUME NEW a \in Nat, NEW d \in Nat, d > 0, NEW q \in Nat,
           d * q <= a, a < d * q + d
    PROVE  a \div d = q
OBVIOUS

\* A product is bounded by a factor's bound.
LEMMA ProductBound ==
    ASSUME NEW p \in Int, NEW q \in Int, NEW d \in Nat, d > 0, d * q < d * p
    PROVE  q + 1 <= p
OBVIOUS

-----------------------------------------------------------------------------
(* Seasons and rounds.                                                     *)

\* The sizes are positive.
LEMMA Sizes ==
    /\ MinimumStartBlock \in Nat
    /\ RoundLength \in Nat /\ RoundLength > 0
    /\ RoundsPerSeason \in Nat /\ RoundsPerSeason > 0
    /\ SeasonLength \in Nat /\ SeasonLength > 0
    /\ FetchPct \in 0..100 /\ LatePct \in 0..100 /\ MinBlocks \in Nat
<1>1. /\ MinimumStartBlock \in Nat
      /\ RoundLength \in Nat /\ RoundLength > 0
      /\ RoundsPerSeason \in Nat /\ RoundsPerSeason > 0
      /\ FetchPct \in 0..100 /\ LatePct \in 0..100 /\ MinBlocks \in Nat
  BY ClockAssumption DEF ClockAssumption
<1>2. RoundLength * RoundsPerSeason \in Nat /\ RoundLength * RoundsPerSeason > 0
  BY <1>1, SMT
<1>3. QED
  BY <1>1, <1>2 DEF SeasonLength

\* From the launch on, a block lies in the season that get_season_number gives
\* it: at or after get_season_start_block and less than a season's length on.
THEOREM SeasonOfBlock ==
    ASSUME NEW block \in Nat, block >= MinimumStartBlock
    PROVE  /\ SeasonNumber(block) \in Nat \ {0}
           /\ SeasonStart(block) \in Nat
           /\ SeasonStart(block) >= MinimumStartBlock
           /\ SeasonStart(block) = MinimumStartBlock + SeasonLength * (SeasonNumber(block) - 1)
           /\ SeasonStart(block) <= block
           /\ block < SeasonStart(block) + SeasonLength
<1> DEFINE a == block - MinimumStartBlock
           q == a \div SeasonLength
<1>1. a \in Nat
  BY Sizes
<1>2. q \in Nat /\ SeasonLength * q <= a /\ a < SeasonLength * q + SeasonLength
  BY <1>1, Quotient, Sizes
<1>3. SeasonNumber(block) = q + 1
  BY Sizes DEF SeasonNumber
<1>4. SeasonStart(block) = MinimumStartBlock + (q + 1 - 1) * SeasonLength
  BY <1>2, <1>3 DEF SeasonStart
<1> HIDE DEF q
<1>5. (q + 1 - 1) * SeasonLength = SeasonLength * q
  BY <1>2, Sizes, SMT
<1>6. SeasonLength * q \in Nat
  BY <1>2, Sizes, SMT
<1>7. (q + 1) - 1 = q
  BY <1>2
<1>8. SeasonLength * (SeasonNumber(block) - 1) = SeasonLength * q
  BY <1>3, <1>7
<1>9. QED
  BY <1>1, <1>2, <1>3, <1>4, <1>5, <1>6, <1>8, Sizes

\* A block names its season whenever it lies in it: the season number of a
\* block is determined by the season's first block.
LEMMA SeasonUnique ==
    ASSUME NEW block \in Nat, NEW q \in Nat,
           MinimumStartBlock + SeasonLength * q <= block,
           block < MinimumStartBlock + SeasonLength * q + SeasonLength
    PROVE  SeasonNumber(block) = q + 1
<1>1. SeasonLength * q \in Nat
  BY Sizes, SMT
<1>2. block - MinimumStartBlock \in Nat /\ block >= MinimumStartBlock
  BY <1>1, Sizes
<1>3. /\ SeasonLength * q <= block - MinimumStartBlock
      /\ block - MinimumStartBlock < SeasonLength * q + SeasonLength
  BY <1>1, Sizes
<1>4. (block - MinimumStartBlock) \div SeasonLength = q
  BY <1>2, <1>3, QuotientUnique, Sizes
<1>5. QED
  BY <1>2, <1>4, Sizes DEF SeasonNumber

\* sync_boundaries, told the season's start: the block lies in the window it
\* computes, the fetch block too, and the window is one of the season's rounds.
THEOREM WindowOfBlock ==
    ASSUME NEW block \in Nat, block >= MinimumStartBlock,
           NEW w, w = WindowOf(SeasonStart(block), block)
    PROVE  /\ w \in Window
           /\ w.number \in 1..RoundsPerSeason
           /\ w.start = SeasonStart(block) + RoundLength * (w.number - 1)
           /\ w.start <= block /\ block < w.target
           /\ w.target = w.start + RoundLength
           /\ w.start <= w.settlement /\ w.settlement <= w.target
<1> DEFINE first == SeasonStart(block)
           a == block - first
           q == a \div RoundLength
           fetch == (RoundLength * FetchPct) \div 100
<1>1. first \in Nat /\ first <= block /\ block < first + SeasonLength
  BY SeasonOfBlock
<1>2. a \in Nat /\ a < SeasonLength
  BY <1>1, Sizes
<1>3. q \in Nat /\ RoundLength * q <= a /\ a < RoundLength * q + RoundLength
  BY <1>2, Quotient, Sizes
<1>4. fetch \in Nat /\ fetch <= RoundLength
  <2>1. RoundLength * FetchPct \in Nat /\ RoundLength * FetchPct <= 100 * RoundLength
    BY Sizes, SMT
  <2>2. /\ fetch \in Nat
        /\ 100 * fetch <= RoundLength * FetchPct
    BY <2>1, Quotient
  <2> QED
    BY <2>1, <2>2, Sizes
<1>5. w = [number |-> q + 1, start |-> first + q * RoundLength,
           settlement |-> first + q * RoundLength + fetch,
           target |-> first + q * RoundLength + RoundLength]
  BY <1>1 DEF WindowOf
<1>6. q + 1 <= RoundsPerSeason
  <2>1. RoundLength * q < RoundLength * RoundsPerSeason
    BY <1>2, <1>3, Sizes DEF SeasonLength
  <2> QED
    BY <2>1, <1>3, ProductBound, Sizes
<1> HIDE DEF q, fetch, first
<1>7. q * RoundLength = RoundLength * q /\ q * RoundLength \in Nat
  BY <1>3, Sizes, SMT
<1>8. /\ w.number = q + 1 /\ w.start = first + q * RoundLength
      /\ w.settlement = first + q * RoundLength + fetch
      /\ w.target = first + q * RoundLength + RoundLength
  BY <1>5
<1>9. (q + 1) - 1 = q
  BY <1>3
<1>10. first = SeasonStart(block)
  BY DEF first
<1>11. w \in Window
  BY <1>1, <1>3, <1>4, <1>5, <1>7, Sizes DEF Window
<1>12. QED
  BY <1>1, <1>2, <1>3, <1>4, <1>6, <1>7, <1>8, <1>9, <1>10, <1>11, Sizes

\* One name: the first block of a block's round has the name of the block, and
\* that name is the season SeasonManager counts and the number RoundManager
\* counts.  _start_round names the round by its first block, stores the
\* season and the number, and another validator does so from another block.
THEOREM OneName ==
    ASSUME NEW block \in Nat, block >= MinimumStartBlock,
           NEW w, w = WindowOf(SeasonStart(block), block)
    PROVE  /\ NameOf(w.start) = [s |-> SeasonNumber(block), r |-> w.number]
           /\ NameOf(block) = [s |-> SeasonNumber(block), r |-> w.number]
           /\ SeasonStart(w.start) = SeasonStart(block)
           /\ WindowOf(SeasonStart(w.start), w.start) = w
<1> DEFINE first == SeasonStart(block)
           k == SeasonNumber(block) - 1
           q == w.number - 1
<1>1. /\ w \in Window /\ w.number \in 1..RoundsPerSeason
      /\ w.start = first + RoundLength * q
      /\ w.start <= block /\ block < w.target
      /\ w.target = w.start + RoundLength
  BY WindowOfBlock
<1>2. /\ SeasonNumber(block) \in Nat \ {0} /\ first \in Nat
      /\ first >= MinimumStartBlock /\ first = MinimumStartBlock + SeasonLength * k
      /\ first <= block /\ block < first + SeasonLength
  BY SeasonOfBlock
<1>3. w.start \in Nat /\ q \in Nat /\ k \in Nat
  BY <1>1, <1>2, Sizes DEF Window
<1>4. RoundLength * q \in Nat
  BY <1>3, Sizes, SMT
<1>5. SeasonNumber(w.start) = k + 1
  <2>1. /\ MinimumStartBlock + SeasonLength * k <= w.start
        /\ w.start < MinimumStartBlock + SeasonLength * k + SeasonLength
    BY <1>1, <1>2, <1>3, <1>4, Sizes
  <2> HIDE DEF k
  <2> QED
    BY <2>1, <1>3, SeasonUnique
<1>6. SeasonNumber(w.start) = SeasonNumber(block)
  BY <1>2, <1>5
<1>7. SeasonStart(w.start) = first
  BY <1>6 DEF SeasonStart
<1>8. \A b \in Nat : SeasonNumber(b) = SeasonNumber(block) =>
        RoundInSeason(b) = (b - first) \div RoundLength + 1
  BY <1>2 DEF RoundInSeason, SeasonStart
<1>9. (w.start - first) \div RoundLength = q
  <2>1. w.start - first = RoundLength * q /\ w.start - first \in Nat
    BY <1>1, <1>2, <1>4
  <2>2. RoundLength * q < RoundLength * q + RoundLength
    BY <1>4, Sizes
  <2> QED
    BY <2>1, <2>2, <1>3, QuotientUnique, Sizes
<1>10. (block - first) \div RoundLength = q
  <2>1. block - first \in Nat /\ RoundLength * q <= block - first
        /\ block - first < RoundLength * q + RoundLength
    BY <1>1, <1>2, <1>4, Sizes
  <2> QED
    BY <2>1, <1>3, QuotientUnique, Sizes
<1>11. q + 1 = w.number
  BY <1>1
<1>12. /\ RoundInSeason(w.start) = w.number
       /\ RoundInSeason(block) = w.number
  BY <1>3, <1>6, <1>8, <1>9, <1>10, <1>11
<1>13. WindowOf(first, w.start) = WindowOf(first, block)
  <2>1. ~(w.start < first) /\ ~(block < first)
    BY <1>1, <1>2, <1>3, <1>4
  <2> HIDE DEF first, q
  <2> QED
    BY <2>1, <1>9, <1>10 DEF WindowOf
<1>14. QED
  BY <1>6, <1>7, <1>12, <1>13 DEF NameOf

\* Two blocks of the same name are blocks of the same window.
THEOREM SameNameSameWindow ==
    ASSUME NEW block \in Nat, block >= MinimumStartBlock,
           NEW other \in Nat, other >= MinimumStartBlock,
           NameOf(block) = NameOf(other)
    PROVE  WindowOf(SeasonStart(block), block) = WindowOf(SeasonStart(other), other)
<1> DEFINE w == WindowOf(SeasonStart(block), block)
           u == WindowOf(SeasonStart(other), other)
<1>1. /\ NameOf(block) = [s |-> SeasonNumber(block), r |-> w.number]
      /\ NameOf(other) = [s |-> SeasonNumber(other), r |-> u.number]
  BY OneName
<1>2. SeasonNumber(block) = SeasonNumber(other) /\ w.number = u.number
  <2> HIDE DEF w, u
  <2>1. [s |-> SeasonNumber(block), r |-> w.number].s = [s |-> SeasonNumber(other), r |-> u.number].s
    BY <1>1
  <2>2. [s |-> SeasonNumber(block), r |-> w.number].r = [s |-> SeasonNumber(other), r |-> u.number].r
    BY <1>1
  <2> QED
    BY <2>1, <2>2
<1>3. SeasonStart(block) = SeasonStart(other)
  BY <1>2 DEF SeasonStart
<1>4. /\ w.start = SeasonStart(block) + RoundLength * (w.number - 1)
      /\ u.start = SeasonStart(other) + RoundLength * (u.number - 1)
  BY WindowOfBlock
<1>5. w.start = u.start
  BY <1>2, <1>3, <1>4
<1>6. w = WindowOf(SeasonStart(w.start), w.start) /\ u = WindowOf(SeasonStart(u.start), u.start)
  BY OneName
<1>7. QED
  BY <1>5, <1>6

\* A block's name is a round's name, also before the launch.
LEMMA NameType ==
    ASSUME NEW block \in Nat
    PROVE  NameOf(block) \in RoundName
<1>1. CASE block < MinimumStartBlock
  BY <1>1 DEF NameOf, RoundName, SeasonNumber, RoundInSeason
<1>2. CASE block >= MinimumStartBlock
  <2> DEFINE w == WindowOf(SeasonStart(block), block)
  <2>1. NameOf(block) = [s |-> SeasonNumber(block), r |-> w.number]
    BY <1>2, OneName
  <2>2. w \in Window
    BY <1>2, WindowOfBlock
  <2>3. SeasonNumber(block) \in Nat
    BY <1>2, SeasonOfBlock
  <2> HIDE DEF w
  <2> QED
    BY <2>1, <2>2, <2>3 DEF Window, RoundName
<1>3. QED
  BY <1>1, <1>2, Sizes

\* Later blocks never have an earlier round's name: two validators whose heights
\* differ are never in rounds the wrong way round.
THEOREM NamesOrdered ==
    ASSUME NEW block \in Nat, block >= MinimumStartBlock,
           NEW later \in Nat, block <= later
    PROVE  ~Precedes(NameOf(later), NameOf(block))
<1> DEFINE w == WindowOf(SeasonStart(block), block)
           u == WindowOf(SeasonStart(later), later)
           j == SeasonNumber(block)
           k == SeasonNumber(later)
<1>1. later >= MinimumStartBlock
  BY Sizes
<1>2. /\ NameOf(block) = [s |-> j, r |-> w.number]
      /\ NameOf(later) = [s |-> k, r |-> u.number]
  BY <1>1, OneName
<1>3. /\ j \in Nat \ {0} /\ SeasonStart(block) \in Nat
      /\ SeasonStart(block) = MinimumStartBlock + SeasonLength * (j - 1)
      /\ SeasonStart(block) <= block /\ block < SeasonStart(block) + SeasonLength
  BY SeasonOfBlock
<1>4. /\ k \in Nat \ {0} /\ SeasonStart(later) \in Nat
      /\ SeasonStart(later) = MinimumStartBlock + SeasonLength * (k - 1)
      /\ SeasonStart(later) <= later /\ later < SeasonStart(later) + SeasonLength
  BY <1>1, SeasonOfBlock
<1>5. /\ w.number \in Nat /\ w.start = SeasonStart(block) + RoundLength * (w.number - 1)
      /\ w.start <= block /\ block < w.start + RoundLength
  BY WindowOfBlock DEF Window
<1>6. /\ u.number \in Nat /\ u.start = SeasonStart(later) + RoundLength * (u.number - 1)
      /\ u.start <= later /\ later < u.start + RoundLength
  BY <1>1, WindowOfBlock DEF Window
<1>7. SeasonStart(block) = SeasonStart(later) \/ j # k
  BY DEF SeasonStart
<1> HIDE DEF j, k, w, u
<1>8. j <= k
  <2>1. SeasonLength * (j - 1) \in Int /\ SeasonLength * (k - 1) \in Int
    BY <1>3, <1>4, Sizes
  <2>2. SeasonLength * (k - 1) + SeasonLength = SeasonLength * k
    BY <1>4, Sizes, SMT
  <2>3. SeasonLength * (j - 1) < SeasonLength * k
    BY <1>3, <1>4, <2>1, <2>2, Sizes
  <2>4. (j - 1) + 1 <= k
    BY <2>3, <1>3, <1>4, ProductBound, Sizes
  <2> QED
    BY <2>4, <1>3, <1>4
<1>9. CASE j = k
  <2>1. SeasonStart(block) = SeasonStart(later)
    BY <1>7, <1>9
  <2>2. RoundLength * (w.number - 1) \in Int /\ RoundLength * (u.number - 1) \in Int
    BY <1>5, <1>6, Sizes
  <2>3. RoundLength * (u.number - 1) + RoundLength = RoundLength * u.number
    BY <1>6, Sizes, SMT
  <2>4. RoundLength * (w.number - 1) < RoundLength * u.number
    <3>1. SeasonStart(block) + RoundLength * (w.number - 1) <= block
      BY <1>5
    <3>2. later < (SeasonStart(block) + RoundLength * (u.number - 1)) + RoundLength
      BY <1>6, <2>1
    <3>3. \A a \in Int, b \in Int, f \in Nat, d \in Nat :
            f + a <= block /\ later < (f + b) + d => a < b + d
      OBVIOUS
    <3>4. RoundLength * (w.number - 1) < RoundLength * (u.number - 1) + RoundLength
      BY <3>1, <3>2, <3>3, <2>2, <1>3, Sizes
    <3> QED
      BY <3>4, <2>3
  <2>5. (w.number - 1) + 1 <= u.number
    BY <2>4, <1>5, <1>6, ProductBound, Sizes
  <2>6. w.number <= u.number
    BY <2>5, <1>5, <1>6
  <2> QED
    BY <2>6, <1>2, <1>5, <1>6, <1>9, <1>3 DEF Precedes
<1>10. CASE j < k
  BY <1>10, <1>2, <1>3, <1>4 DEF Precedes
<1>11. QED
  BY <1>8, <1>9, <1>10, <1>3, <1>4

\* Every block of a window has the window's name.
THEOREM SameWindowSameName ==
    ASSUME NEW block \in Nat, block >= MinimumStartBlock,
           NEW w, w = WindowOf(SeasonStart(block), block),
           NEW other \in Nat, w.start <= other, other < w.target
    PROVE  other >= MinimumStartBlock /\ NameOf(other) = NameOf(block)
<1> DEFINE first == SeasonStart(block)
           k == SeasonNumber(block) - 1
           q == w.number - 1
<1>1. /\ w \in Window /\ w.number \in 1..RoundsPerSeason
      /\ w.start = first + RoundLength * q /\ w.target = w.start + RoundLength
  BY WindowOfBlock
<1>2. /\ SeasonNumber(block) \in Nat \ {0} /\ first \in Nat
      /\ first >= MinimumStartBlock /\ first = MinimumStartBlock + SeasonLength * k
  BY SeasonOfBlock
<1>3. NameOf(block) = [s |-> SeasonNumber(block), r |-> w.number]
  BY OneName
<1>4. q \in Nat /\ k \in Nat /\ q + 1 <= RoundsPerSeason /\ q + 1 = w.number
      /\ k + 1 = SeasonNumber(block)
  BY <1>1, <1>2, Sizes
<1>5. \A b \in Nat : SeasonNumber(b) = SeasonNumber(block) =>
        RoundInSeason(b) = (b - first) \div RoundLength + 1
  BY <1>2 DEF RoundInSeason, SeasonStart
<1> HIDE DEF first, k, q
<1>6. RoundLength * q \in Nat /\ RoundLength * q + RoundLength <= SeasonLength
  <2>1. RoundLength * q + RoundLength = RoundLength * (q + 1)
    BY <1>4, Sizes, SMT
  <2>2. RoundLength * (q + 1) <= RoundLength * RoundsPerSeason
    BY <1>4, Sizes, SMT
  <2>3. RoundLength * q \in Nat
    BY <1>4, Sizes, SMT
  <2> QED
    BY <2>1, <2>2, <2>3 DEF SeasonLength
<1>7. /\ other - first \in Nat
      /\ RoundLength * q <= other - first
      /\ other - first < RoundLength * q + RoundLength
  BY <1>1, <1>2, <1>6, Sizes
<1>8. other >= MinimumStartBlock
  BY <1>2, <1>7, Sizes
<1>9. SeasonNumber(other) = k + 1
  <2>1. SeasonLength * k \in Nat
    BY <1>4, Sizes, SMT
  <2>2. /\ MinimumStartBlock + SeasonLength * k <= other
        /\ other < MinimumStartBlock + SeasonLength * k + SeasonLength
    BY <2>1, <1>2, <1>6, <1>7, Sizes
  <2> QED
    BY <2>2, <1>4, SeasonUnique
<1>10. (other - first) \div RoundLength = q
  BY <1>4, <1>7, QuotientUnique, Sizes
<1>11. RoundInSeason(other) = w.number
  BY <1>4, <1>5, <1>9, <1>10
<1>12. QED
  BY <1>3, <1>4, <1>8, <1>9, <1>11 DEF NameOf

-----------------------------------------------------------------------------
(* Types.                                                                  *)

\* A height a validator reads is a height of the chain.
LEMMA HeightsType ==
    ASSUME TypeOK, NEW v \in Validators, NEW b \in Heights(v)
    PROVE  b \in FirstBlock..LastBlock /\ b \in Nat
<1>1. cached[v] \in {Expired} \cup FirstBlock..LastBlock /\ chain \in FirstBlock..LastBlock
  BY DEF TypeOK
<1>2. b \in {cached[v], chain} /\ b # Expired
  BY DEF Heights
<1>3. b \in FirstBlock..LastBlock
  BY <1>1, <1>2
<1>4. QED
  BY <1>3, BlocksAssumption DEF BlocksAssumption

\* What StartRound computes from a block at or after the launch.
LEMMA SyncedType ==
    ASSUME NEW v \in Validators, NEW b \in Nat, b >= MinimumStartBlock
    PROVE  /\ Synced(v, b) \in Manager
           /\ Synced(v, b).window = WindowOf(SeasonStart(b), b)
           /\ Synced(v, b).window \in Window
           /\ Synced(v, b).window.start \in Nat
           /\ Synced(v, b).window.start >= MinimumStartBlock
           /\ Synced(v, b).window.start <= b
           /\ SeasonNumber(Synced(v, b).window.start) \in Nat
           /\ NameOf(Synced(v, b).window.start) \in RoundName
<1> DEFINE w == WindowOf(SeasonStart(b), b)
<1>1. SeasonStart(b) \in Nat /\ SeasonStart(b) >= MinimumStartBlock
  BY SeasonOfBlock
<1>2. /\ w \in Window /\ w.number \in 1..RoundsPerSeason
      /\ w.start = SeasonStart(b) + RoundLength * (w.number - 1) /\ w.start <= b
  BY WindowOfBlock
<1>3. Synced(v, b) = [season_start |-> SeasonStart(b), window |-> w]
  BY DEF Synced
<1> HIDE DEF w
<1>4. w.start \in Nat
  BY <1>2 DEF Window
<1>5. RoundLength * (w.number - 1) >= 0 /\ RoundLength * (w.number - 1) \in Nat
  <2>1. w.number - 1 \in Nat
    BY <1>2, Sizes
  <2> QED
    BY <2>1, Sizes, SMT
<1>6. w.start >= MinimumStartBlock
  BY <1>1, <1>2, <1>5, Sizes
<1>7. SeasonNumber(w.start) \in Nat
  BY <1>4, <1>6, SeasonOfBlock
<1>8. NameOf(w.start) \in RoundName
  BY <1>4, NameType
<1>9. QED
  BY <1>1, <1>2, <1>3, <1>4, <1>6, <1>7, <1>8 DEF Manager, w

LEMMA TypeInit == Init => TypeOK
<1> SUFFICES ASSUME Init PROVE TypeOK
  OBVIOUS
<1>1. NoWindow \in Window
  BY DEF NoWindow, Window
<1>2. NoManager \in Manager
  BY <1>1 DEF NoManager, Manager
<1>3. NoRound \in RoundName
  BY DEF NoRound, RoundName
<1>4. NoCommitment \in Commitment /\ NoAggregation \in Aggregation
  BY <1>3 DEF NoCommitment, NoAggregation, Commitment, Aggregation
<1>5. chain \in FirstBlock..LastBlock
  BY BlocksAssumption DEF BlocksAssumption, Init
<1>6. QED
  BY <1>1, <1>2, <1>3, <1>4, <1>5 DEF Init, TypeOK, Steps

LEMMA TypeStep == TypeOK /\ [Next]_vars => TypeOK'
<1> SUFFICES ASSUME TypeOK, [Next]_vars PROVE TypeOK'
  OBVIOUS
<1> USE DEF TypeOK
<1>1. NoWindow \in Window /\ NoManager \in Manager
  BY DEF NoWindow, Window, NoManager, Manager
<1>2. NoRound \in RoundName
  BY DEF NoRound, RoundName
<1>3. NoAggregation \in Aggregation
  BY <1>2 DEF NoAggregation, Aggregation
<1>4. FirstBlock \in Nat /\ LastBlock \in Nat /\ chain \in Nat
  BY BlocksAssumption DEF BlocksAssumption
<1>5. ASSUME Tick PROVE TypeOK'
  <2>1. chain' \in FirstBlock..LastBlock
    BY <1>5, <1>4 DEF Tick
  <2>2. cached' \in [Validators -> {Expired} \cup FirstBlock..LastBlock]
    BY <1>5 DEF Tick
  <2>3. ontime' \subseteq Validators
    BY <1>5 DEF Tick
  <2> QED
    BY <1>5, <2>1, <2>2, <2>3 DEF Tick
<1>6. ASSUME NEW v \in Validators, WaitForLaunch(v) PROVE TypeOK'
  BY <1>6, HeightsType DEF WaitForLaunch
<1>7. ASSUME NEW v \in Validators, NEW b \in Heights(v), StartRound(v, b) PROVE TypeOK'
  <2>1. b \in FirstBlock..LastBlock /\ b \in Nat /\ b >= MinimumStartBlock
    BY <1>7, HeightsType DEF StartRound
  <2> DEFINE w == Synced(v, b).window
  <2>2. /\ Synced(v, b) \in Manager /\ w \in Window
        /\ SeasonNumber(w.start) \in Nat /\ NameOf(w.start) \in RoundName
    BY <2>1, SyncedType
  <2>3. CASE TooLate(w, b)
    BY <1>7, <2>1, <2>2, <2>3 DEF StartRound, Goto, Steps
  <2>4. CASE ~TooLate(w, b)
    <3>1. /\ rm' = [rm EXCEPT ![v] = Synced(v, b)]
          /\ season' = [season EXCEPT ![v] = SeasonNumber(w.start)]
          /\ cached' = [cached EXCEPT ![v] = b]
          /\ tasks' = [tasks EXCEPT ![v] = SeasonNumber(w.start)]
          /\ id' = [id EXCEPT ![v] = NameOf(w.start)]
          /\ frozen' = [frozen EXCEPT ![v] = w]
          /\ pc' = [pc EXCEPT ![v] = "handshake"]
          /\ UNCHANGED <<chain, slot, counted, ontime>>
      BY <1>7, <2>4 DEF StartRound, Goto
    <3> HIDE DEF w
    <3> QED
      BY <3>1, <2>1, <2>2 DEF Steps
  <2> QED
    BY <2>3, <2>4
<1>8. ASSUME NEW v \in Validators, Boundary(v) PROVE TypeOK'
  BY <1>8 DEF Boundary, Goto, Steps, clock
<1>9. ASSUME NEW v \in Validators, NEW b \in Heights(v), Handshake(v, b) PROVE TypeOK'
  <2>1. b \in FirstBlock..LastBlock
    BY HeightsType
  <2>2. SeasonNumber(rm[v].window.start) \in Nat
    <3>1. rm[v].window.start \in Nat
      BY DEF Manager, Window
    <3>2. NameOf(rm[v].window.start) \in RoundName
      BY <3>1, NameType
    <3> QED
      BY <3>2 DEF NameOf, RoundName
  <2> QED
    BY <1>9, <2>1, <2>2 DEF Handshake, Goto, Steps
<1>10. ASSUME NEW v \in Validators, Guard(v) PROVE TypeOK'
  <2>1. SeasonNumber(rm[v].window.start) \in Nat
    <3>1. rm[v].window.start \in Nat
      BY DEF Manager, Window
    <3>2. NameOf(rm[v].window.start) \in RoundName
      BY <3>1, NameType
    <3> QED
      BY <3>2 DEF NameOf, RoundName
  <2> QED
    BY <1>10, <2>1 DEF Guard, Goto, Steps
<1>11. ASSUME NEW v \in Validators, Evaluate(v) PROVE TypeOK'
  BY <1>11 DEF Evaluate, Goto, Steps, clock
<1>12. ASSUME NEW v \in Validators, NEW b \in Heights(v), Settle(v, b) PROVE TypeOK'
  <2>1. b \in FirstBlock..LastBlock
    BY HeightsType
  <2> QED
    BY <1>12, <2>1 DEF Settle, Goto, Steps
<1>13. ASSUME NEW v \in Validators, Publish(v) PROVE TypeOK'
  <2>1. NameOf(chain) \in RoundName
    BY <1>4, NameType
  <2>2. [round |-> id[v], during |-> NameOf(chain)] \in Commitment
    BY <2>1 DEF Commitment
  <2>3. slot' \in [Validators -> Commitment] /\ ontime' \subseteq Validators
    BY <1>13, <2>2 DEF Publish
  <2> QED
    BY <1>13, <2>3 DEF Publish, Goto, Steps, clock
<1>14. ASSUME NEW v \in Validators, FetchReached(v) PROVE TypeOK'
  BY <1>14 DEF FetchReached, Goto, Steps, clock
<1>15. ASSUME NEW v \in Validators, NEW votes \in SUBSET Votes(v), Aggregate(v, votes) PROVE TypeOK'
  <2>1. Votes(v) \subseteq Vote
    BY DEF Votes, Vote, Commitment
  <2>2. rm[v].window.number \in Nat
    BY DEF Manager, Window
  <2>3. [round |-> id[v], record |-> [s |-> season[v], r |-> rm[v].window.number],
         votes |-> votes] \in Aggregation
    BY <2>1, <2>2 DEF Aggregation, RoundName
  <2>4. counted' \in [Validators -> Aggregation] /\ id' \in [Validators -> RoundName]
    BY <1>15, <1>2, <2>3 DEF Aggregate
  <2> QED
    BY <1>15, <2>4 DEF Aggregate, Goto, Steps
<1>16. ASSUME NEW v \in Validators, EndRound(v) PROVE TypeOK'
  BY <1>16, <1>1, <1>2, <1>3 DEF EndRound, Goto, Steps
<1>17. ASSUME NEW v \in Validators, Crash(v) PROVE TypeOK'
  BY <1>17, <1>1, <1>2, <1>3 DEF Crash, Goto, Steps
<1>18. ASSUME NEW v \in Validators, Sync(v) PROVE TypeOK'
  BY <1>18 DEF Sync
<1>19. ASSUME NEW v \in Validators, Fail(v) \/ Restart(v) PROVE TypeOK'
  BY <1>19 DEF Fail, Restart, Goto, Steps, clock
<1>20. CASE UNCHANGED vars
  BY <1>20 DEF vars
<1>21. QED
  BY <1>5, <1>6, <1>7, <1>8, <1>9, <1>10, <1>11, <1>12, <1>13, <1>14, <1>15, <1>16,
     <1>17, <1>18, <1>19, <1>20 DEF Next, Process, Step, ChainEnds

\* Type correctness, for every value of the constants.
THEOREM TypeCorrect == Spec => []TypeOK
<1>1. Init => TypeOK
  BY TypeInit
<1>2. TypeOK /\ [Next]_vars => TypeOK'
  BY TypeStep
<1>3. QED
  BY <1>1, <1>2, PTL DEF Spec

-----------------------------------------------------------------------------
(* One name per round, and no vote of an earlier one.                      *)

\* No cached height is ahead of the chain; in a round the chain has reached the
\* round's first block; a commitment on
\* chain never carries the name of a round to come; only a validator that is
\* about to end its round, or failed to, holds an aggregation.
RoundInv ==
    /\ OneNamePerRound
    /\ VotesAreFromTheRound
    /\ \A v \in Validators :
         InRound(v) => frozen[v].start >= MinimumStartBlock /\ frozen[v].start <= chain
    /\ \A v \in Validators : ~Precedes(slot[v].during, slot[v].round)
    /\ \A v \in Validators : counted[v] # NoAggregation => pc[v] \in {"ending", "stopped"}
    /\ \A v \in Validators : cached[v] <= chain

LEMMA RoundInit == Init => RoundInv
BY BlocksAssumption DEF BlocksAssumption, Init, RoundInv, OneNamePerRound,
       VotesAreFromTheRound, InRound, NoCommitment, NoRound, Precedes

\* The part of the invariant that speaks of one validator, for the steps of
\* the others.
Own(v) ==
    /\ InRound(v) =>
         /\ id[v] = [s |-> season[v], r |-> rm[v].window.number]
         /\ id[v] = NameOf(rm[v].window.start)
         /\ tasks[v] = id[v].s
         /\ frozen[v] = rm[v].window
         /\ id[v].r \in 1..RoundsPerSeason
         /\ frozen[v].start >= MinimumStartBlock /\ frozen[v].start <= chain
    /\ counted[v] # NoAggregation =>
         /\ counted[v].round = NameOf(frozen[v].start)
         /\ counted[v].record = counted[v].round
         /\ \A vote \in counted[v].votes : ~Precedes(vote.during, counted[v].round)
         /\ pc[v] \in {"ending", "stopped"}
    /\ ~Precedes(slot[v].during, slot[v].round)
    /\ cached[v] <= chain

LEMMA RoundInvOwn == RoundInv <=> \A v \in Validators : Own(v)
BY DEF RoundInv, Own, OneNamePerRound, VotesAreFromTheRound

\* Another validator's step leaves this one's part alone.
LEMMA OwnFrame ==
    ASSUME NEW u \in Validators, Own(u), chain' = chain,
           pc'[u] = pc[u], rm'[u] = rm[u], frozen'[u] = frozen[u], id'[u] = id[u],
           season'[u] = season[u], tasks'[u] = tasks[u], slot'[u] = slot[u],
           counted'[u] = counted[u], cached'[u] = cached[u]
    PROVE  Own(u)'
BY DEF Own, InRound

\* The step a validator takes changes nothing of another's.
LEMMA StepFrame ==
    ASSUME TypeOK, NEW v \in Validators, Process(v)
    PROVE  /\ chain' = chain
           /\ \A u \in Validators \ {v} :
                /\ pc'[u] = pc[u] /\ rm'[u] = rm[u] /\ frozen'[u] = frozen[u]
                /\ id'[u] = id[u] /\ season'[u] = season[u] /\ tasks'[u] = tasks[u]
                /\ slot'[u] = slot[u] /\ counted'[u] = counted[u] /\ cached'[u] = cached[u]
<1> USE DEF TypeOK, Goto, clock
<1> SUFFICES ASSUME NEW u \in Validators \ {v}
             PROVE  /\ chain' = chain
                    /\ pc'[u] = pc[u] /\ rm'[u] = rm[u] /\ frozen'[u] = frozen[u]
                    /\ id'[u] = id[u] /\ season'[u] = season[u] /\ tasks'[u] = tasks[u]
                    /\ slot'[u] = slot[u] /\ counted'[u] = counted[u] /\ cached'[u] = cached[u]
  <2>1. chain' = chain
    BY DEF Process, Sync, Fail, Crash, Step, Restart, WaitForLaunch, StartRound, Boundary, Handshake, Guard, Evaluate,
           Settle, Publish, FetchReached, Aggregate, EndRound
  <2> QED
    BY <2>1
<1>1. CASE WaitForLaunch(v)
  BY <1>1 DEF WaitForLaunch
<1>2. CASE \E b \in Heights(v) : StartRound(v, b)
  BY <1>2 DEF StartRound
<1>3. CASE Boundary(v)
  BY <1>3 DEF Boundary
<1>4. CASE \E b \in Heights(v) : Handshake(v, b)
  BY <1>4 DEF Handshake
<1>5. CASE Guard(v)
  BY <1>5 DEF Guard
<1>6. CASE Evaluate(v)
  BY <1>6 DEF Evaluate
<1>7. CASE \E b \in Heights(v) : Settle(v, b)
  BY <1>7 DEF Settle
<1>8. CASE Publish(v)
  BY <1>8 DEF Publish
<1>9. CASE FetchReached(v)
  BY <1>9 DEF FetchReached
<1>10. CASE \E votes \in SUBSET Votes(v) : Aggregate(v, votes)
  BY <1>10 DEF Aggregate
<1>11. CASE EndRound(v)
  BY <1>11 DEF EndRound
<1>12. CASE Sync(v)
  BY <1>12 DEF Sync
<1>13. CASE Fail(v)
  BY <1>13 DEF Fail
<1>14. CASE Crash(v)
  BY <1>14 DEF Crash
<1>15. CASE Restart(v)
  BY <1>15 DEF Restart
<1>16. QED
  BY <1>1, <1>2, <1>3, <1>4, <1>5, <1>6, <1>7, <1>8, <1>9, <1>10, <1>11, <1>12, <1>13,
     <1>14, <1>15 DEF Process, Step

\* A validator's own step keeps its part: one case per operation.
LEMMA OwnStep ==
    ASSUME TypeOK, NEW v \in Validators, \A u \in Validators : Own(u),
           Process(v)
    PROVE  Own(v)'
<1>0. Own(v)
  OBVIOUS
<1> USE <1>0
<1> USE DEF TypeOK, Goto, clock
<1>1. chain \in Nat
  BY BlocksAssumption DEF BlocksAssumption
<1>2. \A b \in Heights(v) : b \in Nat /\ b <= chain
  <2>1. TAKE b \in Heights(v)
  <2>2. b \in {cached[v], chain} /\ b \in Nat
    BY HeightsType DEF Heights
  <2>3. cached[v] <= chain
    BY DEF Own
  <2> QED
    BY <2>2, <2>3, <1>1
<1>3. CASE WaitForLaunch(v)
  BY <1>2, <1>3 DEF WaitForLaunch, Own, InRound
<1>4. ASSUME NEW b \in Heights(v), StartRound(v, b) PROVE Own(v)'
  <2>1. b \in Nat /\ b <= chain /\ b >= MinimumStartBlock
    BY <1>2, <1>4 DEF StartRound
  <2> DEFINE w == Synced(v, b).window
  <2>2. /\ w.start \in Nat /\ w.start >= MinimumStartBlock /\ w.start <= chain
        /\ SeasonNumber(w.start) \in Nat
    BY <2>1, <1>1, SyncedType, Sizes
  <2>3. w = WindowOf(SeasonStart(b), b)
    BY <2>1, SyncedType
  <2>4. /\ NameOf(w.start) = [s |-> SeasonNumber(b), r |-> w.number]
        /\ w.number \in 1..RoundsPerSeason
    BY <2>1, <2>3, OneName, WindowOfBlock
  <2>5. SeasonNumber(w.start) = SeasonNumber(b)
    <3>1. NameOf(w.start).s = SeasonNumber(w.start)
      BY DEF NameOf
    <3>2. [s |-> SeasonNumber(b), r |-> w.number].s = SeasonNumber(b)
      OBVIOUS
    <3> QED
      BY <3>1, <3>2, <2>4
  <2>6. /\ Synced(v, b).window = w
        /\ pc[v] = "start"
    BY <1>4 DEF StartRound
  <2>7. counted[v] = NoAggregation
    BY <2>6 DEF Own
  <2>8. CASE TooLate(w, b)
    <3>1. /\ pc'[v] = "boundary" /\ cached'[v] = b
          /\ counted' = counted /\ slot' = slot /\ chain' = chain
      BY <1>4, <2>8 DEF StartRound
    <3> QED
      BY <3>1, <2>1, <2>7 DEF Own, InRound
  <2>9. CASE ~TooLate(w, b)
    <3>1. /\ pc'[v] = "handshake" /\ cached'[v] = b /\ rm'[v] = Synced(v, b)
          /\ season'[v] = SeasonNumber(w.start) /\ tasks'[v] = SeasonNumber(w.start)
          /\ id'[v] = NameOf(w.start) /\ frozen'[v] = w
          /\ counted' = counted /\ slot' = slot /\ chain' = chain
      BY <1>4, <2>9 DEF StartRound
    <3>2. id'[v] = [s |-> season'[v], r |-> rm'[v].window.number]
      BY <3>1, <2>4, <2>5
    <3>3. tasks'[v] = id'[v].s /\ id'[v].r \in 1..RoundsPerSeason
      <4> HIDE DEF w
      <4>1. id'[v] = [s |-> SeasonNumber(b), r |-> w.number]
        BY <3>1, <2>4
      <4> QED
        BY <4>1, <3>1, <2>4, <2>5
    <3>4. id'[v] = NameOf(rm'[v].window.start) /\ frozen'[v] = rm'[v].window
      BY <3>1
    <3>5. frozen'[v].start >= MinimumStartBlock /\ frozen'[v].start <= chain'
      BY <3>1, <2>2
    <3> HIDE DEF w
    <3> QED
      BY <3>1, <3>2, <3>3, <3>4, <3>5, <2>1, <2>7 DEF Own
  <2> QED
    BY <2>8, <2>9
<1>5. CASE Boundary(v)
  BY <1>5 DEF Boundary, Own, InRound
<1>6. ASSUME NEW b \in Heights(v), Handshake(v, b) PROVE Own(v)'
  <2>1. SeasonNumber(rm[v].window.start) = id[v].s
    BY <1>6 DEF Own, InRound, Handshake, NameOf
  <2> QED
    BY <1>2, <1>6, <2>1 DEF Handshake, Own, InRound
<1>7. CASE Guard(v)
  <2>1. SeasonNumber(rm[v].window.start) = id[v].s
    BY <1>7 DEF Own, InRound, Guard, NameOf
  <2> QED
    BY <1>7, <2>1 DEF Guard, Own, InRound
<1>8. CASE Evaluate(v)
  BY <1>8 DEF Evaluate, Own, InRound
<1>9. CASE \E b \in Heights(v) : Settle(v, b)
  BY <1>2, <1>9 DEF Settle, Own, InRound
<1>10. CASE Publish(v)
  <2>1. /\ InRound(v) /\ id[v] = NameOf(frozen[v].start)
        /\ frozen[v].start >= MinimumStartBlock /\ frozen[v].start <= chain
    BY <1>10 DEF Publish, Own, InRound
  <2>2. frozen[v].start \in Nat
    BY DEF Window
  <2>3. ~Precedes(NameOf(chain), id[v])
    BY <2>1, <2>2, <1>1, NamesOrdered
  <2>4. ~Precedes(slot'[v].during, slot'[v].round)
    BY <1>10, <2>3 DEF Publish, Own
  <2> QED
    BY <1>10, <2>4 DEF Publish, Own, InRound
<1>11. CASE FetchReached(v)
  BY <1>11 DEF FetchReached, Own, InRound
<1>12. ASSUME NEW votes \in SUBSET Votes(v), Aggregate(v, votes) PROVE Own(v)'
  <2>1. /\ InRound(v) /\ id[v] = NameOf(frozen[v].start)
        /\ id[v] = [s |-> season[v], r |-> rm[v].window.number]
    BY <1>12 DEF Aggregate, Own, InRound
  <2>2. /\ counted'[v].round = id[v]
        /\ counted'[v].record = id[v]
        /\ counted'[v].votes = votes
        /\ frozen' = frozen /\ pc'[v] = "ending" /\ chain' = chain
        /\ slot' = slot /\ cached' = cached
    BY <1>12, <2>1 DEF Aggregate
  <2>3. \A vote \in votes : ~Precedes(vote.during, id[v])
    <3>1. TAKE vote \in votes
    <3>2. vote \in Votes(v)
      OBVIOUS
    <3>3. PICK u \in Validators : slot[u].round = id[v] /\ vote = [by |-> u, during |-> slot[u].during]
      BY <3>2 DEF Votes
    <3>4. ~Precedes(slot[u].during, slot[u].round)
      BY DEF Own
    <3> QED
      BY <3>3, <3>4
  <2> QED
    BY <2>1, <2>2, <2>3 DEF Own, InRound
<1>13. CASE EndRound(v)
  BY <1>13 DEF EndRound, Own, InRound
<1>14. CASE Crash(v)
  BY <1>14, <1>1 DEF Crash, Own, InRound, Expired
<1>15. CASE Sync(v)
  BY <1>15, <1>1 DEF Sync, Own, InRound
<1>16. CASE Fail(v) \/ Restart(v)
  BY <1>16 DEF Fail, Restart, Own, InRound
<1>17. QED
  BY <1>3, <1>4, <1>5, <1>6, <1>7, <1>8, <1>9, <1>10, <1>11, <1>12, <1>13, <1>14, <1>15,
     <1>16 DEF Process, Step

\* The chain's growth keeps every validator's part.
LEMMA TickOwn ==
    ASSUME TypeOK, NEW v \in Validators, Own(v), Tick
    PROVE  Own(v)'
<1>1. chain \in Nat /\ chain' = chain + 1 /\ Lag \in Nat
  BY BlocksAssumption, LagAssumption DEF BlocksAssumption, LagAssumption, Tick, TypeOK
<1>2. cached'[v] = IF cached[v] < chain' - Lag THEN Expired ELSE cached[v]
  BY DEF Tick
<1>3. cached[v] \in Int /\ cached[v] <= chain
  BY BlocksAssumption DEF BlocksAssumption, TypeOK, Own, Expired
<1>4. cached'[v] <= chain'
  BY <1>1, <1>2, <1>3 DEF Expired
<1>5. InRound(v) => frozen[v].start \in Nat
  BY DEF TypeOK, Window
<1>6. QED
  BY <1>1, <1>4, <1>5 DEF Own, InRound, Tick

LEMMA RoundStep == TypeOK /\ RoundInv /\ [Next]_vars => RoundInv'
<1> SUFFICES ASSUME TypeOK, RoundInv, [Next]_vars PROVE RoundInv'
  OBVIOUS
<1>1. \A u \in Validators : Own(u)
  BY RoundInvOwn
<1>2. ASSUME NEW v \in Validators, Process(v), NEW u \in Validators PROVE Own(u)'
  <2>1. CASE u = v
    BY <1>1, <1>2, <2>1, OwnStep
  <2>2. CASE u # v
    BY <1>1, <1>2, <2>2, StepFrame, OwnFrame
  <2> QED
    BY <2>1, <2>2
<1>3. ASSUME Tick, NEW u \in Validators PROVE Own(u)'
  BY <1>1, <1>3, TickOwn
<1>4. ASSUME UNCHANGED vars, NEW u \in Validators PROVE Own(u)'
  BY <1>1, <1>4, OwnFrame DEF vars
<1>5. \A u \in Validators : Own(u)'
  BY <1>2, <1>3, <1>4 DEF Next, ChainEnds
<1>6. QED
  BY <1>5 DEF RoundInv, Own, OneNamePerRound, VotesAreFromTheRound

LEMMA RoundInvariant == Spec => [](TypeOK /\ RoundInv)
<1>1. Init => TypeOK /\ RoundInv
  BY TypeInit, RoundInit
<1>2. TypeOK /\ RoundInv /\ [Next]_vars => (TypeOK /\ RoundInv)'
  BY TypeStep, RoundStep
<1>3. QED
  BY <1>1, <1>2, PTL DEF Spec

\* A round has one name from its start to its settlement, whatever fails and
\* however far behind the heights are that the validators read.
THEOREM RoundsNamed == Spec => []OneNamePerRound
<1>1. RoundInv => OneNamePerRound
  BY DEF RoundInv
<1>2. QED
  BY <1>1, RoundInvariant, PTL

\* No vote from before a round is counted in it, and its result is recorded
\* under the name it was settled by.
THEOREM VotesOfTheRound == Spec => []VotesAreFromTheRound
<1>1. RoundInv => VotesAreFromTheRound
  BY DEF RoundInv
<1>2. QED
  BY <1>1, RoundInvariant, PTL

-----------------------------------------------------------------------------
(* Whoever is in time is counted.                                          *)

\* The frozen blocks are a round's window; a validator that aggregates has seen
\* the fetch block; its cached height is not from before the round.
Frozen(v) ==
    /\ pc[v] = "aggregating" => chain >= frozen[v].settlement
    /\ InRound(v) =>
         /\ frozen[v] = WindowOf(SeasonStart(frozen[v].start), frozen[v].start)
         /\ cached[v] = Expired \/ frozen[v].start <= cached[v]

\* A validator that has committed the round the chain is in has that commitment
\* in its slot, and neither works on another round nor can read a height of
\* another round from its cache.
Committed(v) ==
    v \in ontime =>
        /\ chain >= MinimumStartBlock
        /\ slot[v].round = NameOf(chain)
        /\ InRound(v) => id[v] = NameOf(chain)
        /\ cached[v] # Expired =>
              cached[v] >= MinimumStartBlock /\ NameOf(cached[v]) = NameOf(chain)

Timely(v) == Frozen(v) /\ Committed(v)

\* A round's blocks, from the blocks a validator froze.
LEMMA FrozenWindow ==
    ASSUME TypeOK, NEW v \in Validators, Own(v), Frozen(v), InRound(v)
    PROVE  /\ frozen[v].start \in Nat /\ frozen[v].start >= MinimumStartBlock
           /\ frozen[v].start <= chain
           /\ frozen[v].settlement <= frozen[v].target
           /\ id[v] = NameOf(frozen[v].start)
           /\ \A b \in Nat : frozen[v].start <= b /\ b < frozen[v].target =>
                b >= MinimumStartBlock /\ NameOf(b) = id[v]
<1> DEFINE w == frozen[v]
<1>1. w \in Window
  BY DEF TypeOK
<1>2. w.start \in Nat
  BY <1>1 DEF Window
<1>3. /\ w.start >= MinimumStartBlock /\ w.start <= chain
      /\ id[v] = NameOf(w.start) /\ w = WindowOf(SeasonStart(w.start), w.start)
  BY DEF Own, Frozen
<1> HIDE DEF w
<1>4. w.settlement <= w.target
  BY <1>2, <1>3, WindowOfBlock
<1>5. \A b \in Nat : w.start <= b /\ b < w.target =>
        b >= MinimumStartBlock /\ NameOf(b) = NameOf(w.start)
  BY <1>2, <1>3, SameWindowSameName
<1>6. QED
  BY <1>2, <1>3, <1>4, <1>5 DEF w

\* A height read by a validator is one its cache or the chain justifies.
LEMMA TimelyHeight ==
    ASSUME TypeOK, NEW v \in Validators, Own(v), Timely(v), NEW b \in Heights(v)
    PROVE  /\ b \in Nat /\ b # Expired
           /\ InRound(v) => frozen[v].start <= b
           /\ v \in ontime => b >= MinimumStartBlock /\ NameOf(b) = NameOf(chain)
<1>1. b \in {cached[v], chain} /\ b # Expired /\ b \in Nat
  BY HeightsType DEF Heights
<1>2. InRound(v) => frozen[v].start <= b
  BY <1>1 DEF Own, Timely, Frozen
<1>3. v \in ontime => b >= MinimumStartBlock /\ NameOf(b) = NameOf(chain)
  BY <1>1 DEF Timely, Committed
<1>4. QED
  BY <1>1, <1>2, <1>3

LEMMA TimelyFrame ==
    ASSUME NEW u \in Validators, Timely(u), chain' = chain, pc'[u] = pc[u],
           frozen'[u] = frozen[u], id'[u] = id[u], slot'[u] = slot[u],
           cached'[u] = cached[u], u \in ontime' <=> u \in ontime
    PROVE  Timely(u)'
BY DEF Timely, Frozen, Committed, InRound

\* No step of one validator takes another out of the set, or puts it in.
LEMMA OntimeFrame ==
    ASSUME NEW v \in Validators, Process(v), NEW u \in Validators \ {v}
    PROVE  u \in ontime' <=> u \in ontime
<1>1. CASE Publish(v)
  BY <1>1 DEF Publish
<1>2. CASE ~Publish(v)
  BY <1>2 DEF Process, Sync, Fail, Crash, Step, Restart, WaitForLaunch, StartRound, Boundary, Handshake, Guard, Evaluate,
              Settle, FetchReached, Aggregate, EndRound
<1>3. QED
  BY <1>1, <1>2

LEMMA TimelyStep ==
    ASSUME TypeOK, NEW v \in Validators, Own(v), Timely(v), Process(v)
    PROVE  Timely(v)'
<1> USE DEF TypeOK, Goto, clock
<1>1. chain \in Nat
  BY BlocksAssumption DEF BlocksAssumption
<1>2. ASSUME NEW b \in Heights(v), b < MinimumStartBlock, WaitForLaunch(v), cached'[v] = b
      PROVE Timely(v)'
  <2>1. v \notin ontime /\ ~InRound(v)
    BY <1>2, TimelyHeight, Sizes DEF WaitForLaunch, InRound
  <2> QED
    BY <1>2, <2>1 DEF WaitForLaunch, Timely, Frozen, Committed, InRound
<1>3. CASE WaitForLaunch(v)
  BY <1>2, <1>3 DEF WaitForLaunch
<1>4. ASSUME NEW b \in Heights(v), StartRound(v, b) PROVE Timely(v)'
  <2> DEFINE w == Synced(v, b).window
  <2>1. /\ b \in Nat /\ b # Expired /\ b >= MinimumStartBlock
        /\ v \in ontime => NameOf(b) = NameOf(chain)
    BY <1>4, TimelyHeight DEF StartRound
  <2>2. w.start \in Nat /\ w.start <= b /\ w = WindowOf(SeasonStart(b), b)
    BY <2>1, SyncedType
  <2>3. NameOf(w.start) = NameOf(b) /\ w = WindowOf(SeasonStart(w.start), w.start)
    BY <2>1, <2>2, OneName
  <2>4. /\ cached'[v] = b /\ slot' = slot /\ ontime' = ontime /\ chain' = chain
        /\ pc'[v] \in {"boundary", "handshake"}
        /\ pc'[v] = "handshake" => id'[v] = NameOf(w.start) /\ frozen'[v] = w
    BY <1>4 DEF StartRound
  <2>5. v \in ontime => chain >= MinimumStartBlock /\ slot[v].round = NameOf(chain)
    BY DEF Timely, Committed
  <2> HIDE DEF w
  <2>6. Frozen(v)'
    BY <2>2, <2>3, <2>4 DEF Frozen, InRound
  <2>7. Committed(v)'
    BY <2>1, <2>3, <2>4, <2>5 DEF Committed, InRound
  <2> QED
    BY <2>6, <2>7 DEF Timely
<1>5. CASE Boundary(v)
  BY <1>5 DEF Boundary, Timely, Frozen, Committed, InRound
<1>6. ASSUME NEW b \in Heights(v), Handshake(v, b) \/ Settle(v, b) PROVE Timely(v)'
  <2>1. /\ InRound(v) /\ cached'[v] = b /\ chain' = chain /\ slot' = slot
        /\ ontime' = ontime /\ id' = id /\ frozen' = frozen
        /\ pc'[v] \in {"guard", "evaluating", "ending", "publishing"}
    BY <1>6 DEF Handshake, Settle, InRound
  <2>2. /\ b # Expired /\ frozen[v].start <= b
        /\ v \in ontime => b >= MinimumStartBlock /\ NameOf(b) = NameOf(chain)
    BY <2>1, TimelyHeight
  <2> QED
    BY <2>1, <2>2 DEF Timely, Frozen, Committed, InRound
<1>7. CASE Guard(v)
  BY <1>7 DEF Guard, Timely, Frozen, Committed, InRound
<1>8. CASE Evaluate(v)
  BY <1>8 DEF Evaluate, Timely, Frozen, Committed, InRound
<1>9. CASE Publish(v)
  <2>1. /\ InRound(v) /\ Frozen(v) /\ Committed(v) /\ id' = id /\ frozen' = frozen
        /\ cached' = cached /\ chain' = chain /\ pc'[v] = "fetch"
    BY <1>9 DEF Publish, InRound, Timely
  <2>2. /\ frozen[v].start <= chain /\ frozen[v].settlement <= frozen[v].target
        /\ \A b \in Nat : frozen[v].start <= b /\ b < frozen[v].target =>
             b >= MinimumStartBlock /\ NameOf(b) = id[v]
    BY <2>1, FrozenWindow
  <2>3. Frozen(v)'
    BY <2>1 DEF Frozen, InRound
  <2>4. CASE slot' = slot /\ ontime' = ontime
    BY <2>1, <2>4, <2>3 DEF Timely, Committed, InRound
  <2>5. CASE slot'[v].round = id[v] /\ v \in ontime
    BY <2>1, <2>3, <2>5 DEF Timely, Committed, InRound
  <2>6. CASE slot'[v].round = id[v] /\ v \notin ontime /\ chain < frozen[v].settlement
    <3>1. frozen[v].settlement \in Nat /\ frozen[v].target \in Nat
      BY DEF Window
    <3>2. chain >= MinimumStartBlock /\ NameOf(chain) = id[v]
      BY <1>1, <2>2, <2>6, <3>1
    <3>3. cached[v] # Expired =>
            /\ cached[v] \in Nat /\ frozen[v].start <= cached[v] /\ cached[v] <= chain
      BY <2>1, BlocksAssumption DEF BlocksAssumption, Frozen, Own
    <3>4. cached[v] # Expired => cached[v] >= MinimumStartBlock /\ NameOf(cached[v]) = id[v]
      BY <1>1, <2>2, <2>6, <3>1, <3>3
    <3> QED
      BY <2>1, <2>3, <2>6, <3>2, <3>4 DEF Timely, Committed, InRound
  <2>7. CASE slot'[v].round = id[v] /\ v \notin ontime'
    BY <2>3, <2>7 DEF Timely, Committed
  <2> QED
    BY <1>9, <2>4, <2>5, <2>6, <2>7 DEF Publish
<1>10. CASE FetchReached(v)
  BY <1>10 DEF FetchReached, Timely, Frozen, Committed, InRound
<1>11. CASE \E votes \in SUBSET Votes(v) : Aggregate(v, votes)
  BY <1>11 DEF Aggregate, Timely, Frozen, Committed, InRound
<1>12. CASE EndRound(v)
  BY <1>12 DEF EndRound, Timely, Frozen, Committed, InRound
<1>13. CASE Crash(v)
  BY <1>13, <1>1 DEF Crash, Timely, Frozen, Committed, InRound
<1>14. CASE Sync(v)
  <2>1. InRound(v) => frozen[v].start <= chain
    BY DEF Own
  <2> QED
    BY <1>14, <1>1, <2>1 DEF Sync, Timely, Frozen, Committed, InRound
<1>15. CASE Fail(v) \/ Restart(v)
  BY <1>15 DEF Fail, Restart, Timely, Frozen, Committed, InRound
<1>16. QED
  BY <1>3, <1>4, <1>5, <1>6, <1>7, <1>8, <1>9, <1>10, <1>11, <1>12, <1>13, <1>14,
     <1>15 DEF Process, Step

LEMMA TimelyTick ==
    ASSUME TypeOK, NEW v \in Validators, Timely(v), Tick
    PROVE  Timely(v)'
<1>1. chain \in Nat /\ chain' = chain + 1
  BY BlocksAssumption DEF BlocksAssumption, Tick, TypeOK
<1>2. cached'[v] = Expired \/ cached'[v] = cached[v]
  BY DEF Tick
<1>3. v \in ontime' => v \in ontime /\ NameOf(chain') = NameOf(chain)
  BY DEF Tick
<1>4. frozen[v].settlement \in Nat
  BY DEF TypeOK, Window
<1>5. Frozen(v)'
  BY <1>1, <1>2, <1>4 DEF Tick, Timely, Frozen, InRound
<1>6. Committed(v)'
  BY <1>1, <1>2, <1>3, Sizes DEF Tick, Timely, Committed, InRound
<1>7. QED
  BY <1>5, <1>6 DEF Timely

TimelyInv == \A v \in Validators : Timely(v)

LEMMA TimelyInvStep ==
    TypeOK /\ RoundInv /\ TimelyInv /\ [Next]_vars => TimelyInv'
<1> SUFFICES ASSUME TypeOK, RoundInv, TimelyInv, [Next]_vars, NEW u \in Validators
             PROVE  Timely(u)'
  BY DEF TimelyInv
<1>1. Timely(u) /\ \A v \in Validators : Own(v)
  BY RoundInvOwn DEF TimelyInv
<1>2. ASSUME NEW v \in Validators, Process(v) PROVE Timely(u)'
  <2>1. CASE u = v
    BY <1>1, <1>2, <2>1, TimelyStep
  <2>2. CASE u # v
    BY <1>1, <1>2, <2>2, StepFrame, OntimeFrame, TimelyFrame
  <2> QED
    BY <2>1, <2>2
<1>3. CASE Tick
  BY <1>1, <1>3, TimelyTick
<1>4. CASE UNCHANGED vars
  BY <1>1, <1>4, TimelyFrame DEF vars
<1>5. QED
  BY <1>2, <1>3, <1>4 DEF Next, ChainEnds

\* Only aggregating takes a validator from there to the end of its round.
LEMMA AggregatesAlone ==
    ASSUME TypeOK, Next, NEW v \in Validators, pc[v] = "aggregating", pc'[v] = "ending"
    PROVE  \E votes \in SUBSET Votes(v) : Aggregate(v, votes)
<1>1. pc'[v] # pc[v]
  OBVIOUS
<1>2. ~Tick /\ ~ChainEnds
  BY <1>1 DEF Tick, ChainEnds, vars
<1>3. PICK u \in Validators : Process(u)
  BY <1>2 DEF Next
<1>4. u = v
  BY <1>1, <1>3, StepFrame
<1>5. ~Restart(v) /\ ~Crash(v) /\ ~Fail(v) /\ ~Sync(v)
  BY DEF Restart, Crash, Fail, Sync, Goto, TypeOK
<1>6. QED
  BY <1>3, <1>4, <1>5 DEF Process, Step, WaitForLaunch, StartRound, Boundary, Handshake, Guard,
     Evaluate, Settle, Publish, FetchReached, EndRound

\* Unless a payload cannot be read, no validator aggregates before the fetch
\* block, and it counts all the validators that committed before it.
THEOREM InTimeCounted ==
    ASSUME "Unreadable" \notin Events
    PROVE  Spec => EveryoneInTimeIsCounted
<1> DEFINE Counts(v) ==
      pc[v] = "aggregating" /\ pc'[v] = "ending" =>
          /\ chain >= frozen[v].settlement
          /\ chain < frozen[v].target =>
               ontime \subseteq {vote.by : vote \in counted'[v].votes}
<1>1. Init => TypeOK /\ RoundInv /\ TimelyInv
  BY TypeInit, RoundInit DEF Init, TimelyInv, Timely, Frozen, Committed, InRound
<1>2. TypeOK /\ RoundInv /\ TimelyInv /\ [Next]_vars => (TypeOK /\ RoundInv /\ TimelyInv)'
  BY TypeStep, RoundStep, TimelyInvStep
<1>3. TypeOK /\ RoundInv /\ TimelyInv /\ [Next]_vars => [\A v \in Validators : Counts(v)]_vars
  <2> SUFFICES ASSUME TypeOK, RoundInv, TimelyInv, Next, NEW v \in Validators,
                      pc[v] = "aggregating", pc'[v] = "ending"
               PROVE  /\ chain >= frozen[v].settlement
                      /\ chain < frozen[v].target =>
                           ontime \subseteq {vote.by : vote \in counted'[v].votes}
    OBVIOUS
  <2>1. Own(v) /\ Frozen(v) /\ InRound(v) /\ chain >= frozen[v].settlement
    BY RoundInvOwn DEF TimelyInv, Timely, Frozen, InRound
  <2>2. PICK votes \in SUBSET Votes(v) : Aggregate(v, votes)
    BY AggregatesAlone
  <2>3. counted'[v].votes = Votes(v)
    BY <2>2 DEF Aggregate, TypeOK
  <2>4. ASSUME chain < frozen[v].target, NEW w \in ontime
        PROVE  \E vote \in counted'[v].votes : vote.by = w
    <3>1. w \in Validators /\ slot[w].round = NameOf(chain)
      BY DEF TypeOK, TimelyInv, Timely, Committed
    <3>2. chain \in Nat /\ frozen[v].start <= chain
      BY <2>1, FrozenWindow, BlocksAssumption DEF BlocksAssumption, TypeOK
    <3>3. NameOf(chain) = id[v]
      BY <2>1, <2>4, <3>2, FrozenWindow
    <3>4. [by |-> w, during |-> slot[w].during] \in Votes(v)
      BY <3>1, <3>3 DEF Votes
    <3> QED
      BY <2>3, <3>4
  <2> QED
    BY <2>1, <2>4
<1>4. QED
  BY <1>1, <1>2, <1>3, PTL DEF Spec, EveryoneInTimeIsCounted

-----------------------------------------------------------------------------
(* No round is started twice.                                              *)

\* The round a validator knows is one of the clock's; when forward() begins
\* anew the chain has reached its end; the blocks it froze are that round's
\* until the end; a new process knows none; no cached height is too old.
Begun(v) ==
    /\ rm[v] # NoManager =>
         /\ rm[v].window.start >= MinimumStartBlock
         /\ rm[v].window = WindowOf(SeasonStart(rm[v].window.start), rm[v].window.start)
    /\ pc[v] = "start" /\ rm[v] # NoManager => chain >= rm[v].window.target
    /\ InRound(v) \/ pc[v] = "ending" => frozen[v] = rm[v].window
    /\ pc[v] = "exited" => rm[v] = NoManager
    /\ cached[v] = Expired \/ chain - Lag <= cached[v]

LEMMA BegunFrame ==
    ASSUME NEW u \in Validators, Begun(u), chain' = chain, pc'[u] = pc[u],
           rm'[u] = rm[u], frozen'[u] = frozen[u], cached'[u] = cached[u]
    PROVE  Begun(u)'
BY DEF Begun, InRound

\* A height a validator reads is at most as old as its cache may be.
LEMMA FreshHeight ==
    ASSUME TypeOK, NEW v \in Validators, Begun(v), NEW b \in Heights(v)
    PROVE  b \in Nat /\ b # Expired /\ chain - Lag <= b
<1>1. chain \in Nat /\ Lag \in Nat
  BY BlocksAssumption, LagAssumption DEF BlocksAssumption, LagAssumption, TypeOK
<1>2. b \in {cached[v], chain} /\ b # Expired /\ b \in Nat
  BY HeightsType DEF Heights
<1> QED
  BY <1>1, <1>2 DEF Begun

LEMMA BegunStep ==
    ASSUME TypeOK, NEW v \in Validators, Own(v), Begun(v), Process(v)
    PROVE  Begun(v)'
<1> USE DEF TypeOK, Goto, clock
<1>1. chain \in Nat /\ Lag \in Nat
  BY BlocksAssumption, LagAssumption DEF BlocksAssumption, LagAssumption
<1>2. CASE WaitForLaunch(v)
  BY <1>2, FreshHeight DEF WaitForLaunch, Begun, InRound
<1>3. ASSUME NEW b \in Heights(v), StartRound(v, b) PROVE Begun(v)'
  <2> DEFINE w == Synced(v, b).window
  <2>1. b \in Nat /\ chain - Lag <= b /\ b >= MinimumStartBlock
    BY <1>3, FreshHeight DEF StartRound
  <2>2. w.start >= MinimumStartBlock /\ w = WindowOf(SeasonStart(b), b)
    BY <2>1, SyncedType
  <2>3. w = WindowOf(SeasonStart(w.start), w.start)
    BY <2>1, <2>2, OneName
  <2>4. /\ rm'[v].window = w /\ cached'[v] = b /\ chain' = chain
        /\ \/ pc'[v] = "boundary"
           \/ pc'[v] = "handshake" /\ frozen'[v] = w
    BY <1>3 DEF StartRound
  <2> HIDE DEF w
  <2> QED
    BY <2>1, <2>2, <2>3, <2>4 DEF Begun, InRound
<1>4. CASE Boundary(v)
  BY <1>4 DEF Boundary, Begun, InRound
<1>5. ASSUME NEW b \in Heights(v), Handshake(v, b) \/ Settle(v, b) PROVE Begun(v)'
  <2>1. b \in Nat /\ chain - Lag <= b
    BY FreshHeight
  <2> QED
    BY <1>5, <2>1 DEF Handshake, Settle, Begun, InRound
<1>6. CASE Guard(v)
  BY <1>6 DEF Guard, Begun, InRound
<1>7. CASE Evaluate(v) \/ Publish(v) \/ FetchReached(v)
  BY <1>7 DEF Evaluate, Publish, FetchReached, Begun, InRound
<1>8. CASE \E votes \in SUBSET Votes(v) : Aggregate(v, votes)
  BY <1>8 DEF Aggregate, Begun, InRound
<1>9. CASE EndRound(v)
  BY <1>9 DEF EndRound, Begun, InRound
<1>10. CASE Crash(v)
  BY <1>10 DEF Crash, Begun, InRound
<1>11. CASE Sync(v)
  BY <1>1, <1>11 DEF Sync, Begun, InRound
<1>12. CASE Fail(v)
  BY <1>12 DEF Fail, Begun, InRound
<1>13. CASE Restart(v)
  BY <1>13 DEF Restart, Begun, InRound
<1> QED
  BY <1>2, <1>3, <1>4, <1>5, <1>6, <1>7, <1>8, <1>9, <1>10, <1>11, <1>12, <1>13
  DEF Process, Step

LEMMA BegunTick ==
    ASSUME TypeOK, NEW v \in Validators, Begun(v), Tick
    PROVE  Begun(v)'
<1>1. chain \in Nat /\ chain' = chain + 1 /\ Lag \in Nat
  BY BlocksAssumption, LagAssumption DEF BlocksAssumption, LagAssumption, Tick, TypeOK
<1>2. cached'[v] = IF cached[v] < chain' - Lag THEN Expired ELSE cached[v]
  BY DEF Tick, TypeOK
<1>3. cached[v] \in Int
  BY BlocksAssumption DEF BlocksAssumption, TypeOK, Expired
<1>4. cached'[v] = Expired \/ chain' - Lag <= cached'[v]
  BY <1>1, <1>2, <1>3
<1>5. rm[v].window.target \in Nat
  BY DEF TypeOK, Manager, Window
<1> QED
  BY <1>1, <1>4, <1>5 DEF Begun, InRound, Tick

BegunInv == \A v \in Validators : Begun(v)

LEMMA BegunInvStep ==
    TypeOK /\ RoundInv /\ BegunInv /\ [Next]_vars => BegunInv'
<1> SUFFICES ASSUME TypeOK, RoundInv, BegunInv, [Next]_vars, NEW u \in Validators
             PROVE  Begun(u)'
  BY DEF BegunInv
<1>1. Begun(u) /\ \A v \in Validators : Own(v)
  BY RoundInvOwn DEF BegunInv
<1>2. ASSUME NEW v \in Validators, Process(v) PROVE Begun(u)'
  <2>1. CASE u = v
    BY <1>1, <1>2, <2>1, BegunStep
  <2>2. CASE u # v
    BY <1>1, <1>2, <2>2, StepFrame, BegunFrame
  <2> QED
    BY <2>1, <2>2
<1>3. CASE Tick
  BY <1>1, <1>3, BegunTick
<1>4. CASE UNCHANGED vars
  BY <1>1, <1>4, BegunFrame DEF vars
<1> QED
  BY <1>2, <1>3, <1>4 DEF Next, ChainEnds

\* Only starting takes a validator from the start to its handshake.
LEMMA StartsAlone ==
    ASSUME TypeOK, Next, NEW v \in Validators, pc[v] = "start", pc'[v] = "handshake"
    PROVE  \E b \in Heights(v) : StartRound(v, b)
<1>1. pc'[v] # pc[v]
  OBVIOUS
<1>2. ~Tick /\ ~ChainEnds
  BY <1>1 DEF Tick, ChainEnds, vars
<1>3. PICK u \in Validators : Process(u)
  BY <1>2 DEF Next
<1>4. u = v
  BY <1>1, <1>3, StepFrame
<1>5. ~Restart(v) /\ ~Crash(v) /\ ~Fail(v) /\ ~Sync(v)
  BY DEF Restart, Crash, Fail, Sync, Goto, TypeOK
<1> QED
  BY <1>3, <1>4, <1>5 DEF Process, Step, WaitForLaunch, Boundary, Handshake, Guard,
     Evaluate, Settle, Publish, FetchReached, Aggregate, EndRound

\* A validator that reads a height from before the end of its last round is
\* too late for that round.
LEMMA NextRoundIsLater ==
    ASSUME NEW s \in Nat, s >= MinimumStartBlock, NEW o, o = WindowOf(SeasonStart(s), s),
           o.start = s, NEW b \in Nat, b >= MinimumStartBlock,
           NEW w, w = WindowOf(SeasonStart(b), b), ~TooLate(w, b),
           o.target - Lag <= b, (RoundLength - Lag) * 100 > LatePct * RoundLength
    PROVE  w.start > s
<1>1. Lag \in Nat /\ RoundLength \in Nat /\ RoundLength > 0 /\ LatePct \in Nat
  BY LagAssumption, Sizes DEF LagAssumption
<1>2. LatePct * RoundLength \in Nat
  BY <1>1
<1>3. Lag < RoundLength
  BY <1>1, <1>2
<1>4. o.target = s + RoundLength
  BY WindowOfBlock
<1>5. w.start \in Nat /\ w.start <= b /\ b < w.start + RoundLength
  BY WindowOfBlock DEF Window
<1>6. (b - w.start) * 100 <= LatePct * RoundLength
  BY <1>2, <1>5 DEF TooLate
<1>7. CASE b >= o.target
  BY <1>1, <1>4, <1>5, <1>7
<1>8. CASE b < o.target
  <2>1. s <= b
    BY <1>1, <1>3, <1>4
  <2>2. NameOf(b) = NameOf(s)
    BY <1>8, <2>1, SameWindowSameName
  <2>3. w = o
    BY <2>2, SameNameSameWindow
  <2>4. b - w.start >= RoundLength - Lag
    BY <1>1, <1>4, <2>3
  <2> QED
    BY <1>1, <1>2, <1>5, <1>6, <2>4
<1> QED
  BY <1>1, <1>4, <1>7, <1>8

\* As long as a height in the cache is not so old that a round which it shows
\* as running would not be skipped as started too late, no process starts a
\* round twice or goes back to an older one.
THEOREM RoundsStartOnce ==
    ASSUME (RoundLength - Lag) * 100 > LatePct * RoundLength
    PROVE  Spec => StartsEachRoundOnce
<1> DEFINE Starts(v) ==
      pc[v] = "start" /\ pc'[v] = "handshake" /\ rm[v] # NoManager
        => rm'[v].window.start > rm[v].window.start
<1>1. Init => TypeOK /\ RoundInv /\ BegunInv
  <2>1. Init => BegunInv
    BY BlocksAssumption, LagAssumption
    DEF BlocksAssumption, LagAssumption, Init, BegunInv, Begun, InRound
  <2> QED
    BY <2>1, TypeInit, RoundInit
<1>2. TypeOK /\ RoundInv /\ BegunInv /\ [Next]_vars => (TypeOK /\ RoundInv /\ BegunInv)'
  BY TypeStep, RoundStep, BegunInvStep
<1>3. TypeOK /\ RoundInv /\ BegunInv /\ [Next]_vars => [\A v \in Validators : Starts(v)]_vars
  <2> SUFFICES ASSUME TypeOK, RoundInv, BegunInv, Next, NEW v \in Validators,
                      pc[v] = "start", pc'[v] = "handshake", rm[v] # NoManager
               PROVE  rm'[v].window.start > rm[v].window.start
    OBVIOUS
  <2> DEFINE o == rm[v].window
  <2>1. PICK b \in Heights(v) : StartRound(v, b)
    BY StartsAlone
  <2>2. Begun(v)
    BY DEF BegunInv
  <2>3. b \in Nat /\ chain - Lag <= b /\ b >= MinimumStartBlock
    BY <2>1, <2>2, FreshHeight DEF StartRound
  <2> DEFINE w == Synced(v, b).window
  <2>4. w = WindowOf(SeasonStart(b), b)
    BY <2>3, SyncedType
  <2>5. ~TooLate(w, b) /\ rm'[v].window = w
    BY <2>1 DEF StartRound, Goto, TypeOK
  <2>6. /\ o.start \in Nat /\ o.target \in Nat /\ o.start >= MinimumStartBlock
        /\ o = WindowOf(SeasonStart(o.start), o.start) /\ chain >= o.target
    BY <2>2 DEF Begun, TypeOK, Manager, Window
  <2>7. chain \in Nat /\ Lag \in Nat
    BY BlocksAssumption, LagAssumption DEF BlocksAssumption, LagAssumption, TypeOK
  <2>8. o.target - Lag <= b
    BY <2>3, <2>6, <2>7
  <2> HIDE DEF o, w
  <2>9. w.start > o.start
    BY <2>3, <2>4, <2>5, <2>6, <2>8, NextRoundIsLater
  <2> QED
    BY <2>5, <2>9 DEF o
<1> QED
  BY <1>1, <1>2, <1>3, PTL DEF Spec, StartsEachRoundOnce
=============================================================================
