------------------------------ MODULE RoundClock ------------------------------
(***************************************************************************)
(* How a block height is turned into a season, a round and the blocks of   *)
(* that round.  Three pieces of the code compute this independently:       *)
(* SeasonManager (validator/season_manager.py), RoundManager               *)
(* (validator/round_manager.py) and the two compute_ functions of          *)
(* platform/client.py, whose result names a round in its                   *)
(* validator_round_id.  Validators agree on a round only if the three do.  *)
(*                                                                         *)
(* Sizes are in blocks: round_block_length and season_block_length are     *)
(* 360 * 5 and 360 * 140, and a season is a whole number of rounds.        *)
(***************************************************************************)
EXTENDS Integers

CONSTANTS
    MinimumStartBlock,  \* the first block of season 1
    RoundLength,        \* round_block_length
    RoundsPerSeason,    \* ROUNDS_PER_SEASON
    FetchPct,           \* FETCH_IPFS_..._AT_ROUND_FRACTION, in percent
    LatePct,            \* SKIP_ROUND_IF_STARTED_AFTER_FRACTION, in percent
    MinBlocks           \* SKIP_ROUND_MIN_BLOCKS_AFTER_HANDSHAKE

ASSUME ClockAssumption ==
    /\ MinimumStartBlock \in Nat
    /\ RoundLength \in Nat \ {0}
    /\ RoundsPerSeason \in Nat \ {0}
    /\ FetchPct \in 0..100
    /\ LatePct \in 0..100
    /\ MinBlocks \in Nat \ {0}

SeasonLength == RoundLength * RoundsPerSeason

\* A round by name, as it appears in round ids, commitments and artifacts.
RoundName == [s : Nat, r : Nat]
NoRound == [s |-> 0, r |-> 0]

\* The order of rounds.
Precedes(n, k) == n.s < k.s \/ (n.s = k.s /\ n.r < k.r)

\* The blocks of a round.
Window == [number : Nat, start : Nat, settlement : Nat, target : Nat]

\* SeasonManager.get_season_number and client.compute_season_number.
SeasonNumber(block) ==
    IF block < MinimumStartBlock THEN 0
    ELSE (block - MinimumStartBlock) \div SeasonLength + 1

\* SeasonManager.get_season_start_block.
SeasonStart(block) ==
    IF SeasonNumber(block) = 0 THEN MinimumStartBlock
    ELSE MinimumStartBlock + (SeasonNumber(block) - 1) * SeasonLength

\* RoundManager.sync_boundaries, given the season_start_block it was told.
WindowOf(seasonStart, block) ==
    LET effective == IF block < seasonStart THEN seasonStart ELSE block
        index == (effective - seasonStart) \div RoundLength
        start == seasonStart + index * RoundLength
    IN  [number |-> index + 1,
         start |-> start,
         settlement |-> start + (RoundLength * FetchPct) \div 100,
         target |-> start + RoundLength]

\* Mutant: the season's first block is the next season's.
RoundInSeason_NextSeason(block) ==
    IF SeasonNumber(block) = 0 THEN 1
    ELSE (block - (MinimumStartBlock + SeasonNumber(block) * SeasonLength))
            \div RoundLength + 1

\* client.compute_round_number_in_season.
RoundInSeason(block) ==
    IF SeasonNumber(block) = 0 THEN 1
    ELSE (block - (MinimumStartBlock + (SeasonNumber(block) - 1) * SeasonLength))
            \div RoundLength + 1

\* The name _generate_validator_round_id derives from a round's first block.
NameOf(block) == [s |-> SeasonNumber(block), r |-> RoundInSeason(block)]

\* fraction_elapsed > SKIP_ROUND_IF_STARTED_AFTER_FRACTION
TooLate(w, block) == (block - w.start) * 100 > LatePct * RoundLength

\* remaining_blocks < SKIP_ROUND_MIN_BLOCKS_AFTER_HANDSHAKE
AlmostOver(w, block) == w.target - block < MinBlocks
=============================================================================
