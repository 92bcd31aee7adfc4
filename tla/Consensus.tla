----------------------------- MODULE Consensus -----------------------------
(* Difficulty, graph weights and header validity: core/src/consensus.rs,    *)
(* the difficulty of core/src/pow/types.rs, validate_header of              *)
(* chain/src/pipe.rs and the checks of UntrustedBlockHeader::read.  A chain *)
(* of headers grows by headers mined on its head, or by changed ones.  The  *)
(* hash of a proof is a number of HashBits bits, 64 in the code.            *)
EXTENDS Integers, Sequences

CONSTANTS DmaWindow,        \* DMA_WINDOW
          BlockTime,        \* BLOCK_TIME_SEC
          HalfLife,         \* WTEMA_HALF_LIFE
          MinWtema,         \* min_wtema_graph_weight()
          HashBits,         \* width of the hash of a proof
          HfInterval,       \* HARD_FORK_INTERVAL
          YearHeight,       \* YEAR_HEIGHT
          WeekHeight,       \* WEEK_HEIGHT
          RatioStep,        \* 2 * YEAR_HEIGHT / 90
          FutureLimit,      \* get_future_time_limit()
          MaxBlockWeight,   \* max_block_weight()
          GenesisDifficulty, GenesisScaling,
          Gaps,             \* seconds between two blocks
          Hashes,           \* hashes of proofs
          MaxHeight         \* bound on the height of the chain

VARIABLE chain              \* the headers, genesis first

Max(a, b) == IF a > b THEN a ELSE b
Min(a, b) == IF a < b THEN a ELSE b
Monus(a, b) == Max(a - b, 0)
RECURSIVE Sum(_)
Sum(s) == IF s = <<>> THEN 0 ELSE Head(s) + Sum(Tail(s))
Last(s) == s[Len(s)]

SecondEdgeBits == 29
BaseEdgeBits == 24
MinEdgeBits == 31
ClampFactor == 2
DmaDamp == 3
ArDamp == 13
MinDma == DmaDamp
MinArScale == ArDamp
BlockTimeWindow == DmaWindow * BlockTime

header_version(height) == Min(5, 1 + height \div HfInterval)
valid_header_version(height, version) == version = header_version(height)
secondary_pow_ratio(height) == Monus(90, height \div RatioStep)
damp(actual, goal, factor) == (actual + (factor - 1) * goal) \div factor
clamp(actual, goal, factor) == Max(goal \div factor, Min(actual, goal * factor))

(* Cuckatoo31 loses its weight week by week after the first year.           *)
graph_weight(height, edgeBits) ==
  LET expired == IF edgeBits = 31 /\ height >= YearHeight
                 THEN 1 + (height - YearHeight) \div WeekHeight ELSE 0
  IN 2 * 2^(edgeBits - BaseEdgeBits) * Monus(edgeBits, expired)

(* --- proofs of work ------------------------------------------------------ *)

is_secondary(h) == h.edge_bits = SecondEdgeBits
is_primary(h) == h.edge_bits # SecondEdgeBits /\ h.edge_bits >= MinEdgeBits
scaled_difficulty(h, scale) == Min((scale * 2^HashBits) \div Max(1, h.hash), 2^HashBits - 1)
to_difficulty(h) ==
  Max(1, scaled_difficulty(h, IF is_secondary(h) THEN h.scaling
                              ELSE graph_weight(h.height, h.edge_bits)))
(* The graph of a header; none verifies a secondary proof after the fourth  *)
(* hard fork.                                                               *)
create_pow_context(height, edgeBits) ==
  IF edgeBits > 29 THEN "cuckatoo"
  ELSE CASE header_version(height) = 1 -> "cuckaroo"
         [] header_version(height) = 2 -> "cuckarood"
         [] header_version(height) = 3 -> "cuckaroom"
         [] header_version(height) = 4 -> "cuckarooz"
         [] OTHER -> "none"
verify_size(h) == create_pow_context(h.height, h.edge_bits) # "none"

(* --- difficulty of the next block ---------------------------------------- *)

Info(i) == [timestamp |-> chain[i].timestamp, scaling |-> chain[i].scaling,
            difficulty |-> chain[i].total - (IF i = 1 THEN 0 ELSE chain[i - 1].total),
            secondary |-> is_secondary(chain[i])]
(* What DifficultyIter yields from the header at an index, latest first.    *)
Cursor(n) == [i \in 1..n |-> Info(n + 1 - i)]

(* Earliest first, one more than the window; a short chain is continued     *)
(* into the past at the gap of its last two blocks.                         *)
difficulty_data_to_vector(c) ==
  LET n == Len(c)
      gap == IF n > 1 THEN c[1].timestamp - c[2].timestamp ELSE BlockTime
      padded == [i \in 1..DmaWindow + 1 |->
                   IF i <= n THEN c[i]
                   ELSE [timestamp |-> Monus(c[n].timestamp, (i - n) * gap),
                         scaling |-> GenesisScaling, difficulty |-> c[1].difficulty,
                         secondary |-> TRUE]]
  IN [i \in 1..DmaWindow + 1 |-> padded[DmaWindow + 2 - i]]

ar_count(data) == 100 * Len(SelectSeq(data, LAMBDA d : d.secondary))
secondary_pow_scaling(height, data) ==
  LET target == secondary_pow_ratio(height)
      count == clamp(damp(ar_count(data), DmaWindow * target, ArDamp),
                     DmaWindow * target, ClampFactor)
  IN Max(MinArScale, (Sum([i \in 1..Len(data) |-> data[i].scaling]) * target) \div Max(1, count))

MutNextDma(height, c) ==
  LET data == difficulty_data_to_vector(c)
      delta == data[DmaWindow + 1].timestamp - data[1].timestamp
      sum == Sum([i \in 1..DmaWindow |-> data[i + 1].difficulty])
  IN [difficulty |-> Max(1, (sum * BlockTime) \div
                       clamp(damp(delta, BlockTimeWindow, DmaDamp), BlockTimeWindow, ClampFactor)),
      scaling |-> secondary_pow_scaling(height, Tail(data))]
next_dma_difficulty(height, c) ==
  LET data == difficulty_data_to_vector(c)
      delta == data[DmaWindow + 1].timestamp - data[1].timestamp
      sum == Sum([i \in 1..DmaWindow |-> data[i + 1].difficulty])
      adjusted == clamp(damp(delta, BlockTimeWindow, DmaDamp), BlockTimeWindow, ClampFactor)
  IN [difficulty |-> Max(MinDma, (sum * BlockTime) \div adjusted),
      scaling |-> secondary_pow_scaling(height, Tail(data))]
next_wtema_difficulty(c) ==
  LET time == c[1].timestamp - c[2].timestamp
      next == (c[1].difficulty * HalfLife) \div (HalfLife - BlockTime + time)
  IN [difficulty |-> Max(MinWtema, Max(1, next)), scaling |-> 0]
next_difficulty(height, c) ==
  IF header_version(height) < 5 THEN next_dma_difficulty(height, c)
  ELSE next_wtema_difficulty(c)

(* --- validation ---------------------------------------------------------- *)

weight_by_iok(i, o, k) == i + 21 * o + 3 * k

UntrustedBlockHeader(h, now) ==
  /\ h.timestamp <= now + FutureLimit
  /\ valid_header_version(h.height, h.version)
  /\ is_primary(h) \/ is_secondary(h)
  /\ verify_size(h)
  /\ weight_by_iok(0, h.outputs, h.kernels) <= MaxBlockWeight * (h.height + 1)

validate_header(h, prev) ==
  /\ h.height = prev.height + 1
  /\ valid_header_version(h.height, h.version)
  /\ h.timestamp > prev.timestamp
  /\ Monus(h.outputs, prev.outputs) # 0 /\ Monus(h.kernels, prev.kernels) # 0
  /\ weight_by_iok(0, Monus(h.outputs, prev.outputs), Monus(h.kernels, prev.kernels))
       <= MaxBlockWeight
  /\ is_primary(h) \/ is_secondary(h)
  /\ verify_size(h)
  /\ h.total > prev.total
  /\ to_difficulty(h) >= h.total - prev.total
  /\ LET next == next_difficulty(h.height, Cursor(Len(chain)))
     IN /\ h.total - prev.total = next.difficulty
        /\ h.version < 5 => h.scaling = next.scaling

(* --- the chain ----------------------------------------------------------- *)

(* A header mined on the head: build_block sets its time past the head's.   *)
Mined(now, edgeBits, hash) ==
  LET prev == Last(chain)
      next == next_difficulty(prev.height + 1, Cursor(Len(chain)))
  IN [height |-> prev.height + 1, version |-> header_version(prev.height + 1),
      timestamp |-> IF now <= prev.timestamp THEN prev.timestamp + 1 ELSE now,
      total |-> prev.total + next.difficulty, scaling |-> next.scaling,
      edge_bits |-> edgeBits, hash |-> hash,
      outputs |-> prev.outputs + 1, kernels |-> prev.kernels + 1]
Changed(h) ==
  {[h EXCEPT !.total = @ - 1], [h EXCEPT !.timestamp = Last(chain).timestamp],
   [h EXCEPT !.kernels = @ - 1], [h EXCEPT !.scaling = @ + 1]}

Init == chain = <<[height |-> 0, version |-> header_version(0), timestamp |-> 1000,
                   total |-> GenesisDifficulty, scaling |-> GenesisScaling, edge_bits |-> 29,
                   hash |-> 1, outputs |-> 1, kernels |-> 1]>>

(* Of a stored header's proof only its kind is read again, and its scaling  *)
(* only by the moving average.                                              *)
Stored(h) == [h EXCEPT !.hash = 1, !.edge_bits = IF is_secondary(h) THEN 29 ELSE MinEdgeBits,
                       !.scaling = IF h.version < 5 THEN @ ELSE 0]
process_block_header(h, now) == /\ UntrustedBlockHeader(h, now)
                                /\ validate_header(h, Last(chain))
                                /\ chain' = Append(chain, Stored(h))

Next == \E gap \in Gaps, bits \in {29, 31, 32}, hash \in Hashes :
          /\ Len(chain) <= MaxHeight
          /\ \E m \in {Mined(Last(chain).timestamp + gap, bits, hash)} :
               \/ \E late \in {0, FutureLimit, FutureLimit + 1} :
                    process_block_header(m, m.timestamp - late)
               \/ \E h \in Changed(m) : process_block_header(h, h.timestamp)

Spec == Init /\ [][Next]_chain

(* --- properties ---------------------------------------------------------- *)

Window(i) == LET c == Cursor(i) IN difficulty_data_to_vector(c)
Fastest(w) == \A j \in 1..DmaWindow : w[j + 1].timestamp - w[j].timestamp <= 1
Total(w) == Sum([j \in 1..DmaWindow |-> w[j + 1].difficulty])

(* Every header accepted adds work and time.  Under the moving average the  *)
(* difficulty stays within the clamp of the window's average and rises when *)
(* the window went by at one block a second: the minimum keeps it from      *)
(* getting stuck.  Under wtema it rises after every block faster than the   *)
(* target and never after a slower one, down to the minimum.  No secondary  *)
(* proof is accepted from the fourth hard fork on.                          *)
DifficultyResponds ==
  \E i \in {Len(chain) - 1} : i = 0 \/
    LET h == chain[i + 1]
        d == Info(i + 1).difficulty
        gap == chain[i].timestamp - chain[i - 1].timestamp
    IN /\ h.timestamp > chain[i].timestamp
       /\ h.version < 5 => \E w \in {Window(i)} :
            /\ d * DmaWindow <= Max(MinDma * DmaWindow, ClampFactor * Total(w))
            /\ (d + 1) * DmaWindow * ClampFactor > Total(w)
            /\ Fastest(w) => d * DmaWindow > Total(w)
       /\ (h.version = 5 /\ i > 1 /\ Info(i).difficulty >= MinWtema) =>
            /\ (gap < BlockTime) = (d > Info(i).difficulty)
            /\ d >= MinWtema
       /\ is_secondary(h) => h.version < 5 /\ h.scaling >= MinArScale

=============================================================================
