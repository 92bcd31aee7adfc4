------------------------------ MODULE NrdIndex ------------------------------
(***************************************************************************)
(* The index of recent NRD ("no recent duplicate") kernels and the rule it *)
(* serves, with the feature enabled (chain/src/txhashset/txhashset.rs):    *)
(* two kernels with the same excess must be the relative height of the     *)
(* later one apart.  The index is pushed to by apply_kernels, rewound with *)
(* the blocks, and rebuilt from the kernel MMR at startup and compaction   *)
(* for the last two weeks only.                                            *)
(*                                                                         *)
(* A block is its sequence of NRD kernels; others do not touch the index.  *)
(* Positions are counted in leaves of the kernel MMR.                      *)
(***************************************************************************)
EXTENDS LinkedList, SequencesExt

CONSTANTS BlockBody,    \* sequences of kernels [excess, relative_height] a block may have
          Week,         \* WEEK_HEIGHT: the largest relative height, and the horizon
          MaxHeight     \* bound on the chain

VARIABLES blocks,       \* the blocks of the current chain from height 1 on
          db,           \* the NRD index
          base,         \* the height the last rebuild began at
          top           \* the highest head since then

vars == <<blocks, db, base, top>>

Excess == {b[i].excess : <<b, i>> \in {<<b, i>> \in BlockBody \X (1..3) : i <= Len(b)}}

Init == blocks = <<>> /\ db = Empty /\ base = 0 /\ top = 0

\* header.kernel_mmr_size of the block at height h of chain c
kernel_mmr_size(c, h) == FoldLeft(LAMBDA n, b : n + Len(b), 0, SubSeq(c, 1, h))

\* state: the index with ok; kernel k at pos of a block at height
apply_kernel_rules(s, k, pos, height) ==
    LET prev == peek_pos(s.db, k.excess)
        TooRecent == prev.pos # None /\ (IF height > prev.pos.height THEN height - prev.pos.height ELSE 0)
                                            < k.relative_height
    IN  IF ~ s.ok THEN s
        ELSE IF ~ prev.ok \/ TooRecent THEN Err(s.db)
        ELSE push_pos(s.db, k.excess, [pos |-> pos, height |-> height])

\* The kernels of block h of chain c, in order
apply_kernels(s, c, h) ==
    FoldLeft(LAMBDA r, i : apply_kernel_rules(r, c[h][i], kernel_mmr_size(c, h - 1) + i, h),
             s, [i \in 1..Len(c[h]) |-> i])

\* Mutant: the rewind spares the first kernel of the block.
MutRewindSingleBlock(s, c) ==
    FoldLeft(LAMBDA r, k : IF r.ok THEN rewind(r.db, k.excess, kernel_mmr_size(c, Len(c) - 1) + 1) ELSE r,
             s, c[Len(c)])

\* One block is taken off chain c: the list of every NRD kernel of it is rewound
rewind_single_block(s, c) ==
    FoldLeft(LAMBDA r, k : IF r.ok THEN rewind(r.db, k.excess, kernel_mmr_size(c, Len(c) - 1)) ELSE r,
             s, c[Len(c)])

RECURSIVE RewindTo(_, _, _)
RewindTo(s, c, h) ==
    IF Len(c) = h THEN s ELSE RewindTo(rewind_single_block(s, c), Front(c), h)

verify_kernel_pos_index(from) ==
    FoldLeft(LAMBDA r, h : apply_kernels(r, blocks, h), Ok(clear(db), None),
             [i \in 1..(Len(blocks) - from + 1) |-> from + i - 1])

\* The height two weeks below the head
Cutoff == IF Len(blocks) > 2 * Week THEN Len(blocks) - 2 * Week ELSE 0

\* Genesis (height 0) has no NRD kernel
init_recent_kernel_pos_index == verify_kernel_pos_index(IF Cutoff = 0 THEN 1 ELSE Cutoff)

-----------------------------------------------------------------------------
\* A block on the head or on a fork from height h, in an extension: rewind, then
\* apply.  The child batch is abandoned on an error.
process_block(h, body) ==
    /\ h < MaxHeight
    /\ top - h <= Week
    /\ \E c \in {Append(SubSeq(blocks, 1, h), body)} :
       \E s \in {apply_kernels(RewindTo(Ok(db, None), blocks, h), c, h + 1)} :
          IF s.ok THEN /\ blocks' = c
                       /\ db' = s.db
                       /\ top' = IF Len(c) > top THEN Len(c) ELSE top
                       /\ UNCHANGED base
          ELSE UNCHANGED vars

\* A start of the node, or a compaction
rebuild ==
    /\ \E s \in {init_recent_kernel_pos_index} : s.ok /\ db' = s.db
    /\ base' = Cutoff
    /\ top' = Len(blocks)
    /\ UNCHANGED blocks

Next == \/ \E h \in 0..Len(blocks), body \in BlockBody : process_block(h, body)
        \/ rebuild

Spec == Init /\ [][Next]_vars

-----------------------------------------------------------------------------
\* The kernels with excess c on the chain, newest first
Instances(c) ==
    LET At(h) == {i \in 1..Len(blocks[h]) : blocks[h][i].excess = c}
        all == [h \in 1..Len(blocks) |->
                  IF At(h) = {} THEN <<>>
                  ELSE LET i == CHOOSE i \in At(h) : TRUE
                       IN  <<[pos |-> kernel_mmr_size(blocks, h - 1) + i, height |-> h,
                              rel |-> blocks[h][i].relative_height]>>]
    IN  Reverse(FlattenSeq(all))

\* The list of c as its entries link it, from the head by next
RECURSIVE Chained(_, _, _)
Chained(d, c, p) ==
    LET e == get_entry(d, c, p)
    IN  IF e.tag \in {"Head", "Middle"} THEN <<e.pos>> \o Chained(d, c, e.next) ELSE <<e.pos>>
ListOf(d, c) ==
    LET l == get_list(d, c)
    IN  CASE l.tag = "none" -> <<>> [] l.tag = "Single" -> <<l.pos>>
          [] l.tag = "Multi" -> Chained(d, c, l.head)

\* The index holds, for every excess, the kernels of the current chain above the
\* height of the last rebuild, newest first, through reorganisations, refused
\* blocks, rebuilds and the entries that are left behind; the list can be taken
\* apart from its back as well.
IndexIsChain ==
    \A c \in Excess :
        LET recent == SelectSeq(Instances(c), LAMBDA x : x.height >= base)
            want == [i \in 1..Len(recent) |-> [pos |-> recent[i].pos, height |-> recent[i].height]]
            back == pop_pos_back(db, c)
        IN  /\ ListOf(db, c) = want
            /\ back.ok
            /\ want # <<>> => back.pos = Last(want) /\ ListOf(back.db, c) = Front(want)

\* The rule holds on every chain the node accepts, although the index is rebuilt
\* for two weeks only and the chain is reorganised up to a week below its highest
\* head afterwards; and a rebuild finds nothing to refuse.
NrdRule ==
    /\ \A c \in Excess : LET in == Instances(c) IN
         \A i \in 1..(Len(in) - 1) : in[i].height - in[i + 1].height >= in[i].rel
    /\ init_recent_kernel_pos_index.ok
=============================================================================
