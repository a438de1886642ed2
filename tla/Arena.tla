------------------------------- MODULE Arena -------------------------------
(***************************************************************************)
(* The memory arena of src/arena.c: a chain of blocks of one size, and     *)
(* allocations that are cut off the current one.  A block is the number of *)
(* its malloc; 0 is NULL.                                                  *)
(***************************************************************************)
EXTENDS Integers, FiniteSets

CONSTANTS
    BlockSize,      \* block_size
    Sizes,          \* sizes that are pushed
    MaxBlocks       \* bound: blocks of one arena

ASSUME ArenaAssumption ==
    BlockSize \in Nat \ {0} /\ Sizes \subseteq Nat \ {0} /\ MaxBlocks \in Nat

VARIABLES
    arena,      \* the Arena: stage, current_block and capacity; left: the
                \* blocks that arena_clear has left behind
    blocks,     \* ArenaBlock by number: offset, previous, and whether it is allocated
    live        \* what arena_push has returned since the last clear

arenaVars == <<arena, blocks, live>>

Block(previous) == [offset |-> 0, previous |-> previous, allocated |-> TRUE]
NoArena == [stage |-> "none", current_block |-> 0, capacity |-> 0, left |-> {}]

\* A function over 1 .. n with one block more.
With(block) ==
    [b \in DOMAIN blocks \cup {Cardinality(DOMAIN blocks) + 1} |->
        IF b \in DOMAIN blocks THEN blocks[b] ELSE block]

\* The current block and those behind it: the blocks in every set that holds
\* the current one and, with a block, the previous one.
Chain ==
    {b \in DOMAIN blocks :
        \A s \in SUBSET DOMAIN blocks :
            /\ {arena.current_block} \ {0} \subseteq s
            /\ \A c \in s : blocks[c].previous \in s \cup {0}
            => b \in s}

ArenaInitial == arena = NoArena /\ blocks = [b \in {} |-> Block(0)] /\ live = {}

\* arena_init and arena_new, which fail without memory.
ArenaInit ==
    /\ arena.stage = "none"
    /\ arena' = [NoArena EXCEPT !.stage = "ready", !.current_block = 1, !.capacity = BlockSize]
    /\ blocks' = With(Block(0))
    /\ UNCHANGED live

\* Mutant: the size of the request is not looked at.
CheckResizeLate(size) == blocks[arena.current_block].offset >= BlockSize

\* arena_check_resize
CheckResize(size) == blocks[arena.current_block].offset + size >= BlockSize

\* arena_push: into the current block, or after arena_resize into a new one,
\* which fails without memory.
Push(size, b, chain) ==
    /\ blocks' = [chain EXCEPT ![b].offset = @ + size]
    /\ live' = live \cup {[block |-> b, at |-> chain[b].offset, size |-> size]}

ArenaPush(size) ==
    LET b == arena.current_block
        n == Cardinality(DOMAIN blocks) + 1
    IN  /\ arena.stage = "ready"
        /\ IF CheckResize(size)
           THEN /\ n <= MaxBlocks
                /\ arena' = [arena EXCEPT !.current_block = n, !.capacity = @ + BlockSize]
                /\ Push(size, n, With(Block(b)))
           ELSE Push(size, b, blocks) /\ UNCHANGED arena

\* arena_clear empties the chain and goes back to its first block.  The next
\* pointers are never set: the blocks after the first are out of reach.
ArenaClear ==
    /\ arena.stage = "ready"
    /\ blocks' = [b \in DOMAIN blocks |->
                    IF b \in Chain THEN [blocks[b] EXCEPT !.offset = 0] ELSE blocks[b]]
    /\ LET first == CHOOSE b \in Chain : blocks[b].previous = 0
       IN  arena' = [arena EXCEPT !.current_block = first, !.left = @ \cup (Chain \ {first})]
    /\ live' = {}

\* arena_release and arena_free
ArenaRelease ==
    /\ arena.stage = "ready"
    /\ blocks' = [b \in DOMAIN blocks |->
                    IF b \in Chain THEN [blocks[b] EXCEPT !.allocated = FALSE] ELSE blocks[b]]
    /\ arena' = [arena EXCEPT !.stage = "released", !.current_block = 0, !.capacity = 0]
    /\ live' = {}

ArenaNext ==
    \/ ArenaInit
    \/ \E size \in Sizes : ArenaPush(size)
    \/ ArenaClear
    \/ ArenaRelease

ArenaSpec == ArenaInitial /\ [][ArenaNext]_arenaVars

(***************************************************************************)
(* Properties.                                                             *)
(***************************************************************************)

Overlap(x, y) ==
    x.block = y.block /\ x.at < y.at + y.size /\ y.at < x.at + x.size

\* What arena_push returned since the last arena_clear stays usable: no two
\* allocations overlap, each lies in a block that arena_release will reach,
\* and inside it if it is no larger than a block, also when blocks were
\* emptied and used again.  Every allocated block is in the chain, or one
\* that arena_clear left behind; no block of the chain was freed.
AllocationsApart ==
    /\ \A x \in live :
          /\ x.block \in Chain
          /\ x.size <= BlockSize => x.at + x.size <= BlockSize
          /\ \A y \in live : Overlap(x, y) => x = y
    /\ Chain \cap arena.left = {}
    /\ {b \in DOMAIN blocks : blocks[b].allocated} = Chain \cup arena.left

=============================================================================
