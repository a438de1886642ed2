-------------------------- MODULE ContainerProofs ---------------------------
(***************************************************************************)
(* Proofs about the two containers that hand out memory: what arena_push   *)
(* returned stays apart, inside its block and in reach of arena_release,   *)
(* for any block size, any sizes of requests and any number of blocks; and *)
(* the vector is the list its calls describe, for any elements, any        *)
(* capacities and any number of calls.                                     *)
(***************************************************************************)
EXTENDS Arena, Vector, FiniteSetTheorems, SequenceTheorems, WellFoundedInduction, TLAPS

(***************************************************************************)
(* The arena.                                                              *)
(***************************************************************************)

-----------------------------------------------------------------------------
(* The inductive invariant *)

Records == [offset : Nat, previous : Nat, allocated : BOOLEAN]
Stages == {"none", "ready", "released"}

\* Blocks are numbered from 1, in the order of their malloc, and `previous`
\* leads to a block or is NULL.
ArenaType ==
    /\ arena \in [stage : Stages, current_block : Nat, capacity : Nat, left : SUBSET Nat]
    /\ \E n \in Nat : DOMAIN blocks = 1 .. n
    /\ blocks \in [DOMAIN blocks -> Records]
    /\ \A b \in DOMAIN blocks : blocks[b].previous \in DOMAIN blocks \cup {0}
    /\ live \subseteq [block : Nat, at : Nat, size : Nat \ {0}]

\* A block of the chain with no block behind it.
First(b) == b \in Chain /\ blocks[b].previous = 0

\* An arena in use has a current block, and its chain ends in one first block:
\* the loop of arena_clear has one place to stop at.
OneFirst ==
    /\ arena.stage = "ready" =>
          /\ arena.current_block \in DOMAIN blocks
          /\ \E b \in DOMAIN blocks : First(b) /\ \A c \in DOMAIN blocks : First(c) => c = b
    /\ arena.stage # "ready" => arena.current_block = 0 /\ live = {}
    /\ arena.stage = "none" => DOMAIN blocks = {} /\ arena.left = {}

\* What was returned lies below the offset of its block.
BelowOffset ==
    \A x \in live : x.block \in Chain /\ x.at + x.size <= blocks[x.block].offset

ArenaInv == ArenaType /\ OneFirst /\ BelowOffset /\ AllocationsApart

-----------------------------------------------------------------------------
(* The chain *)

\* A set of blocks that the loops of arena_clear and arena_release do not leave.
Closed(s) ==
    /\ {arena.current_block} \ {0} \subseteq s
    /\ \A c \in s : blocks[c].previous \in s \cup {0}

\* The chain is the least closed set of blocks.
LEMMA ChainFacts ==
    ASSUME ArenaType, OneFirst
    PROVE  /\ Chain \subseteq DOMAIN blocks
           /\ \A s \in SUBSET DOMAIN blocks : Closed(s) => Chain \subseteq s
           /\ Closed(Chain)
           /\ 0 \notin DOMAIN blocks
  <1>1. Chain \subseteq DOMAIN blocks BY DEF Chain
  <1>2. \A s \in SUBSET DOMAIN blocks : Closed(s) => Chain \subseteq s
    BY DEF Chain, Closed
  <1>3. 0 \notin DOMAIN blocks BY DEF ArenaType
  <1>4. {arena.current_block} \ {0} \subseteq Chain
    <2>1. {arena.current_block} \ {0} \subseteq DOMAIN blocks
      BY DEF OneFirst
    <2>2. QED BY <2>1 DEF Chain
  <1>5. ASSUME NEW c \in Chain PROVE blocks[c].previous \in Chain \cup {0}
    <2>1. blocks[c].previous \in DOMAIN blocks \cup {0}
      BY <1>1 DEF ArenaType
    <2>2. ASSUME NEW s \in SUBSET DOMAIN blocks, Closed(s)
          PROVE  blocks[c].previous \in s \cup {0}
      BY <1>2, <2>2 DEF Closed
    <2>3. QED BY <2>1, <2>2 DEF Chain, Closed
  <1>6. QED BY <1>1, <1>2, <1>3, <1>4, <1>5 DEF Closed

\* Only the current block and the previous pointers make the chain.
LEMMA ChainFrame ==
    ASSUME DOMAIN blocks' = DOMAIN blocks, arena.current_block' = arena.current_block,
           \A b \in DOMAIN blocks : blocks'[b].previous = blocks[b].previous
    PROVE  Chain' = Chain
  <1>1. \A s \in SUBSET DOMAIN blocks : Closed(s)' <=> Closed(s)
    BY DEF Closed
  <1>2. Chain = {b \in DOMAIN blocks : \A s \in SUBSET DOMAIN blocks : Closed(s) => b \in s}
    BY DEF Chain, Closed
  <1>3. Chain' = {b \in DOMAIN blocks : \A s \in SUBSET DOMAIN blocks : Closed(s)' => b \in s}
    BY DEF Chain, Closed
  <1>4. QED BY <1>1, <1>2, <1>3

\* A new block with the current one behind it makes the chain longer by one.
LEMMA ChainGrows ==
    ASSUME ArenaType, OneFirst, arena.stage = "ready",
           NEW n, n \notin DOMAIN blocks, n # 0,
           DOMAIN blocks' = DOMAIN blocks \cup {n}, arena'.current_block = n,
           \A b \in DOMAIN blocks : blocks'[b].previous = blocks[b].previous,
           blocks'[n].previous = arena.current_block
    PROVE  Chain' = Chain \cup {n}
  <1>0. arena.current_block \in DOMAIN blocks /\ arena.current_block # 0
    BY ChainFacts DEF OneFirst
  <1>1. Chain' = {b \in DOMAIN blocks' : \A s \in SUBSET DOMAIN blocks' : Closed(s)' => b \in s}
    BY DEF Chain, Closed
  <1>2. Chain = {b \in DOMAIN blocks : \A s \in SUBSET DOMAIN blocks : Closed(s) => b \in s}
    BY DEF Chain, Closed
  <1>3. PICK ch : ch = Chain
    OBVIOUS
  <1>4. Chain' \subseteq Chain \cup {n}
    <2>1. ch \subseteq DOMAIN blocks /\ arena.current_block \in ch
          /\ \A c \in ch : blocks[c].previous \in ch \cup {0}
      BY <1>0, <1>3, ChainFacts DEF Closed
    <2>2. Closed(ch \cup {n})'
      BY <1>0, <2>1 DEF Closed
    <2>3. ch \cup {n} \subseteq DOMAIN blocks' BY <2>1
    <2>4. QED BY <1>1, <1>3, <2>2, <2>3
  <1>5. ASSUME NEW s \in SUBSET DOMAIN blocks', Closed(s)' PROVE Chain \cup {n} \subseteq s
    <2>1. n \in s /\ arena.current_block \in s
      BY <1>0, <1>5 DEF Closed
    <2>2. Closed(s \ {n})
      <3>1. \A c \in s \ {n} : blocks[c].previous \in DOMAIN blocks \cup {0}
        BY DEF ArenaType
      <3>2. \A c \in s \ {n} : blocks[c].previous \in s \cup {0}
        BY <1>5 DEF Closed
      <3>3. QED BY <1>0, <2>1, <3>1, <3>2 DEF Closed
    <2>3. Chain \subseteq s \ {n} BY <2>2, ChainFacts
    <2>4. QED BY <2>1, <2>3
  <1>6. QED BY <1>1, <1>4, <1>5, ChainFacts

\* A chain of one block.
LEMMA ChainOfOne ==
    ASSUME NEW b, b # 0, b \in DOMAIN blocks', arena'.current_block = b,
           blocks'[b].previous = 0
    PROVE  Chain' = {b}
  <1>1. Chain' = {c \in DOMAIN blocks' : \A s \in SUBSET DOMAIN blocks' : Closed(s)' => c \in s}
    BY DEF Chain, Closed
  <1>2. Closed({b})' BY DEF Closed
  <1>3. \A s \in SUBSET DOMAIN blocks' : Closed(s)' => b \in s
    BY DEF Closed
  <1>4. QED BY <1>1, <1>2, <1>3

\* Without a current block there is no chain.
LEMMA ChainOfNone ==
    ASSUME arena'.current_block = 0
    PROVE  Chain' = {}
  <1>1. Chain' = {c \in DOMAIN blocks' : \A s \in SUBSET DOMAIN blocks' : Closed(s)' => c \in s}
    BY DEF Chain, Closed
  <1>2. Closed({})' BY DEF Closed
  <1>3. QED BY <1>1, <1>2

-----------------------------------------------------------------------------
(* The operations *)

\* A block number that is not in use yet.
LEMMA NextNumber ==
    ASSUME ArenaType
    PROVE  LET n == Cardinality(DOMAIN blocks) + 1
           IN  /\ n \in Nat \ {0} /\ n \notin DOMAIN blocks
               /\ DOMAIN blocks \cup {n} = 1 .. n
  <1>1. PICK m \in Nat : DOMAIN blocks = 1 .. m BY DEF ArenaType
  <1>2. Cardinality(1 .. m) = IF 1 > m THEN 0 ELSE m - 1 + 1
    BY <1>1, FS_Interval
  <1>3. Cardinality(DOMAIN blocks) = m BY <1>1, <1>2
  <1>4. QED BY <1>1, <1>3

\* The operations keep the invariant, one by one.
LEMMA InvInitial == ArenaInitial => ArenaInv
  <1> SUFFICES ASSUME ArenaInitial PROVE ArenaInv
    OBVIOUS
  <1>1. DOMAIN blocks = {} /\ DOMAIN blocks = 1 .. 0 BY DEF ArenaInitial
  <1>2. ArenaType BY <1>1 DEF ArenaInitial, ArenaType, NoArena, Stages
  <1>3. Chain = {} BY <1>1 DEF Chain
  <1>4. QED
    BY <1>1, <1>2, <1>3 DEF ArenaInitial, NoArena, ArenaInv, OneFirst, BelowOffset,
       AllocationsApart

LEMMA InvInit == ArenaInv /\ ArenaInit => ArenaInv'
  <1> SUFFICES ASSUME ArenaInv, ArenaInit PROVE ArenaInv'
    OBVIOUS
  <1>1. /\ DOMAIN blocks = {} /\ live = {} /\ arena.left = {}
        /\ arena' = [stage |-> "ready", current_block |-> 1, capacity |-> BlockSize,
                     left |-> {}]
    BY DEF ArenaInv, OneFirst, ArenaInit, NoArena
  <1>2. Cardinality(DOMAIN blocks) + 1 = 1 BY <1>1, FS_EmptySet
  <1>3. blocks' = [b \in {1} |-> Block(0)]
    BY <1>1, <1>2 DEF ArenaInit, With
  <1>4. DOMAIN blocks' = 1 .. 1 /\ blocks'[1] = Block(0) /\ DOMAIN blocks' = {1}
    BY <1>3
  <1>5. Chain' = {1} BY <1>1, <1>4, ChainOfOne DEF Block
  <1>6. live' = {} BY <1>1 DEF ArenaInit
  <1>7. ArenaType'
    BY <1>1, <1>3, <1>4, <1>6, ArenaAssumption
       DEF ArenaType, ArenaAssumption, Records, Stages, Block
  <1>8. OneFirst' BY <1>1, <1>4, <1>5 DEF OneFirst, First, Block
  <1>9. QED
    BY <1>1, <1>4, <1>5, <1>6, <1>7, <1>8 DEF ArenaInv, BelowOffset, AllocationsApart, Block

\* arena_push into block b of the new chain, behind all that is in b already.
LEMMA PushApart ==
    ASSUME ArenaInv, ArenaType', OneFirst', NEW size \in Nat \ {0}, NEW b \in Chain', NEW at \in Nat,
           live' = live \cup {[block |-> b, at |-> at, size |-> size]},
           blocks'[b].offset = at + size,
           size <= BlockSize => at + size <= BlockSize,
           Chain \subseteq Chain',
           \A x \in live : x.block = b => x.at + x.size <= at,
           \A c \in Chain : c # b => blocks'[c].offset = blocks[c].offset,
           Chain' \cap arena'.left = {},
           {c \in DOMAIN blocks' : blocks'[c].allocated} = Chain' \cup arena'.left
    PROVE  ArenaInv'
  <1> DEFINE new == [block |-> b, at |-> at, size |-> size]
  <1>0. live \subseteq [block : Nat, at : Nat, size : Nat \ {0}] BY DEF ArenaInv, ArenaType
  <1>1. \A x \in live : x.block \in Chain' BY DEF ArenaInv, BelowOffset
  <1>2. ASSUME NEW x \in live PROVE x.at + x.size <= blocks'[x.block].offset
    <2>1. CASE x.block = b BY <1>0, <2>1
    <2>2. CASE x.block # b BY <2>2 DEF ArenaInv, BelowOffset
    <2>3. QED BY <2>1, <2>2
  <1>3. BelowOffset' BY <1>1, <1>2 DEF BelowOffset
  <1>4. \A x \in live : ~Overlap(x, new) /\ ~Overlap(new, x)
    BY <1>0 DEF Overlap
  <1>5. \A x, y \in live' : Overlap(x, y) => x = y
    BY <1>4 DEF ArenaInv, AllocationsApart
  <1>6. \A x \in live' : x.block \in Chain' /\ (x.size <= BlockSize => x.at + x.size <= BlockSize)
    BY <1>1 DEF ArenaInv, AllocationsApart
  <1>7. QED BY <1>3, <1>5, <1>6 DEF ArenaInv, AllocationsApart

LEMMA InvPush == ASSUME ArenaInv, NEW size \in Sizes, ArenaPush(size) PROVE ArenaInv'
  <1>0. /\ size \in Nat \ {0} /\ BlockSize \in Nat \ {0} /\ arena.stage = "ready"
        /\ ArenaType /\ OneFirst
    BY ArenaAssumption DEF ArenaAssumption, ArenaPush, ArenaInv
  <1>1. /\ blocks \in [DOMAIN blocks -> Records]
        /\ live \subseteq [block : Nat, at : Nat, size : Nat \ {0}]
        /\ arena \in [stage : Stages, current_block : Nat, capacity : Nat, left : SUBSET Nat]
        /\ arena.current_block \in DOMAIN blocks
        /\ Chain \subseteq DOMAIN blocks /\ 0 \notin DOMAIN blocks
        /\ arena.current_block \in Chain
    BY <1>0, ChainFacts DEF ArenaType, OneFirst, Closed
  <1>2. CASE ~CheckResize(size)
    <2>1. PICK b : b = arena.current_block
      OBVIOUS
    <2>2. PICK at : at = blocks[b].offset
      OBVIOUS
    <2>3. /\ blocks' = [blocks EXCEPT ![b].offset = @ + size] /\ arena' = arena
          /\ live' = live \cup {[block |-> b, at |-> at, size |-> size]}
      BY <1>2, <2>1, <2>2 DEF ArenaPush, Push
    <2>4. at \in Nat /\ at + size < BlockSize /\ b \in DOMAIN blocks /\ b \in Nat
      BY <1>0, <1>1, <1>2, <2>1, <2>2 DEF CheckResize, Records
    <2>5. /\ DOMAIN blocks' = DOMAIN blocks /\ blocks' \in [DOMAIN blocks -> Records]
          /\ blocks'[b].offset = at + size
          /\ \A c \in DOMAIN blocks : /\ blocks'[c].previous = blocks[c].previous
                                      /\ blocks'[c].allocated = blocks[c].allocated
                                      /\ c # b => blocks'[c].offset = blocks[c].offset
      BY <1>0, <1>1, <2>2, <2>3, <2>4 DEF Records
    <2>6. Chain' = Chain BY <2>3, <2>5, ChainFrame
    <2>7. ArenaType'
      <3>1. live' \subseteq [block : Nat, at : Nat, size : Nat \ {0}]
        BY <1>0, <1>1, <2>3, <2>4
      <3>2. QED BY <1>0, <2>3, <2>5, <3>1 DEF ArenaType
    <2>8. OneFirst'
      BY <1>0, <1>1, <2>3, <2>5, <2>6 DEF OneFirst, First
    <2>9. \A x \in live : x.block = b => x.at + x.size <= at
      BY <2>2 DEF ArenaInv, BelowOffset
    <2>10. Chain' \cap arena'.left = {}
           /\ {c \in DOMAIN blocks' : blocks'[c].allocated} = Chain' \cup arena'.left
      BY <2>3, <2>5, <2>6 DEF ArenaInv, AllocationsApart
    <2>11. b \in Chain' BY <1>1, <2>1, <2>6
    <2>12. \A c \in Chain : c # b => blocks'[c].offset = blocks[c].offset BY <1>1, <2>5
    <2>13. size <= BlockSize => at + size <= BlockSize BY <1>0, <2>4
    <2>14. live' = live \cup {[block |-> b, at |-> at, size |-> size]}
           /\ Chain \subseteq Chain' /\ at \in Nat /\ blocks'[b].offset = at + size
      BY <2>3, <2>4, <2>5, <2>6
    <2>15. QED
      BY <1>0, <2>7, <2>8, <2>9, <2>10, <2>11, <2>12, <2>13, <2>14, PushApart
  <1>3. CASE CheckResize(size)
    <2>1. PICK n : n = Cardinality(DOMAIN blocks) + 1
      OBVIOUS
    <2>2. n \in Nat \ {0} /\ n \notin DOMAIN blocks /\ DOMAIN blocks \cup {n} = 1 .. n
      BY <1>0, <2>1, NextNumber
    <2>3. PICK cur : cur = arena.current_block
      OBVIOUS
    <2>4. /\ arena' = [arena EXCEPT !.current_block = n, !.capacity = @ + BlockSize]
          /\ Push(size, n, With(Block(cur)))
      BY <1>3, <2>1, <2>3 DEF ArenaPush
    <2>5. With(Block(cur)) = [b \in DOMAIN blocks \cup {n} |->
                                IF b \in DOMAIN blocks THEN blocks[b] ELSE Block(cur)]
      BY <2>1 DEF With
    <2>6. /\ DOMAIN blocks' = DOMAIN blocks \cup {n}
          /\ \A c \in DOMAIN blocks : blocks'[c] = blocks[c]
          /\ blocks'[n] \in Records /\ blocks'[n].offset = size /\ blocks'[n].previous = cur
          /\ blocks'[n].allocated = TRUE
          /\ live' = live \cup {[block |-> n, at |-> 0, size |-> size]}
      <3>1. With(Block(cur))[n] = [offset |-> 0, previous |-> cur, allocated |-> TRUE]
        BY <2>2, <2>5 DEF Block
      <3>2. /\ blocks' = [With(Block(cur)) EXCEPT ![n].offset = 0 + size]
            /\ live' = live \cup {[block |-> n, at |-> 0, size |-> size]}
        BY <2>4, <3>1 DEF Push
      <3>3. 0 + size = size BY <1>0
      <3>4. PICK w : w = With(Block(cur))
        OBVIOUS
      <3>5. /\ DOMAIN w = DOMAIN blocks \cup {n} /\ \A c \in DOMAIN blocks : w[c] = blocks[c]
            /\ w[n] = [offset |-> 0, previous |-> cur, allocated |-> TRUE]
        BY <2>2, <2>5, <3>1, <3>4
      <3>6. w = [c \in DOMAIN blocks \cup {n} |-> w[c]] BY <2>5, <3>4
      <3>7. blocks' = [w EXCEPT ![n].offset = size] BY <3>2, <3>3, <3>4
      <3>8. DOMAIN blocks' = DOMAIN w /\ \A c \in DOMAIN w : c # n => blocks'[c] = w[c]
        BY <3>6, <3>7
      <3>9. blocks'[n] = [w[n] EXCEPT !.offset = size] BY <3>5, <3>6, <3>7
      <3>10. w[n] \in Records /\ w[n].previous = cur /\ w[n].allocated = TRUE
        <4>1. cur \in Nat BY <1>1, <2>3
        <4>2. QED BY <3>5, <4>1 DEF Records
      <3>11. blocks'[n] \in Records /\ blocks'[n].offset = size /\ blocks'[n].previous = cur
             /\ blocks'[n].allocated = w[n].allocated
        BY <1>0, <3>9, <3>10 DEF Records
      <3>12. QED BY <2>2, <3>2, <3>5, <3>8, <3>10, <3>11
    <2>7. Chain' = Chain \cup {n}
      BY <1>0, <2>2, <2>3, <2>4, <2>6, <1>1, ChainGrows
    <2>8. blocks' \in [DOMAIN blocks' -> Records]
      <3>1. \A c \in DOMAIN blocks' : blocks'[c] \in Records
        BY <1>1, <2>6
      <3>2. blocks' = [c \in DOMAIN blocks' |-> blocks'[c]]
        BY <2>2, <2>4, <2>5 DEF Push
      <3>3. QED BY <3>1, <3>2
    <2>9. ArenaType'
      <3>1. \A b \in DOMAIN blocks' : blocks'[b].previous \in DOMAIN blocks' \cup {0}
        BY <1>0, <1>1, <2>3, <2>6 DEF ArenaType
      <3>2. live' \subseteq [block : Nat, at : Nat, size : Nat \ {0}]
        BY <1>0, <1>1, <2>2, <2>6
      <3>3. arena' \in [stage : Stages, current_block : Nat, capacity : Nat, left : SUBSET Nat]
        <4>1. arena.capacity + BlockSize \in Nat /\ n \in Nat BY <1>0, <1>1, <2>2
        <4>2. QED BY <1>1, <2>4, <4>1
      <3>4. QED BY <2>2, <2>6, <2>8, <3>1, <3>2, <3>3 DEF ArenaType
    <2>10. OneFirst'
      <3>1. arena'.stage = "ready" /\ arena'.current_block = n
        BY <1>0, <1>1, <2>4
      <3>2. \A c \in DOMAIN blocks' : First(c)' <=> c \in DOMAIN blocks /\ First(c)
        BY <1>1, <2>2, <2>3, <2>6, <2>7 DEF First
      <3>3. \E b \in DOMAIN blocks' :
                First(b)' /\ \A c \in DOMAIN blocks' : First(c)' => c = b
        BY <1>0, <2>6, <3>2 DEF OneFirst
      <3>4. QED BY <2>6, <3>1, <3>3 DEF OneFirst
    <2>11. \A x \in live : x.block # n
      BY <1>1, <2>2 DEF ArenaInv, BelowOffset
    <2>12. Chain' \cap arena'.left = {}
           /\ {c \in DOMAIN blocks' : blocks'[c].allocated} = Chain' \cup arena'.left
      <3>1. arena'.left = arena.left BY <1>1, <2>4
      <3>2. arena.left \subseteq DOMAIN blocks
        BY DEF ArenaInv, AllocationsApart
      <3>3. QED BY <2>2, <2>6, <2>7, <3>1, <3>2 DEF ArenaInv, AllocationsApart
    <2>13. \A c \in Chain : c # n => blocks'[c].offset = blocks[c].offset BY <1>1, <2>6
    <2>14. n \in Chain' /\ Chain \subseteq Chain' /\ blocks'[n].offset = 0 + size
      BY <1>0, <2>6, <2>7
    <2>15. QED
      BY <1>0, <2>6, <2>9, <2>10, <2>11, <2>12, <2>13, <2>14, PushApart
  <1>4. QED BY <1>2, <1>3

\* arena_clear keeps the first block only.
LEMMA InvClear == ArenaInv /\ ArenaClear => ArenaInv'
  <1> SUFFICES ASSUME ArenaInv, ArenaClear PROVE ArenaInv'
    OBVIOUS
  <1>0. ArenaType /\ OneFirst /\ arena.stage = "ready" BY DEF ArenaInv, ArenaClear
  <1>1. /\ blocks \in [DOMAIN blocks -> Records] /\ DOMAIN blocks \subseteq Nat
        /\ arena \in [stage : Stages, current_block : Nat, capacity : Nat, left : SUBSET Nat]
        /\ Chain \subseteq DOMAIN blocks /\ 0 \notin DOMAIN blocks
    BY <1>0, ChainFacts DEF ArenaType
  <1>2. PICK f \in DOMAIN blocks : First(f) /\ \A c \in DOMAIN blocks : First(c) => c = f
    BY <1>0 DEF OneFirst
  <1>3. (CHOOSE b \in Chain : blocks[b].previous = 0) = f
    BY <1>1, <1>2 DEF First
  <1>4. /\ arena' = [arena EXCEPT !.current_block = f, !.left = @ \cup (Chain \ {f})]
        /\ blocks' = [b \in DOMAIN blocks |->
                        IF b \in Chain THEN [blocks[b] EXCEPT !.offset = 0] ELSE blocks[b]]
        /\ live' = {}
    BY <1>3 DEF ArenaClear
  <1>5. /\ DOMAIN blocks' = DOMAIN blocks /\ blocks' \in [DOMAIN blocks -> Records]
        /\ \A c \in DOMAIN blocks : /\ blocks'[c].previous = blocks[c].previous
                                    /\ blocks'[c].allocated = blocks[c].allocated
    BY <1>1, <1>4 DEF Records
  <1>6. /\ arena'.current_block = f /\ arena'.left = arena.left \cup (Chain \ {f})
        /\ arena'.stage = "ready"
        /\ arena' \in [stage : Stages, current_block : Nat, capacity : Nat, left : SUBSET Nat]
    <2>1. Chain \ {f} \subseteq Nat /\ f \in Nat BY <1>1
    <2>2. QED BY <1>0, <1>1, <1>4, <2>1
  <1>7. Chain' = {f} BY <1>1, <1>2, <1>5, <1>6, ChainOfOne DEF First
  <1>8. ArenaType' BY <1>0, <1>4, <1>5, <1>6 DEF ArenaType
  <1>9. OneFirst' BY <1>2, <1>5, <1>6, <1>7 DEF OneFirst, First
  <1>10. Chain' \cap arena'.left = {}
         /\ {c \in DOMAIN blocks' : blocks'[c].allocated} = Chain' \cup arena'.left
    BY <1>2, <1>5, <1>6, <1>7 DEF First, ArenaInv, AllocationsApart
  <1>11. QED BY <1>4, <1>8, <1>9, <1>10 DEF ArenaInv, BelowOffset, AllocationsApart

\* arena_release ends the arena.
LEMMA InvRelease == ArenaInv /\ ArenaRelease => ArenaInv'
  <1> SUFFICES ASSUME ArenaInv, ArenaRelease PROVE ArenaInv'
    OBVIOUS
  <1>0. ArenaType /\ OneFirst BY DEF ArenaInv
  <1>1. /\ blocks \in [DOMAIN blocks -> Records]
        /\ arena \in [stage : Stages, current_block : Nat, capacity : Nat, left : SUBSET Nat]
        /\ Chain \subseteq DOMAIN blocks
    BY <1>0, ChainFacts DEF ArenaType
  <1>2. /\ arena' = [arena EXCEPT !.stage = "released", !.current_block = 0, !.capacity = 0]
        /\ blocks' = [b \in DOMAIN blocks |->
                        IF b \in Chain THEN [blocks[b] EXCEPT !.allocated = FALSE]
                        ELSE blocks[b]]
        /\ live' = {}
    BY DEF ArenaRelease
  <1>3. /\ DOMAIN blocks' = DOMAIN blocks /\ blocks' \in [DOMAIN blocks -> Records]
        /\ \A c \in DOMAIN blocks : blocks'[c].previous = blocks[c].previous
        /\ \A c \in DOMAIN blocks : blocks'[c].allocated <=> (blocks[c].allocated /\ c \notin Chain)
    BY <1>1, <1>2 DEF Records
  <1>4. /\ arena'.stage = "released" /\ arena'.current_block = 0 /\ arena'.left = arena.left
        /\ arena' \in [stage : Stages, current_block : Nat, capacity : Nat, left : SUBSET Nat]
    BY <1>1, <1>2 DEF Stages
  <1>5. Chain' = {} BY <1>4, ChainOfNone
  <1>6. ArenaType' BY <1>0, <1>2, <1>3, <1>4 DEF ArenaType
  <1>7. OneFirst' BY <1>2, <1>4 DEF OneFirst
  <1>8. {c \in DOMAIN blocks' : blocks'[c].allocated} = arena'.left
    BY <1>1, <1>3, <1>4 DEF ArenaInv, AllocationsApart
  <1>9. QED BY <1>2, <1>5, <1>6, <1>7, <1>8 DEF ArenaInv, BelowOffset, AllocationsApart

\* No two allocations of an arena overlap, each lies in a block that
\* arena_release reaches and, unless it is larger than a block, inside of it;
\* a block is freed only by arena_release, and the only blocks it does not
\* reach are those arena_clear left behind.
THEOREM AllocationsStayApart == ArenaSpec => []AllocationsApart
  <1>1. ArenaInv /\ [ArenaNext]_arenaVars => ArenaInv'
    <2> SUFFICES ASSUME ArenaInv, [ArenaNext]_arenaVars PROVE ArenaInv'
      OBVIOUS
    <2>1. CASE UNCHANGED arenaVars
      <3>1. Chain' = Chain BY <2>1 DEF arenaVars, Chain
      <3>2. QED
        BY <2>1, <3>1 DEF arenaVars, ArenaInv, ArenaType, OneFirst, First, BelowOffset,
           AllocationsApart
    <2>2. QED BY <2>1, InvInit, InvPush, InvClear, InvRelease DEF ArenaNext
  <1>2. ArenaInv => AllocationsApart BY DEF ArenaInv
  <1>3. QED BY <1>1, <1>2, InvInitial, PTL DEF ArenaSpec

(***************************************************************************)
(* The vector.                                                             *)
(***************************************************************************)

-----------------------------------------------------------------------------
(* The inductive invariant *)

Values == Elements \cup {Garbage}

\* A vector in memory: as many cells as the capacity says.
IsVector(v) ==
    /\ v \in [stage : {"none", "ready", "shrunk", "lost"}, size : Nat, capacity : Nat,
              cells : Seq(Values), over : {"none", "read", "write"}]
    /\ Len(v.cells) = v.capacity

\* The first n cells are those of the list.
Holds(v, n) == \A i \in 1 .. n : v.cells[i] = list[i]

\* Room for one more element is always made by _vector_grow, because a
\* capacity is never 0.
VectorInv ==
    /\ IsVector(vec) /\ list \in Seq(Elements)
    /\ vec.stage = "none" => list = <<>>
    /\ Ready =>
          /\ vec.capacity > 0 /\ vec.size <= vec.capacity /\ vec.over # "write"
          /\ Len(list) = vec.size /\ Holds(vec, vec.size)
    /\ vec.stage = "shrunk" =>
          /\ HeaderRoom <= vec.size /\ Len(list) = vec.size /\ vec.capacity = vec.size
          /\ Holds(vec, vec.size - HeaderRoom)

-----------------------------------------------------------------------------
(* The operations on the cells *)

\* A set of numbers that is not empty has a least one.
LEMMA NatMin ==
    ASSUME NEW S \in SUBSET Nat, S # {}
    PROVE  \E m \in S : \A n \in S : m <= n
  <1>1. PICK R : R = {p \in Nat \X Nat : p[1] < p[2]}
    OBVIOUS
  <1>2. IsWellFoundedOn(R, Nat) BY <1>1, NatLessThanWellFounded DEF OpToRel
  <1>3. PICK x \in S : \A y \in S : ~(<<y, x>> \in R) BY <1>2, WFMin
  <1>4. \A y \in S : y < x => <<y, x>> \in R BY <1>1
  <1>5. \A y \in S : ~(y < x) BY <1>3, <1>4, Zenon
  <1>6. \A y \in S : x <= y BY <1>5
  <1>7. QED BY <1>6

\* New cells hold what malloc left in them.
LEMMA CellsFacts ==
    ASSUME NEW n \in Nat
    PROVE  Cells(n) \in Seq(Values) /\ Len(Cells(n)) = n /\ \A i \in 1 .. n : Cells(n)[i] = Garbage
  BY DEF Cells, Values

\* vector_resize never shrinks, and keeps every cell.
LEMMA ResizeFacts ==
    ASSUME NEW v, IsVector(v), NEW n \in Nat
    PROVE  LET r == Resize(v, n)
           IN  /\ IsVector(r) /\ r.stage = v.stage /\ r.size = v.size /\ r.over = v.over
               /\ r.capacity = IF n <= v.capacity THEN v.capacity ELSE n
               /\ \A i \in 1 .. v.capacity : r.cells[i] = v.cells[i]
  <1>1. CASE n <= v.capacity BY <1>1 DEF Resize
  <1>2. CASE ~(n <= v.capacity)
    <2>1. v.capacity \in Nat /\ v.cells \in Seq(Values) /\ Len(v.cells) = v.capacity
      BY DEF IsVector
    <2>2. PICK cs : cs = v.cells \o Cells(n - v.capacity)
      OBVIOUS
    <2>3. /\ cs \in Seq(Values) /\ Len(cs) = n
          /\ \A i \in 1 .. v.capacity : cs[i] = v.cells[i]
      <3>1. n - v.capacity \in Nat BY <1>2, <2>1
      <3>2. PICK g : g = Cells(n - v.capacity)
        OBVIOUS
      <3>3. g \in Seq(Values) /\ Len(g) = n - v.capacity BY <3>1, <3>2, CellsFacts
      <3>4. /\ v.cells \o g \in Seq(Values) /\ Len(v.cells \o g) = Len(v.cells) + Len(g)
            /\ \A i \in 1 .. Len(v.cells) + Len(g) :
                  (v.cells \o g)[i] = IF i <= Len(v.cells) THEN v.cells[i]
                                      ELSE g[i - Len(v.cells)]
        BY <2>1, <3>3, ConcatProperties
      <3>5. Len(v.cells) + Len(g) = n BY <2>1, <3>3
      <3>6. \A i \in 1 .. v.capacity : i \in 1 .. n /\ i <= Len(v.cells) BY <1>2, <2>1
      <3>7. QED BY <2>2, <3>2, <3>4, <3>5, <3>6
    <2>4. Resize(v, n) = [v EXCEPT !.capacity = n, !.cells = cs]
      BY <1>2, <2>2 DEF Resize
    <2>5. QED BY <1>2, <2>1, <2>3, <2>4 DEF IsVector
  <1>3. QED BY <1>1, <1>2

\* round(capacity * 1.61) is larger than any capacity but 0.
LEMMA RoomFacts ==
    ASSUME NEW v, IsVector(v), v.capacity > 0, v.size <= v.capacity
    PROVE  LET r == Room(v)
           IN  /\ IsVector(r) /\ r.stage = v.stage /\ r.size = v.size /\ r.over = v.over
               /\ r.size < r.capacity
               /\ \A i \in 1 .. v.size : r.cells[i] = v.cells[i]
  <1>1. v.capacity \in Nat /\ v.size \in Nat BY DEF IsVector
  <1>2. CASE v.capacity = v.size
    <2>1. PICK n : n = (v.capacity * 161 + 50) \div 100
      OBVIOUS
    <2>2. n \in Nat /\ n > v.capacity BY <1>1, <2>1
    <2>3. Room(v) = Resize(v, n) BY <1>2, <2>1 DEF Room, Grow
    <2>4. /\ IsVector(Room(v)) /\ Room(v).stage = v.stage /\ Room(v).size = v.size
          /\ Room(v).over = v.over
          /\ Room(v).capacity = IF n <= v.capacity THEN v.capacity ELSE n
          /\ \A i \in 1 .. v.capacity : Room(v).cells[i] = v.cells[i]
      BY <2>2, <2>3, ResizeFacts
    <2>5. QED BY <1>1, <1>2, <2>2, <2>4
  <1>3. CASE v.capacity # v.size BY <1>1, <1>3 DEF Room
  <1>4. QED BY <1>2, <1>3

\* Writing one cell.
LEMMA PutFacts ==
    ASSUME NEW v, IsVector(v), NEW p \in Nat, p < v.capacity, NEW e \in Elements
    PROVE  LET r == Put(v, p, e)
           IN  /\ IsVector(r) /\ r.stage = v.stage /\ r.size = v.size /\ r.over = v.over
               /\ r.capacity = v.capacity
               /\ r.cells[p + 1] = e
               /\ \A i \in 1 .. v.capacity : i # p + 1 => r.cells[i] = v.cells[i]
  <1>1. v.capacity \in Nat /\ v.cells \in Seq(Values) /\ Len(v.cells) = v.capacity /\ e \in Values
    BY DEF IsVector, Values
  <1>2. Put(v, p, e) = [v EXCEPT !.cells[p + 1] = e]
    BY <1>1 DEF Put
  <1>3. PICK cs : cs = [v.cells EXCEPT ![p + 1] = e]
    OBVIOUS
  <1>4. p + 1 \in 1 .. Len(v.cells) BY <1>1
  <1>5. cs \in Seq(Values) /\ Len(cs) = v.capacity /\ cs[p + 1] = e
        /\ \A i \in 1 .. v.capacity : i # p + 1 => cs[i] = v.cells[i]
    BY <1>1, <1>3, <1>4
  <1>6. Put(v, p, e) = [v EXCEPT !.cells = cs] BY <1>2, <1>3 DEF IsVector
  <1>7. QED BY <1>1, <1>5, <1>6 DEF IsVector

\* Vector r is v after a memmove of n elements that all go to cells of v.
Moved(v, r, to, from, n) ==
    /\ IsVector(r) /\ r.stage = v.stage /\ r.size = v.size /\ r.capacity = v.capacity
    /\ v.over # "write" => r.over # "write"
    /\ \A i \in 1 .. v.capacity : ~(to < i /\ i <= to + n) => r.cells[i] = v.cells[i]
    /\ \A i \in 1 .. v.capacity :
          to < i /\ i <= to + n /\ from + i - to <= v.capacity =>
              r.cells[i] = v.cells[from + i - to]

\* memmove, cell by cell.
LEMMA MoveFacts ==
    ASSUME NEW v, IsVector(v), NEW to \in Nat, NEW from \in Nat, NEW n \in Nat,
           to + n <= v.capacity
    PROVE  Moved(v, Move(v, to, from, n), to, from, n)
  <1>1. v.capacity \in Nat /\ v.cells \in Seq(Values) /\ Len(v.cells) = v.capacity
        /\ DOMAIN v.cells = 1 .. v.capacity
    BY DEF IsVector
  <1> DEFINE Cell(i) == IF i - 1 \in to .. to + n - 1
                        THEN IF from + (i - 1 - to) < v.capacity
                             THEN v.cells[from + (i - 1 - to) + 1] ELSE Garbage
                        ELSE v.cells[i]
  <1>2. PICK cs : cs = [i \in 1 .. v.capacity |-> Cell(i)]
    OBVIOUS
  <1>3. PICK o : o = IF to + n > v.capacity THEN "write"
                     ELSE IF from + n > v.capacity THEN "read" ELSE v.over
    OBVIOUS
  <1>4. Move(v, to, from, n) = [v EXCEPT !.cells = cs, !.over = o]
    BY <1>1, <1>2, <1>3 DEF Move
  <1>5. ASSUME NEW i \in 1 .. v.capacity
        PROVE  /\ Cell(i) \in Values
               /\ ~(to < i /\ i <= to + n) => Cell(i) = v.cells[i]
               /\ to < i /\ i <= to + n /\ from + i - to <= v.capacity =>
                      Cell(i) = v.cells[from + i - to]
    <2>1. CASE to < i /\ i <= to + n
      <3>1. i - 1 \in to .. to + n - 1 BY <1>1, <2>1
      <3>2. CASE from + i - to <= v.capacity
        <4>1. from + (i - 1 - to) < v.capacity /\ from + (i - 1 - to) + 1 = from + i - to
          BY <1>1, <3>2
        <4>2. from + i - to \in 1 .. Len(v.cells) BY <1>1, <2>1, <3>2
        <4>3. v.cells[from + i - to] \in Values BY <1>1, <4>2
        <4>4. QED BY <2>1, <3>1, <4>1, <4>3
      <3>3. CASE ~(from + i - to <= v.capacity)
        <4>1. ~(from + (i - 1 - to) < v.capacity) BY <1>1, <3>3
        <4>2. QED BY <2>1, <3>1, <3>3, <4>1 DEF Values
      <3>4. QED BY <3>2, <3>3
    <2>2. CASE ~(to < i /\ i <= to + n)
      <3>1. i - 1 \notin to .. to + n - 1 BY <1>1, <2>2
      <3>2. v.cells[i] \in Values BY <1>1
      <3>3. QED BY <2>2, <3>1, <3>2
    <2>3. QED BY <2>1, <2>2
  <1> HIDE DEF Cell
  <1>6. cs \in Seq(Values) /\ Len(cs) = v.capacity /\ \A i \in 1 .. v.capacity : cs[i] = Cell(i)
    <2>1. \A i \in 1 .. v.capacity : cs[i] = Cell(i) BY <1>2
    <2>2. cs \in [1 .. v.capacity -> Values] BY <1>2, <1>5
    <2>3. cs \in Seq(Values) /\ Len(cs) = v.capacity BY <1>1, <2>2
    <2>4. QED BY <2>1, <2>3
  <1>7. o \in {"none", "read", "write"} /\ (v.over # "write" => o # "write")
    BY <1>1, <1>3 DEF IsVector
  <1>8. PICK r : r = Move(v, to, from, n)
    OBVIOUS
  <1>9. /\ IsVector(r) /\ r.stage = v.stage /\ r.size = v.size /\ r.capacity = v.capacity
        /\ r.cells = cs /\ (v.over # "write" => r.over # "write")
    BY <1>1, <1>4, <1>6, <1>7, <1>8 DEF IsVector
  <1>10. ASSUME NEW i \in 1 .. v.capacity
         PROVE  /\ ~(to < i /\ i <= to + n) => r.cells[i] = v.cells[i]
                /\ to < i /\ i <= to + n /\ from + i - to <= v.capacity =>
                       r.cells[i] = v.cells[from + i - to]
    <2>1. r.cells[i] = Cell(i) BY <1>6, <1>9
    <2>2. QED BY <1>5, <2>1
  <1>11. Moved(v, r, to, from, n) BY <1>9, <1>10 DEF Moved
  <1>12. QED BY <1>8, <1>11

-----------------------------------------------------------------------------
(* The list: what the library's operators on sequences return *)

\* The list with one element more, position by position.
LEMMA InsertFacts ==
    ASSUME NEW s \in Seq(Elements), NEW p \in 0 .. Len(s), NEW e \in Elements
    PROVE  LET t == InsertAt(s, p + 1, e)
           IN  /\ t \in Seq(Elements) /\ Len(t) = Len(s) + 1
               /\ t[p + 1] = e
               /\ \A i \in 1 .. p : t[i] = s[i]
               /\ \A i \in (p + 2) .. (Len(s) + 1) : t[i] = s[i - 1]
  <1>0. Len(s) \in Nat /\ p \in Nat /\ (p + 1) - 1 = p BY LenProperties
  <1>1. PICK a : a = SubSeq(s, 1, p)
    OBVIOUS
  <1>2. PICK b : b = SubSeq(s, p + 1, Len(s))
    OBVIOUS
  <1>3. a \in Seq(Elements) /\ Len(a) = p /\ \A i \in 1 .. p : a[i] = s[i]
    BY <1>0, <1>1, SubSeqProperties
  <1>4. b \in Seq(Elements) /\ Len(b) = Len(s) - p /\ \A i \in 1 .. Len(s) - p : b[i] = s[p + i]
    BY <1>0, <1>2, SubSeqProperties
  <1>5. PICK c : c = a \o <<e>>
    OBVIOUS
  <1>6. c \in Seq(Elements) /\ Len(c) = p + 1 /\ c[p + 1] = e /\ \A i \in 1 .. p : c[i] = s[i]
    <2>1. <<e>> \in Seq(Elements) /\ Len(<<e>>) = 1 /\ <<e>>[1] = e OBVIOUS
    <2>2. PICK one : one = <<e>>
      OBVIOUS
    <2>3. /\ c \in Seq(Elements) /\ Len(c) = Len(a) + Len(one)
          /\ \A i \in 1 .. Len(a) + Len(one) : c[i] = IF i <= Len(a) THEN a[i] ELSE one[i - Len(a)]
      BY <1>3, <1>5, <2>1, <2>2, ConcatProperties
    <2>4. Len(a) = p /\ Len(one) = 1 /\ one[1] = e BY <1>3, <2>1, <2>2
    <2>5. Len(c) = p + 1 BY <2>3, <2>4
    <2>6. c[p + 1] = e
      <3>1. p + 1 \in 1 .. Len(a) + Len(one) /\ ~(p + 1 <= Len(a)) /\ (p + 1) - Len(a) = 1
        BY <1>0, <2>4
      <3>2. QED BY <2>3, <2>4, <3>1
    <2>7. \A i \in 1 .. p : c[i] = s[i] BY <1>0, <1>3, <2>3, <2>4
    <2>8. QED BY <2>3, <2>5, <2>6, <2>7
  <1>7. PICK t : t = c \o b
    OBVIOUS
  <1>a. /\ t \in Seq(Elements) /\ Len(t) = Len(c) + Len(b)
        /\ \A i \in 1 .. Len(c) + Len(b) : t[i] = IF i <= Len(c) THEN c[i] ELSE b[i - Len(c)]
    BY <1>4, <1>6, <1>7, ConcatProperties
  <1>b. Len(c) = p + 1 /\ Len(c) + Len(b) = Len(s) + 1 BY <1>0, <1>4, <1>6
  <1>8. t \in Seq(Elements) /\ Len(t) = Len(s) + 1
    BY <1>a, <1>b, Zenon
  <1>9. \A i \in 1 .. Len(s) + 1 : t[i] = IF i <= p + 1 THEN c[i] ELSE b[i - (p + 1)]
    BY <1>a, <1>b, Zenon
  <1>10. \A i \in (p + 2) .. (Len(s) + 1) : t[i] = s[i - 1]
    <2>1. SUFFICES ASSUME NEW i \in (p + 2) .. (Len(s) + 1) PROVE t[i] = s[i - 1]
      OBVIOUS
    <2>2. /\ i \in 1 .. Len(s) + 1 /\ ~(i <= p + 1)
          /\ i - (p + 1) \in 1 .. Len(s) - p /\ p + (i - (p + 1)) = i - 1
      BY <1>0
    <2>3. t[i] = b[i - (p + 1)] BY <1>9, <2>2, Zenon
    <2>4. b[i - (p + 1)] = s[p + (i - (p + 1))] BY <1>4, <2>2, Zenon
    <2>5. QED BY <2>2, <2>3, <2>4, Zenon
  <1>11. t = InsertAt(s, p + 1, e)
    <2>1. InsertAt(s, p + 1, e)
            = SubSeq(s, 1, (p + 1) - 1) \o <<e>> \o SubSeq(s, p + 1, Len(s))
      BY Zenon DEF InsertAt
    <2>2. (p + 1) - 1 = p BY <1>0
    <2>3. QED BY <1>1, <1>2, <1>5, <1>7, <2>1, <2>2, Zenon
  <1>12. t[p + 1] = e /\ \A i \in 1 .. p : t[i] = s[i]
    BY <1>0, <1>6, <1>9
  <1>13. QED BY <1>8, <1>10, <1>11, <1>12, Zenon

\* The list with one element less.
LEMMA RemoveFacts ==
    ASSUME NEW s \in Seq(Elements), NEW p \in 0 .. (Len(s) - 1)
    PROVE  LET t == RemoveAt(s, p + 1)
           IN  /\ t \in Seq(Elements) /\ Len(t) = Len(s) - 1
               /\ \A i \in 1 .. p : t[i] = s[i]
               /\ \A i \in (p + 1) .. (Len(s) - 1) : t[i] = s[i + 1]
  <1>0. Len(s) \in Nat /\ p \in Nat /\ (p + 1) - 1 = p /\ (p + 1) + 1 = p + 2 BY LenProperties
  <1>1. PICK a : a = SubSeq(s, 1, p)
    OBVIOUS
  <1>2. PICK b : b = SubSeq(s, p + 2, Len(s))
    OBVIOUS
  <1>3. a \in Seq(Elements) /\ Len(a) = p /\ \A i \in 1 .. p : a[i] = s[i]
    BY <1>0, <1>1, SubSeqProperties
  <1>4. /\ b \in Seq(Elements) /\ Len(b) = Len(s) - p - 1
        /\ \A i \in 1 .. Len(s) - p - 1 : b[i] = s[p + 1 + i]
    BY <1>0, <1>2, SubSeqProperties
  <1>5. PICK t : t = a \o b
    OBVIOUS
  <1>6. t \in Seq(Elements) /\ Len(t) = Len(s) - 1
    <2>1. t \in Seq(Elements) /\ Len(t) = Len(a) + Len(b)
      BY <1>3, <1>4, <1>5, ConcatProperties
    <2>2. Len(a) + Len(b) = Len(s) - 1 BY <1>0, <1>3, <1>4
    <2>3. QED BY <2>1, <2>2
  <1>7. \A i \in 1 .. Len(s) - 1 : t[i] = IF i <= p THEN a[i] ELSE b[i - p]
    BY <1>0, <1>3, <1>4, <1>5
  <1>8. \A i \in (p + 1) .. (Len(s) - 1) : t[i] = s[i + 1]
    BY <1>0, <1>4, <1>7
  <1>9. t = RemoveAt(s, p + 1)
    <2>1. RemoveAt(s, p + 1) = SubSeq(s, 1, (p + 1) - 1) \o SubSeq(s, (p + 1) + 1, Len(s))
      BY Zenon DEF RemoveAt
    <2>2. (p + 1) - 1 = p /\ (p + 1) + 1 = p + 2 BY <1>0
    <2>3. QED BY <1>1, <1>2, <1>5, <2>1, <2>2, Zenon
  <1>10. \A i \in 1 .. p : t[i] = s[i] BY <1>0, <1>3, <1>7
  <1>11. QED BY <1>6, <1>8, <1>9, <1>10, Zenon

-----------------------------------------------------------------------------
(* The calls *)

\* The invariant for a vector in use.
LEMMA StaysReady ==
    ASSUME IsVector(vec'), list' \in Seq(Elements), vec'.stage = "ready",
           vec'.capacity > 0, vec'.size <= vec'.capacity, vec'.over # "write",
           Len(list') = vec'.size, \A i \in 1 .. vec'.size : vec'.cells[i] = list'[i]
    PROVE  VectorInv'
  BY DEF VectorInv, Ready, Holds

\* What the invariant says of a vector in use.
LEMMA ReadyFacts ==
    ASSUME VectorInv, Ready
    PROVE  /\ IsVector(vec) /\ list \in Seq(Elements) /\ vec.stage = "ready"
           /\ vec.capacity \in Nat \ {0} /\ vec.size \in 0 .. vec.capacity
           /\ vec.over # "write" /\ Len(list) = vec.size
           /\ \A i \in 1 .. vec.size : vec.cells[i] = list[i]
  BY DEF VectorInv, Ready, Holds, IsVector

\* Vector r is v with another size.
Sized(v, r, n) ==
    /\ IsVector(r) /\ r.stage = v.stage /\ r.over = v.over /\ r.size = n
    /\ r.capacity = v.capacity /\ r.cells = v.cells

\* Setting the size changes nothing else.
LEMMA SizeFacts ==
    ASSUME NEW v, IsVector(v), NEW n \in Nat
    PROVE  Sized(v, [v EXCEPT !.size = n], n)
  BY DEF IsVector, Sized

\* The operations keep the invariant, one by one.
LEMMA InvPushBack ==
    ASSUME VectorInv, NEW e \in Elements, VectorPushBack(e)
    PROVE  VectorInv'
  <1>0. Ready BY DEF VectorPushBack
  <1>1. PICK n : n = vec.size
    OBVIOUS
  <1>2. PICK r : r = Room(vec)
    OBVIOUS
  <1>3. n \in Nat /\ n <= vec.capacity /\ Len(list) = n /\ list \in Seq(Elements)
    BY <1>0, <1>1, ReadyFacts
  <1>4. /\ IsVector(r) /\ r.stage = "ready" /\ r.size = n /\ r.over # "write"
        /\ n < r.capacity /\ r.capacity \in Nat /\ \A i \in 1 .. n : r.cells[i] = list[i]
    <2>1. /\ IsVector(r) /\ r.stage = vec.stage /\ r.size = vec.size /\ r.over = vec.over
          /\ r.size < r.capacity /\ \A i \in 1 .. vec.size : r.cells[i] = vec.cells[i]
      BY <1>0, <1>2, ReadyFacts, RoomFacts
    <2>2. r.capacity \in Nat BY <2>1 DEF IsVector
    <2>3. QED BY <1>0, <1>1, <2>1, <2>2, ReadyFacts
  <1>5. PICK u : u = Put(r, n, e)
    OBVIOUS
  <1>6. /\ IsVector(u) /\ u.stage = "ready" /\ u.size = n /\ u.over # "write"
        /\ u.capacity = r.capacity /\ u.cells[n + 1] = e
        /\ \A i \in 1 .. r.capacity : i # n + 1 => u.cells[i] = r.cells[i]
    BY <1>3, <1>4, <1>5, PutFacts
  <1>7. /\ IsVector(vec') /\ vec'.stage = "ready" /\ vec'.over # "write" /\ vec'.size = n + 1
        /\ vec'.capacity = r.capacity /\ vec'.cells = u.cells
    <2>1. vec' = [u EXCEPT !.size = n + 1]
      BY <1>1, <1>2, <1>5, <1>6 DEF VectorPushBack
    <2>2. n + 1 \in Nat BY <1>3
    <2>3. Sized(u, vec', n + 1) BY <1>6, <2>1, <2>2, SizeFacts
    <2>4. QED BY <1>6, <2>3 DEF Sized
  <1>8. list' = Append(list, e) BY DEF VectorPushBack
  <1>9. list' \in Seq(Elements) /\ Len(list') = n + 1 /\ list'[n + 1] = e
        /\ \A i \in 1 .. n : list'[i] = list[i]
    BY <1>3, <1>8, AppendProperties
  <1>10. \A i \in 1 .. n + 1 : u.cells[i] = list'[i]
    BY <1>3, <1>4, <1>6, <1>9
  <1>11. vec'.capacity > 0 /\ vec'.size <= vec'.capacity BY <1>3, <1>4, <1>7
  <1>12. QED BY <1>7, <1>9, <1>10, <1>11, StaysReady

LEMMA InvInsert ==
    ASSUME VectorInv, NEW e \in Elements, NEW p \in Nat, VectorInsert(e, p)
    PROVE  VectorInv'
  <1>0. Ready BY DEF VectorInsert
  <1>1. PICK n : n = vec.size
    OBVIOUS
  <1>2. PICK r : r = Room(vec)
    OBVIOUS
  <1>3. n \in Nat /\ n <= vec.capacity /\ Len(list) = n /\ list \in Seq(Elements) /\ p <= n
    BY <1>0, <1>1, ReadyFacts DEF VectorInsert
  <1>4. /\ IsVector(r) /\ r.stage = "ready" /\ r.size = n /\ r.over # "write"
        /\ n < r.capacity /\ r.capacity \in Nat /\ \A i \in 1 .. n : r.cells[i] = list[i]
    <2>1. /\ IsVector(r) /\ r.stage = vec.stage /\ r.size = vec.size /\ r.over = vec.over
          /\ r.size < r.capacity /\ \A i \in 1 .. vec.size : r.cells[i] = vec.cells[i]
      BY <1>0, <1>2, ReadyFacts, RoomFacts
    <2>2. r.capacity \in Nat BY <2>1 DEF IsVector
    <2>3. QED BY <1>0, <1>1, <2>1, <2>2, ReadyFacts
  <1>5. PICK m : m = Move(r, p + 1, p, n - p)
    OBVIOUS
  <1>6. n - p \in Nat /\ p + 1 \in Nat /\ (p + 1) + (n - p) = n + 1 BY <1>3
  <1>7. /\ IsVector(m) /\ m.stage = "ready" /\ m.size = n /\ m.over # "write"
        /\ m.capacity = r.capacity
        /\ \A i \in 1 .. r.capacity : ~(p + 1 < i /\ i <= n + 1) => m.cells[i] = r.cells[i]
        /\ \A i \in 1 .. r.capacity :
              p + 1 < i /\ i <= n + 1 /\ p + (i - (p + 1)) <= r.capacity =>
                  m.cells[i] = r.cells[p + (i - (p + 1))]
    <2>1. PICK to \in Nat : to = p + 1 BY <1>6
    <2>2. PICK count \in Nat : count = n - p BY <1>6
    <2>3. to + count <= r.capacity /\ to + count = n + 1 BY <1>3, <1>4, <2>1, <2>2
    <2>4. m = Move(r, to, p, count) BY <1>5, <2>1, <2>2
    <2>5. Moved(r, m, to, p, count) BY <1>4, <2>3, <2>4, MoveFacts
    <2>6. QED BY <1>4, <2>1, <2>3, <2>5 DEF Moved
  <1>8. /\ \A i \in 1 .. p : m.cells[i] = list[i]
        /\ \A i \in (p + 2) .. (n + 1) : m.cells[i] = list[i - 1]
    <2>1. ASSUME NEW i \in 1 .. p PROVE m.cells[i] = list[i]
      <3>1. i \in 1 .. r.capacity /\ i \in 1 .. n /\ ~(p + 1 < i) BY <1>3, <1>4
      <3>2. m.cells[i] = r.cells[i] BY <1>7, <3>1
      <3>3. QED BY <1>4, <3>1, <3>2
    <2>2. ASSUME NEW i \in (p + 2) .. (n + 1) PROVE m.cells[i] = list[i - 1]
      <3>1. /\ i \in 1 .. r.capacity /\ p + 1 < i /\ i <= n + 1 /\ i - 1 \in 1 .. n
            /\ p + (i - (p + 1)) = i - 1 /\ i - 1 <= r.capacity
        BY <1>3, <1>4
      <3>2. m.cells[i] = r.cells[i - 1] BY <1>7, <3>1
      <3>3. QED BY <1>4, <3>1, <3>2
    <2>3. QED BY <2>1, <2>2
  <1>9. PICK u : u = Put(m, p, e)
    OBVIOUS
  <1>10. /\ IsVector(u) /\ u.stage = "ready" /\ u.size = n /\ u.over # "write"
         /\ u.capacity = r.capacity /\ u.cells[p + 1] = e
         /\ \A i \in 1 .. r.capacity : i # p + 1 => u.cells[i] = m.cells[i]
    <2>1. p < m.capacity BY <1>3, <1>4, <1>7
    <2>2. QED BY <1>7, <1>9, <2>1, PutFacts
  <1>11. /\ IsVector(vec') /\ vec'.stage = "ready" /\ vec'.over # "write" /\ vec'.size = n + 1
         /\ vec'.capacity = r.capacity /\ vec'.cells = u.cells
    <2>1. vec' = [u EXCEPT !.size = n + 1]
      BY <1>1, <1>2, <1>5, <1>9, <1>10 DEF VectorInsert
    <2>2. n + 1 \in Nat BY <1>3
    <2>3. Sized(u, vec', n + 1) BY <1>10, <2>1, <2>2, SizeFacts
    <2>4. QED BY <1>10, <2>3 DEF Sized
  <1>12. list' = InsertAt(list, p + 1, e) BY DEF VectorInsert
  <1>13. /\ list' \in Seq(Elements) /\ Len(list') = n + 1 /\ list'[p + 1] = e
         /\ \A i \in 1 .. p : list'[i] = list[i]
         /\ \A i \in (p + 2) .. (n + 1) : list'[i] = list[i - 1]
    <2>1. p \in 0 .. Len(list) BY <1>3
    <2>2. /\ list' \in Seq(Elements) /\ Len(list') = Len(list) + 1 /\ list'[p + 1] = e
          /\ \A i \in 1 .. p : list'[i] = list[i]
          /\ \A i \in (p + 2) .. (Len(list) + 1) : list'[i] = list[i - 1]
      BY <1>3, <1>12, <2>1, InsertFacts
    <2>3. QED BY <1>3, <2>2
  <1>14. \A i \in 1 .. n + 1 : u.cells[i] = list'[i]
    <2>1. \A i \in 1 .. n + 1 : i \in 1 .. r.capacity
             /\ (i \in 1 .. p \/ i = p + 1 \/ i \in (p + 2) .. (n + 1))
             /\ (i \in 1 .. p => i # p + 1) /\ (i \in (p + 2) .. (n + 1) => i # p + 1)
      BY <1>3, <1>4
    <2>2. \A i \in 1 .. p : i \in 1 .. n + 1 => u.cells[i] = list'[i]
      BY <1>8, <1>10, <1>13, <2>1
    <2>3. \A i \in (p + 2) .. (n + 1) : i \in 1 .. n + 1 => u.cells[i] = list'[i]
      BY <1>8, <1>10, <1>13, <2>1
    <2>4. QED BY <1>10, <1>13, <2>1, <2>2, <2>3
  <1>15. vec'.capacity > 0 /\ vec'.size <= vec'.capacity BY <1>3, <1>4, <1>11
  <1>16. QED BY <1>11, <1>13, <1>14, <1>15, StaysReady

\* The move of vector_remove and vector_pop_front: it reads one element too
\* many, which does no harm to what the vector holds.
LEMMA MoveDown ==
    ASSUME VectorInv, Ready, NEW p \in Nat, p < vec.size, NEW to, NEW from, NEW count,
           to = p, from = p + 1, count = vec.size - p,
           vec' = [Move(vec, to, from, count) EXCEPT !.size = @ - 1],
           list' = RemoveAt(list, p + 1)
    PROVE  VectorInv'
  <1>1. PICK n : n = vec.size
    OBVIOUS
  <1>2. PICK c : c = vec.capacity
    OBVIOUS
  <1>3. /\ n \in Nat /\ c \in Nat \ {0} /\ n <= c /\ Len(list) = n /\ list \in Seq(Elements)
        /\ p < n /\ IsVector(vec) /\ vec.stage = "ready" /\ vec.over # "write"
        /\ \A i \in 1 .. n : vec.cells[i] = list[i]
    BY <1>1, <1>2, ReadyFacts
  <1>4. PICK m : m = Move(vec, to, from, count)
    OBVIOUS
  <1>5. to \in Nat /\ from \in Nat /\ count \in Nat /\ to + count = n BY <1>1, <1>3
  <1>6. Moved(vec, m, to, from, count)
    BY <1>2, <1>3, <1>4, <1>5, MoveFacts
  <1>7. /\ IsVector(m) /\ m.stage = "ready" /\ m.size = n /\ m.over # "write" /\ m.capacity = c
        /\ \A i \in 1 .. p : m.cells[i] = list[i]
        /\ \A i \in (p + 1) .. (n - 1) : m.cells[i] = list[i + 1]
    <2>1. IsVector(m) /\ m.stage = "ready" /\ m.size = n /\ m.over # "write" /\ m.capacity = c
      BY <1>1, <1>2, <1>3, <1>6 DEF Moved
    <2>2. ASSUME NEW i \in 1 .. p PROVE m.cells[i] = list[i]
      <3>1. i \in 1 .. c /\ i \in 1 .. n /\ ~(to < i) BY <1>3
      <3>2. m.cells[i] = vec.cells[i] BY <1>2, <1>6, <3>1 DEF Moved
      <3>3. QED BY <1>3, <3>1, <3>2
    <2>3. ASSUME NEW i \in (p + 1) .. (n - 1) PROVE m.cells[i] = list[i + 1]
      <3>1. /\ i \in 1 .. c /\ to < i /\ i <= to + count /\ from + i - to = i + 1
            /\ i + 1 <= c /\ i + 1 \in 1 .. n
        <4>1. i \in Nat /\ p < i /\ i < n BY <1>3
        <4>2. to < i /\ i <= to + count
          BY <1>3, <1>5, <4>1
        <4>3. from + i - to = i + 1
          <5>1. (p + 1) + i - p = i + 1 BY <4>1
          <5>2. QED BY <5>1, Zenon
        <4>4. QED BY <1>3, <4>1, <4>2, <4>3
      <3>2. m.cells[i] = vec.cells[from + i - to] BY <1>2, <1>6, <3>1 DEF Moved
      <3>3. QED BY <1>3, <3>1, <3>2
    <2>4. QED BY <2>1, <2>2, <2>3
  <1>8. /\ IsVector(vec') /\ vec'.stage = "ready" /\ vec'.over # "write" /\ vec'.size = n - 1
        /\ vec'.capacity = c /\ vec'.cells = m.cells
    <2>1. PICK l \in Nat : l = n - 1 BY <1>3
    <2>2. vec' = [m EXCEPT !.size = l] BY <1>4, <1>7, <2>1
    <2>3. Sized(m, vec', l) BY <1>7, <2>2, SizeFacts
    <2>4. QED BY <1>7, <2>1, <2>3 DEF Sized
  <1>9. /\ list' \in Seq(Elements) /\ Len(list') = n - 1
        /\ \A i \in 1 .. p : list'[i] = list[i]
        /\ \A i \in (p + 1) .. (n - 1) : list'[i] = list[i + 1]
    <2>1. p \in 0 .. (Len(list) - 1) BY <1>3
    <2>2. /\ list' \in Seq(Elements) /\ Len(list') = Len(list) - 1
          /\ \A i \in 1 .. p : list'[i] = list[i]
          /\ \A i \in (p + 1) .. (Len(list) - 1) : list'[i] = list[i + 1]
      BY <1>3, <2>1, RemoveFacts
    <2>3. QED BY <1>3, <2>2
  <1>10. \A i \in 1 .. n - 1 : m.cells[i] = list'[i]
    <2>1. \A i \in 1 .. n - 1 : i \in 1 .. p \/ i \in (p + 1) .. (n - 1) BY <1>3
    <2>2. QED BY <1>7, <1>9, <2>1
  <1>11. vec'.capacity > 0 /\ vec'.size <= vec'.capacity BY <1>3, <1>8
  <1>12. QED BY <1>8, <1>9, <1>10, <1>11, StaysReady

LEMMA InvRemove == ASSUME VectorInv, NEW p \in Nat, VectorRemove(p) PROVE VectorInv'
  BY MoveDown DEF VectorRemove

LEMMA InvPopFront == VectorInv /\ VectorPopFront => VectorInv'
  <1> SUFFICES ASSUME VectorInv, VectorPopFront PROVE VectorInv'
    OBVIOUS
  <1>1. /\ Ready /\ vec.size \in Nat /\ 0 < vec.size /\ list \in Seq(Elements)
        /\ Len(list) = vec.size
    BY ReadyFacts DEF VectorPopFront
  <1>2. Tail(list) = RemoveAt(list, 0 + 1)
    <2>1. PICK t : t = RemoveAt(list, 0 + 1)
      OBVIOUS
    <2>2. /\ t \in Seq(Elements) /\ Len(t) = Len(list) - 1
          /\ \A i \in (0 + 1) .. (Len(list) - 1) : t[i] = list[i + 1]
      <3>1. 0 \in 0 .. (Len(list) - 1) BY <1>1
      <3>2. QED BY <1>1, <2>1, <3>1, RemoveFacts
    <2>3. list # <<>> BY <1>1
    <2>4. PICK u : u = Tail(list)
      OBVIOUS
    <2>5. /\ u \in Seq(Elements) /\ Len(u) = Len(list) - 1
          /\ \A i \in 1 .. Len(u) : u[i] = list[i + 1]
      BY <1>1, <2>3, <2>4, HeadTailProperties
    <2>6. \A i \in 1 .. Len(u) : u[i] = t[i] BY <1>1, <2>2, <2>5
    <2>7. u = t BY <2>2, <2>5, <2>6, SeqEqual
    <2>8. QED BY <2>1, <2>4, <2>7
  <1>3. PICK from : from = 0 + 1
    OBVIOUS
  <1>4. PICK count : count = vec.size - 0
    OBVIOUS
  <1>5. from = 1 /\ count = vec.size BY <1>1, <1>3, <1>4
  <1>6. vec' = [Move(vec, 0, from, count) EXCEPT !.size = @ - 1]
    BY <1>5 DEF VectorPopFront
  <1>7. list' = RemoveAt(list, 0 + 1) BY <1>2 DEF VectorPopFront
  <1>8. QED BY <1>1, <1>3, <1>4, <1>6, <1>7, MoveDown

LEMMA InvPop == VectorInv /\ VectorPop => VectorInv'
  <1> SUFFICES ASSUME VectorInv, VectorPop PROVE VectorInv'
    OBVIOUS
  <1>1. PICK n : n = vec.size
    OBVIOUS
  <1>2. /\ Ready /\ n \in Nat /\ 0 < n /\ n <= vec.capacity /\ vec.capacity \in Nat
        /\ list \in Seq(Elements) /\ Len(list) = n /\ IsVector(vec)
        /\ vec.stage = "ready" /\ vec.over # "write" /\ \A i \in 1 .. n : vec.cells[i] = list[i]
    BY <1>1, ReadyFacts DEF VectorPop
  <1>3. /\ IsVector(vec') /\ vec'.stage = "ready" /\ vec'.over # "write" /\ vec'.size = n - 1
        /\ vec'.capacity = vec.capacity /\ vec'.cells = vec.cells
    <2>1. n - 1 \in Nat BY <1>2
    <2>2. vec' = [vec EXCEPT !.size = n - 1] BY <1>1 DEF VectorPop
    <2>3. Sized(vec, vec', n - 1) BY <1>2, <2>1, <2>2, SizeFacts
    <2>4. QED BY <1>2, <2>3 DEF Sized
  <1>4. list' \in Seq(Elements) /\ Len(list') = n - 1 /\ \A i \in 1 .. n - 1 : list'[i] = list[i]
    <2>1. list' = SubSeq(list, 1, Len(list) - 1) BY DEF VectorPop, Front
    <2>2. \A i \in 1 .. (Len(list) - 1) : list[i] \in Elements BY <1>2
    <2>3. QED BY <1>2, <2>1, <2>2, SubSeqProperties
  <1>5. vec'.capacity > 0 /\ vec'.size <= vec'.capacity
        /\ \A i \in 1 .. n - 1 : vec'.cells[i] = list'[i]
    BY <1>2, <1>3, <1>4
  <1>6. QED BY <1>3, <1>4, <1>5, StaysReady

LEMMA InvNew == ASSUME VectorInv, NEW n \in Nat, VectorNew(n) PROVE VectorInv'
  <1>1. PICK c : c = IF n = 0 THEN DefaultCapacity ELSE n
    OBVIOUS
  <1>2. c \in Nat /\ c > 0 BY <1>1 DEF DefaultCapacity
  <1>3. PICK g : g = Cells(c)
    OBVIOUS
  <1>4. g \in Seq(Values) /\ Len(g) = c BY <1>2, <1>3, CellsFacts
  <1>5. vec' = [stage |-> "ready", size |-> 0, capacity |-> c, cells |-> g, over |-> "none"]
    BY <1>1, <1>3 DEF VectorNew, NoVector
  <1>6. /\ IsVector(vec') /\ vec'.stage = "ready" /\ vec'.size = 0 /\ vec'.capacity = c
        /\ vec'.over = "none"
    BY <1>2, <1>4, <1>5 DEF IsVector
  <1>7. list' \in Seq(Elements) /\ Len(list') = 0
    BY DEF VectorInv, VectorNew
  <1>8. QED BY <1>2, <1>6, <1>7, StaysReady

LEMMA InvResize == ASSUME VectorInv, NEW n \in Nat, VectorResize(n) PROVE VectorInv'
  <1>1. Ready /\ vec' = Resize(vec, n) /\ list' = list BY DEF VectorResize
  <1>2. PICK c : c = vec.capacity
    OBVIOUS
  <1>3. /\ IsVector(vec) /\ list \in Seq(Elements) /\ vec.stage = "ready"
        /\ c \in Nat \ {0} /\ vec.size \in 0 .. c /\ vec.over # "write" /\ Len(list) = vec.size
        /\ \A i \in 1 .. vec.size : vec.cells[i] = list[i]
    BY <1>1, <1>2, ReadyFacts
  <1>4. /\ IsVector(vec') /\ vec'.stage = vec.stage /\ vec'.size = vec.size
        /\ vec'.over = vec.over
        /\ vec'.capacity = IF n <= vec.capacity THEN vec.capacity ELSE n
        /\ \A i \in 1 .. vec.capacity : vec'.cells[i] = vec.cells[i]
    BY <1>1, <1>3, ResizeFacts
  <1>5. vec'.capacity >= c /\ vec'.capacity \in Nat BY <1>2, <1>3, <1>4
  <1>6. \A i \in 1 .. vec.size : vec'.cells[i] = list'[i] BY <1>1, <1>2, <1>3, <1>4
  <1>7. QED BY <1>1, <1>3, <1>4, <1>5, <1>6, StaysReady

LEMMA InvShrink == VectorInv /\ VectorShrinkToFit => VectorInv'
  <1> SUFFICES ASSUME VectorInv, VectorShrinkToFit PROVE VectorInv'
    OBVIOUS
  <1>0. Ready /\ list' = list /\ HeaderRoom \in Nat
    BY VectorAssumption DEF VectorShrinkToFit, VectorAssumption
  <1>1. CASE vec.size < HeaderRoom
    <2>1. vec' = [vec EXCEPT !.stage = "lost"] BY <1>1 DEF VectorShrinkToFit
    <2>2. IsVector(vec') /\ vec'.stage = "lost"
      BY <2>1 DEF VectorInv, IsVector
    <2>3. QED BY <1>0, <2>2 DEF VectorInv, Ready
  <1>2. CASE ~(vec.size < HeaderRoom)
    <2>1. PICK n : n = vec.size - HeaderRoom
      OBVIOUS
    <2>2. /\ IsVector(vec) /\ list \in Seq(Elements) /\ vec.cells \in Seq(Values)
          /\ Len(vec.cells) = vec.capacity /\ vec.size \in Nat /\ vec.size <= vec.capacity
          /\ vec.capacity \in Nat /\ Len(list) = vec.size
          /\ \A i \in 1 .. vec.size : vec.cells[i] = list[i]
      BY <1>0, ReadyFacts DEF IsVector
    <2>3. n \in Nat /\ n <= vec.size /\ n + HeaderRoom = vec.size /\ HeaderRoom <= vec.size
      BY <1>0, <1>2, <2>1, <2>2
    <2>4. PICK a : a = SubSeq(vec.cells, 1, n)
      OBVIOUS
    <2>5. a \in Seq(Values) /\ Len(a) = n /\ \A i \in 1 .. n : a[i] = vec.cells[i]
      <3>1. \A i \in 1 .. n : vec.cells[i] \in Values BY <2>2, <2>3
      <3>2. QED BY <2>3, <2>4, <3>1, SubSeqProperties
    <2>6. PICK g : g = Cells(HeaderRoom)
      OBVIOUS
    <2>7. g \in Seq(Values) /\ Len(g) = HeaderRoom BY <1>0, <2>6, CellsFacts
    <2>8. PICK cs : cs = a \o g
      OBVIOUS
    <2>9. /\ cs \in Seq(Values) /\ Len(cs) = Len(a) + Len(g)
          /\ \A i \in 1 .. Len(a) + Len(g) : cs[i] = IF i <= Len(a) THEN a[i] ELSE g[i - Len(a)]
      BY <2>5, <2>7, <2>8, ConcatProperties
    <2>10. Len(cs) = vec.size BY <2>3, <2>5, <2>7, <2>9
    <2>11. ASSUME NEW i \in 1 .. n PROVE cs[i] = list[i]
      <3>1. i \in 1 .. Len(a) + Len(g) /\ i <= Len(a) BY <1>0, <2>3, <2>5, <2>7
      <3>2. cs[i] = a[i] BY <2>9, <3>1
      <3>3. i \in 1 .. vec.size BY <2>2, <2>3
      <3>4. a[i] = vec.cells[i] /\ vec.cells[i] = list[i] BY <2>2, <2>5, <3>3
      <3>5. QED BY <3>2, <3>4
    <2>12. vec' = [vec EXCEPT !.stage = "shrunk", !.capacity = vec.size, !.cells = cs]
      BY <1>2, <2>1, <2>4, <2>6, <2>8 DEF VectorShrinkToFit
    <2>13. /\ IsVector(vec') /\ vec'.stage = "shrunk" /\ vec'.capacity = vec.size
           /\ vec'.size = vec.size /\ vec'.cells = cs
      BY <2>2, <2>9, <2>10, <2>12 DEF IsVector
    <2>14. QED BY <1>0, <2>1, <2>2, <2>3, <2>11, <2>13 DEF VectorInv, Ready, Holds
  <1>3. QED BY <1>1, <1>2

\* vector_free leaves nothing.
LEMMA NothingThere == ASSUME vec' = NoVector, list' = <<>> PROVE VectorInv'
  BY DEF NoVector, VectorInv, IsVector, Ready

\* VectorInv is inductive.
LEMMA InvVectorNext == VectorInv /\ [VectorNext]_vectorVars => VectorInv'
  <1> SUFFICES ASSUME VectorInv, [VectorNext]_vectorVars PROVE VectorInv'
    OBVIOUS
  <1>1. Capacities \subseteq Nat /\ MaxSize \in Nat /\ 0 .. MaxSize \subseteq Nat
    BY VectorAssumption DEF VectorAssumption
  <1>2. CASE UNCHANGED vectorVars
    BY <1>2 DEF vectorVars, VectorInv, Ready, Holds
  <1>3. CASE \E c \in Capacities : VectorNew(c) \/ VectorResize(c)
    BY <1>1, <1>3, InvNew, InvResize
  <1>4. CASE \E e \in Elements : VectorPushBack(e) BY <1>4, InvPushBack
  <1>5. CASE \E e \in Elements, i \in 0 .. MaxSize : VectorInsert(e, i)
    BY <1>1, <1>5, InvInsert
  <1>6. CASE \E i \in 0 .. MaxSize : VectorRemove(i) BY <1>1, <1>6, InvRemove
  <1>7. CASE VectorPop \/ VectorPopFront \/ VectorShrinkToFit
    BY <1>7, InvPop, InvPopFront, InvShrink
  <1>8. CASE VectorRelease BY <1>8, NothingThere DEF VectorRelease
  <1>9. QED BY <1>2, <1>3, <1>4, <1>5, <1>6, <1>7, <1>8 DEF VectorNext

-----------------------------------------------------------------------------
(* The theorem *)

\* The loop of vector_find stops where the list has the element first.
LEMMA FindsFirst ==
    ASSUME VectorInv, Ready, NEW e \in Elements
    PROVE  VectorFind(e) = IF \E i \in 1 .. Len(list) : list[i] = e
                           THEN (CHOOSE i \in 1 .. Len(list) :
                                   list[i] = e /\ \A j \in 1 .. i - 1 : list[j] # e) - 1
                           ELSE -1
  <1> DEFINE hits == {i \in 0 .. vec.size - 1 : At(vec, i) = e}
  <1>1. PICK n : n = vec.size
    OBVIOUS
  <1>2. n \in Nat /\ Len(list) = n /\ \A i \in 1 .. n : vec.cells[i] = list[i]
    BY <1>1, ReadyFacts
  <1>3. hits = {i \in 0 .. n - 1 : list[i + 1] = e}
    <2>1. \A i \in 0 .. n - 1 : i + 1 \in 1 .. n BY <1>2
    <2>2. QED BY <1>1, <1>2, <2>1 DEF At
  <1>4. VectorFind(e) = IF hits = {} THEN -1 ELSE CHOOSE i \in hits : \A j \in hits : i <= j
    BY DEF VectorFind
  <1> HIDE DEF hits
  <1>5. CASE hits = {}
    <2>1. ASSUME NEW i \in 1 .. n, list[i] = e PROVE FALSE
      <3>1. i - 1 \in 0 .. n - 1 /\ (i - 1) + 1 = i BY <1>2
      <3>2. i - 1 \in hits BY <1>3, <2>1, <3>1
      <3>3. QED BY <1>5, <3>2
    <2>2. QED BY <1>2, <1>4, <1>5, <2>1
  <1>6. CASE hits # {}
    <2>1. hits \subseteq Nat BY <1>2, <1>3
    <2>2. PICK m \in hits : \A j \in hits : m <= j BY <1>6, <2>1, NatMin
    <2>3. VectorFind(e) = m
      <3>1. \A i \in hits : (\A j \in hits : i <= j) => i = m BY <2>1, <2>2
      <3>2. QED BY <1>4, <1>6, <2>2, <3>1
    <2>4. m + 1 \in 1 .. n /\ list[m + 1] = e /\ m \in Nat BY <1>2, <1>3, <2>1
    <2>5. \A j \in 1 .. (m + 1) - 1 : list[j] # e
      <3>1. ASSUME NEW j \in 1 .. (m + 1) - 1, list[j] = e PROVE FALSE
        <4>1. j - 1 \in 0 .. n - 1 /\ (j - 1) + 1 = j /\ j - 1 < m BY <1>2, <2>4
        <4>2. j - 1 \in hits BY <1>3, <3>1, <4>1
        <4>3. QED BY <2>1, <2>2, <2>4, <4>1, <4>2
      <3>2. QED BY <3>1
    <2>6. ASSUME NEW i \in 1 .. n, list[i] = e, \A j \in 1 .. i - 1 : list[j] # e
          PROVE  i = m + 1
      <3>1. ~(i < m + 1) BY <2>4, <2>5, <2>6
      <3>2. ~(m + 1 < i)
        <4>1. m + 1 < i => m + 1 \in 1 .. i - 1 BY <2>4
        <4>2. QED BY <2>4, <2>6, <4>1
      <3>3. QED BY <2>4, <3>1, <3>2
    <2>7. (CHOOSE i \in 1 .. n : list[i] = e /\ \A j \in 1 .. i - 1 : list[j] # e) = m + 1
      BY <2>4, <2>5, <2>6
    <2>8. (m + 1) - 1 = m BY <2>4
    <2>9. QED BY <1>2, <2>3, <2>4, <2>7, <2>8
  <1>7. QED BY <1>5, <1>6

\* Until it is shrunk, a vector is the list its calls describe: every push,
\* insertion and removal moves the elements as the list's does, nothing is
\* written behind the capacity, and vector_find answers as the list would; a
\* shrunk one has lost the last HeaderRoom elements and no other.
THEOREM VectorIsAList == VectorSpec => []VectorIsList
  <1>1. VectorInitial => VectorInv
    BY DEF VectorInitial, NoVector, VectorInv, IsVector, Ready
  <1>2. VectorInv => VectorIsList
    <2> SUFFICES ASSUME VectorInv PROVE VectorIsList
      OBVIOUS
    <2>0. /\ vec.cells \in Seq(Values) /\ Len(vec.cells) = vec.capacity /\ vec.capacity \in Nat
          /\ vec.size \in Nat /\ list \in Seq(Elements) /\ list \in Seq(Values)
          /\ HeaderRoom \in Nat
      BY VectorAssumption DEF VectorInv, IsVector, Values, VectorAssumption
    <2>1. ASSUME Ready PROVE SubSeq(vec.cells, 1, vec.size) = list
      <3>1. PICK t : t = SubSeq(vec.cells, 1, vec.size)
        OBVIOUS
      <3>2. vec.size <= vec.capacity /\ Len(list) = vec.size
            /\ \A i \in 1 .. vec.size : vec.cells[i] = list[i]
        BY <2>0, <2>1, ReadyFacts
      <3>3. \A i \in 1 .. vec.size : vec.cells[i] \in Values BY <2>0, <3>2
      <3>4. t \in Seq(Values) /\ Len(t) = vec.size /\ \A i \in 1 .. vec.size : t[i] = vec.cells[i]
        BY <2>0, <3>1, <3>3, SubSeqProperties
      <3>5. t = list BY <2>0, <3>2, <3>4, SeqEqual
      <3>6. QED BY <3>1, <3>5
    <2>2. ASSUME vec.stage = "shrunk"
          PROVE  LET n == vec.size - HeaderRoom
                 IN  SubSeq(vec.cells, 1, n) = SubSeq(list, 1, n)
      <3>1. PICK n : n = vec.size - HeaderRoom
        OBVIOUS
      <3>2. /\ n \in Nat /\ n <= vec.size /\ vec.size = vec.capacity /\ Len(list) = vec.size
            /\ \A i \in 1 .. n : vec.cells[i] = list[i]
        BY <2>0, <2>2, <3>1 DEF VectorInv, Holds
      <3>3. \A i \in 1 .. n : vec.cells[i] \in Values /\ list[i] \in Values BY <2>0, <3>2
      <3>4. PICK t : t = SubSeq(vec.cells, 1, n)
        OBVIOUS
      <3>5. PICK u : u = SubSeq(list, 1, n)
        OBVIOUS
      <3>6. t \in Seq(Values) /\ Len(t) = n /\ \A i \in 1 .. n : t[i] = vec.cells[i]
        BY <3>2, <3>3, <3>4, SubSeqProperties
      <3>7. u \in Seq(Values) /\ Len(u) = n /\ \A i \in 1 .. n : u[i] = list[i]
        BY <3>2, <3>3, <3>5, SubSeqProperties
      <3>8. t = u BY <3>2, <3>6, <3>7, SeqEqual
      <3>9. QED BY <3>1, <3>4, <3>5, <3>8
    <2>3. ASSUME Ready PROVE vec.over # "write" BY <2>3, ReadyFacts
    <2>4. QED BY <2>0, <2>1, <2>2, <2>3, FindsFirst DEF VectorIsList
  <1>3. QED BY <1>1, <1>2, InvVectorNext, PTL DEF VectorSpec

=============================================================================
