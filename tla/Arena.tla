------------------------------- MODULE Arena -------------------------------
(***************************************************************************)
(* The bump allocator everything the compiler builds lives in (arena.c).   *)
(* Blocks come from malloc, which may give a block it was given back.  The *)
(* linked list of blocks is the sequence of them; a place in memory is a   *)
(* block and an offset into its data.                                      *)
(***************************************************************************)
EXTENDS Integers, Sequences, FiniteSets

CONSTANTS Blocks,      \* what malloc can return
          Word,        \* ARENA_ALIGNMENT
          MinBlock,    \* DEFAULT_ARENA_BLOCK_SIZE
          BlockSizes,  \* the block sizes arenas are created with
          Requests     \* the sizes that are asked for

ASSUME ArenaAssumption ==
  /\ Word \in Nat \ {0} /\ MinBlock \in Nat \ {0}
  /\ BlockSizes \subseteq Nat /\ Requests \subseteq Nat

VARIABLES
  heap,       \* the blocks that are allocated: capacity and used of each
  chain,      \* the blocks from arena->first on; none when there is no arena
  current,    \* the place of arena->current among them
  blockSize,  \* arena->default_block_size
  total,      \* arena->total_allocated
  given,      \* the ranges handed out that their owners may use
  wasReset    \* arena_reset was called

arena == <<chain, current, blockSize, total>>
arenaVars == <<heap, arena, given, wasReset>>

Exists == chain # <<>>
AlignUp(n) == ((n + Word - 1) \div Word) * Word

(* Mutant: what is taken of a new block is not counted. *)
WithBlockUnused(b, capacity, used) ==
  [c \in DOMAIN heap \cup {b} |->
     IF c = b THEN [capacity |-> IF capacity < MinBlock THEN MinBlock ELSE capacity, used |-> 0]
     ELSE heap[c]]

(* arena_new_block, with the first bytes of it used *)
WithBlock(b, capacity, used) ==
  [c \in DOMAIN heap \cup {b} |->
     IF c = b THEN [capacity |-> IF capacity < MinBlock THEN MinBlock ELSE capacity, used |-> used]
     ELSE heap[c]]

ArenaInit ==
  /\ heap = [b \in {} |-> 0] /\ chain = <<>> /\ current = 0 /\ blockSize = 0 /\ total = 0
  /\ given = {} /\ wasReset = FALSE

Create(size) ==
  /\ ~Exists
  /\ blockSize' = IF size > 0 THEN size ELSE MinBlock
  /\ \E b \in Blocks \ DOMAIN heap :
       /\ heap' = WithBlock(b, blockSize', 0)
       /\ chain' = <<b>>
  /\ current' = 1 /\ total' = 0
  /\ UNCHANGED <<given, wasReset>>

-----------------------------------------------------------------------------
(* arena_alloc: the range that is handed out, and the arena after it.      *)
Current == chain[current]

Fits(size) == heap[Current].used + AlignUp(size) <= heap[Current].capacity

Bump(size) == [heap EXCEPT ![Current].used = @ + AlignUp(size)]

Place(block, from, size) == [block |-> block, from |-> from, size |-> size]

AllocHere(size) ==
  /\ Exists /\ size # 0 /\ Fits(size)
  /\ given' = given \cup {Place(Current, heap[Current].used, size)}
  /\ heap' = Bump(size)
  /\ total' = total + AlignUp(size)
  /\ UNCHANGED <<chain, current, blockSize, wasReset>>

(* A block behind the current one that is left from before a reset is      *)
(* taken off the list.                                                     *)
AllocInNewBlock(size) ==
  /\ Exists /\ size # 0 /\ ~Fits(size)
  /\ \E b \in Blocks \ DOMAIN heap :
       /\ heap' = WithBlock(b, IF AlignUp(size) > blockSize THEN AlignUp(size) ELSE blockSize, AlignUp(size))
       /\ chain' = Append(SubSeq(chain, 1, current), b)
       /\ given' = given \cup {Place(b, 0, size)}
  /\ current' = current + 1
  /\ total' = total + AlignUp(size)
  /\ UNCHANGED <<blockSize, wasReset>>

InChain(b) == \E i \in 1..Len(chain) : chain[i] = b

Emptied == [b \in DOMAIN heap |-> IF InChain(b) THEN [heap[b] EXCEPT !.used = 0] ELSE heap[b]]

Reset ==
  /\ Exists
  /\ heap' = Emptied
  /\ current' = 1 /\ total' = 0
  /\ given' = {} /\ wasReset' = TRUE
  /\ UNCHANGED <<chain, blockSize>>

(* Mutant: the first block only. *)
FreedFirst == {chain[1]}

Freed == {b \in DOMAIN heap : InChain(b)}

Destroy ==
  /\ Exists
  /\ heap' = [b \in DOMAIN heap \ Freed |-> heap[b]]
  /\ chain' = <<>> /\ current' = 0 /\ blockSize' = 0 /\ total' = 0
  /\ given' = {}
  /\ UNCHANGED wasReset

ArenaNext ==
  \/ \E size \in BlockSizes : Create(size)
  \/ \E size \in Requests : AllocHere(size) \/ AllocInNewBlock(size)
  \/ Reset \/ Destroy

ArenaSpec == ArenaInit /\ [][ArenaNext]_arenaVars
-----------------------------------------------------------------------------
(* Blocks are used up to their capacity at most, and the list is of        *)
(* different blocks that are allocated (arena.h:6-18).                     *)
ArenaTypeOK ==
  /\ DOMAIN heap \subseteq Blocks
  /\ \A b \in DOMAIN heap : heap[b].capacity \in Nat /\ heap[b].used \in 0..heap[b].capacity
  /\ \A i \in 1..Len(chain) : chain[i] \in DOMAIN heap
  /\ current \in 0..Len(chain) /\ (Exists => current > 0) /\ total \in Nat

Apart(p, q) ==
  p.block # q.block \/ p.from + p.size <= q.from \/ q.from + q.size <= p.from

(* What two owners were given does not overlap, lies in an allocated block *)
(* and starts at a multiple of the alignment, whatever was asked for, in   *)
(* whatever order, before and after a reset (arena.c:37-60, 86-93).        *)
RangesApart ==
  /\ \A p, q \in given : p # q => Apart(p, q)
  /\ \A p \in given : p.block \in DOMAIN heap /\ p.from + p.size <= heap[p.block].capacity
RangesAligned == \A p \in given : p.from % Word = 0

(* As long as no arena is reset none of its blocks is out of its reach, so *)
(* that destroying it frees them all (arena.c:49-53, 95-104).              *)
NothingOutOfReach == ~wasReset => \A b \in DOMAIN heap : InChain(b)
=============================================================================
