---------------------------- MODULE ArenaProofs ----------------------------
(***************************************************************************)
(* Proofs about the arena, for any sizes of blocks and of requests.        *)
(***************************************************************************)
EXTENDS Arena, SequenceTheorems, TLAPS

USE DEF arena, arenaVars

(* Rounding up gives a multiple of the word that is no less.               *)
LEMMA Rounding ==
  ASSUME NEW n \in Nat
  PROVE  AlignUp(n) \in Nat /\ AlignUp(n) >= n /\ \E k \in Nat : AlignUp(n) = k * Word
<1> DEFINE k == (n + Word - 1) \div Word
<1>1. Word \in Nat \ {0}
  BY ArenaAssumption
<1>2. n + Word - 1 \in Nat
  BY <1>1
<1>3. k \in Nat /\ k * Word <= n + Word - 1 /\ n + Word - 1 < k * Word + Word
  <2> HIDE DEF k
  <2>1. \A m \in Nat, w \in Nat \ {0} : m \div w \in Nat /\ (m \div w) * w <= m /\ m < (m \div w) * w + w
    OBVIOUS
  <2>2. QED
    BY <1>1, <1>2, <2>1 DEF k
<1>4. AlignUp(n) = k * Word
  BY DEF AlignUp
<1>5. k * Word \in Nat
  BY <1>1, <1>3
<1> HIDE DEF k
<1>6. QED
  BY <1>1, <1>3, <1>4, <1>5
-----------------------------------------------------------------------------
(***************************************************************************)
(* A range that was given out lies in the used part of its block, and what *)
(* is given next begins where the used part ends or in another block.      *)
(***************************************************************************)
Multiple(n) == \E k \in Nat : n = k * Word
Block == [capacity : Nat, used : Nat]

HeapSound ==
  /\ DOMAIN heap \subseteq Blocks /\ heap \in [DOMAIN heap -> Block]
  /\ \A b \in DOMAIN heap : heap[b].used <= heap[b].capacity /\ Multiple(heap[b].used)
ChainSound ==
  /\ chain \in Seq(Blocks) /\ \A i \in 1..Len(chain) : chain[i] \in DOMAIN heap
  /\ current \in 0..Len(chain) /\ (Exists => current > 0)
  /\ blockSize \in Nat /\ total \in Nat
GivenInside ==
  \A p \in given :
    /\ p.block \in DOMAIN heap /\ p.from \in Nat /\ p.size \in Nat
    /\ p.from + p.size <= heap[p.block].used /\ Multiple(p.from)
GivenApart == \A p, q \in given : p # q => Apart(p, q)

Sound == HeapSound /\ ChainSound /\ GivenInside /\ GivenApart

(* Sums of multiples of the word are multiples of it.                      *)
LEMMA Sums ==
  ASSUME NEW m \in Nat, NEW n \in Nat, Multiple(m), Multiple(n)
  PROVE  Multiple(m + n)
<1>1. PICK i \in Nat : m = i * Word
  BY DEF Multiple
<1>2. PICK j \in Nat : n = j * Word
  BY DEF Multiple
<1>3. m + n = (i + j) * Word /\ i + j \in Nat
  BY <1>1, <1>2, ArenaAssumption
<1>4. QED
  BY <1>3 DEF Multiple

(* A new block joins those there are, and none of them changes.            *)
LEMMA BlockIsNew ==
  ASSUME HeapSound, NEW b \in Blocks \ DOMAIN heap, NEW capacity \in Nat, NEW used \in Nat,
         used <= capacity, Multiple(used), heap' = WithBlock(b, capacity, used)
  PROVE  /\ HeapSound' /\ DOMAIN heap' = DOMAIN heap \cup {b} /\ heap'[b].used = used
         /\ \A c \in DOMAIN heap : heap'[c] = heap[c]
<1> DEFINE new == [capacity |-> IF capacity < MinBlock THEN MinBlock ELSE capacity, used |-> used]
<1>1. new \in Block /\ new.used = used /\ new.used <= new.capacity
  BY ArenaAssumption DEF Block
<1>2. /\ DOMAIN heap' = DOMAIN heap \cup {b} /\ heap'[b] = new
      /\ heap' \in [DOMAIN heap \cup {b} -> Block]
      /\ \A c \in DOMAIN heap : heap'[c] = heap[c]
  <2> HIDE DEF new
  <2>1. heap' = [c \in DOMAIN heap \cup {b} |-> IF c = b THEN new ELSE heap[c]]
    BY DEF WithBlock, new
  <2>2. QED
    BY <1>1, <2>1 DEF HeapSound
<1> HIDE DEF new
<1>3. \A c \in DOMAIN heap' : heap'[c].used <= heap'[c].capacity /\ Multiple(heap'[c].used)
  <2> SUFFICES ASSUME NEW c \in DOMAIN heap'
               PROVE  heap'[c].used <= heap'[c].capacity /\ Multiple(heap'[c].used)
    OBVIOUS
  <2>1. CASE c = b
    BY <1>1, <1>2, <2>1
  <2>2. CASE c \in DOMAIN heap
    BY <1>2, <2>2 DEF HeapSound
  <2>3. QED
    BY <1>2, <2>1, <2>2
<1>4. HeapSound'
  BY <1>2, <1>3 DEF HeapSound, Multiple
<1>5. QED
  BY <1>1, <1>2, <1>4

(* A range behind all that its block has given out can be given out.       *)
LEMMA OneMoreRange ==
  ASSUME HeapSound, GivenInside, GivenApart,
         NEW b, NEW from \in Nat, NEW size \in Nat,
         b \in DOMAIN heap => heap[b].used <= from,
         given' = given \cup {Place(b, from, size)}
  PROVE  GivenApart'
<1> DEFINE new == Place(b, from, size)
<1>1. new.block = b /\ new.from = from /\ new.size = size
  BY DEF Place
<1>2. ASSUME NEW p \in given PROVE Apart(p, new) /\ Apart(new, p)
  <2>1. p.block \in DOMAIN heap /\ p.from \in Nat /\ p.size \in Nat /\ p.from + p.size <= heap[p.block].used
    BY DEF GivenInside
  <2>2. p.block = b => heap[b].used \in Nat /\ heap[b].used <= from
    BY <2>1 DEF HeapSound, Block
  <2> HIDE DEF new
  <2>3. p.block = b => p.from + p.size <= from
    BY <2>1, <2>2
  <2>4. QED
    BY <1>1, <2>3 DEF Apart
<1> HIDE DEF new
<1>3. given' = given \cup {new}
  BY DEF new
<1>4. QED
  BY <1>2, <1>3 DEF GivenApart, Apart
(* The invariant holds of every arena, whatever is asked for.              *)
THEOREM ArenaSound == ArenaSpec => []Sound
<1>1. ASSUME ArenaInit PROVE Sound
  <2>1. DOMAIN heap = {} /\ heap \in [{} -> Block]
    BY <1>1 DEF ArenaInit
  <2>2. QED
    BY <1>1, <2>1, EmptySeq DEF ArenaInit, Sound, HeapSound, ChainSound, GivenInside, GivenApart, Exists
<1>2. ASSUME Sound, [ArenaNext]_arenaVars PROVE Sound'
  <2> USE <1>2
  <2>0. Len(chain) \in Nat /\ Word \in Nat \ {0}
    BY LenProperties, ArenaAssumption DEF Sound, ChainSound
  <2>1. ASSUME NEW size \in BlockSizes, Create(size) PROVE Sound'
    <3>1. blockSize' \in Nat
      BY <2>1, ArenaAssumption DEF Create
    <3>2. PICK b \in Blocks \ DOMAIN heap : heap' = WithBlock(b, blockSize', 0) /\ chain' = <<b>>
      BY <2>1 DEF Create
    <3>3. Multiple(0)
      BY <2>0 DEF Multiple
    <3>4. /\ HeapSound' /\ DOMAIN heap' = DOMAIN heap \cup {b}
          /\ \A c \in DOMAIN heap : heap'[c] = heap[c]
      BY <3>1, <3>2, <3>3, BlockIsNew DEF Sound
    <3>5. ChainSound'
      BY <2>1, <3>1, <3>2, <3>4 DEF Create, ChainSound, Exists
    <3>6. GivenInside' /\ GivenApart'
      BY <2>1, <3>4 DEF Create, Sound, GivenInside, GivenApart, Apart, Multiple
    <3>7. QED
      BY <3>4, <3>5, <3>6 DEF Sound
  <2>2. ASSUME NEW size \in Requests, AllocHere(size) PROVE Sound'
    <3> DEFINE used == heap[Current].used
    <3>1. /\ Current \in DOMAIN heap /\ heap[Current] \in Block
          /\ used \in Nat /\ used <= heap[Current].capacity /\ Multiple(used)
      BY <2>0, <2>2 DEF AllocHere, Current, Sound, HeapSound, ChainSound, Block
    <3>2. size \in Nat /\ AlignUp(size) \in Nat /\ AlignUp(size) >= size /\ Multiple(AlignUp(size))
      BY Rounding, ArenaAssumption DEF Multiple
    <3>3. heap' = [heap EXCEPT ![Current].used = used + AlignUp(size)]
      BY <2>2 DEF AllocHere, Bump
    <3>4. /\ DOMAIN heap' = DOMAIN heap /\ heap'[Current].used = used + AlignUp(size)
          /\ heap'[Current].capacity = heap[Current].capacity
          /\ heap' \in [DOMAIN heap -> Block]
          /\ \A b \in DOMAIN heap : b # Current => heap'[b] = heap[b]
      BY <3>1, <3>2, <3>3 DEF Sound, HeapSound, Block
    <3>5. used + AlignUp(size) <= heap[Current].capacity /\ Multiple(used + AlignUp(size))
      BY <2>2, <3>1, <3>2, Sums DEF AllocHere, Fits
    <3>6. HeapSound'
      <4>1. \A b \in DOMAIN heap : heap'[b].used <= heap'[b].capacity /\ Multiple(heap'[b].used)
        BY <3>4, <3>5 DEF Sound, HeapSound
      <4>2. QED
        BY <3>4, <4>1 DEF Sound, HeapSound, Multiple
    <3>7. ChainSound'
      <4>1. total' \in Nat
        BY <2>2, <3>2 DEF AllocHere, Sound, ChainSound
      <4>2. QED
        BY <2>2, <3>4, <4>1 DEF AllocHere, Sound, ChainSound, Exists
    <3>8. given' = given \cup {Place(Current, used, size)}
      BY <2>2 DEF AllocHere
    <3>9. GivenInside'
      <4> SUFFICES ASSUME NEW p \in given'
                   PROVE  /\ p.block \in DOMAIN heap' /\ p.from \in Nat /\ p.size \in Nat
                          /\ p.from + p.size <= heap'[p.block].used /\ Multiple(p.from)
        BY DEF GivenInside, Multiple
      <4>1. CASE p \in given
        <5>1. /\ p.block \in DOMAIN heap /\ p.from \in Nat /\ p.size \in Nat
              /\ p.from + p.size <= heap[p.block].used /\ Multiple(p.from)
          BY <4>1 DEF Sound, GivenInside
        <5>2. CASE p.block = Current
          BY <5>1, <5>2, <3>1, <3>2, <3>4
        <5>3. CASE p.block # Current
          BY <5>1, <5>3, <3>4
        <5>4. QED
          BY <5>2, <5>3
      <4>2. CASE p = Place(Current, used, size)
        BY <4>2, <3>1, <3>2, <3>4 DEF Place
      <4>3. QED
        BY <3>8, <4>1, <4>2
    <3>10. GivenApart'
      <4>1. HeapSound /\ GivenInside /\ GivenApart /\ used <= used
        BY <3>1 DEF Sound
      <4>2. QED
        BY <4>1, <3>1, <3>2, <3>8, OneMoreRange
    <3>11. QED
      BY <3>6, <3>7, <3>9, <3>10 DEF Sound
  <2>3. ASSUME NEW size \in Requests, AllocInNewBlock(size) PROVE Sound'
    <3> DEFINE aligned == AlignUp(size)
               capacity == IF aligned > blockSize THEN aligned ELSE blockSize
    <3>1. size \in Nat /\ aligned \in Nat /\ aligned >= size /\ Multiple(aligned)
      BY Rounding, ArenaAssumption DEF Multiple
    <3>2. capacity \in Nat /\ aligned <= capacity
      BY <3>1 DEF Sound, ChainSound
    <3>3. PICK b \in Blocks \ DOMAIN heap :
            /\ heap' = WithBlock(b, capacity, aligned)
            /\ chain' = Append(SubSeq(chain, 1, current), b)
            /\ given' = given \cup {Place(b, 0, size)}
      BY <2>3 DEF AllocInNewBlock
    <3>4. current' = current + 1 /\ total' = total + aligned /\ blockSize' = blockSize
      BY <2>3 DEF AllocInNewBlock
    <3> HIDE DEF aligned, capacity
    <3>5. /\ HeapSound' /\ DOMAIN heap' = DOMAIN heap \cup {b} /\ heap'[b].used = aligned
          /\ \A c \in DOMAIN heap : heap'[c] = heap[c]
      BY <3>1, <3>2, <3>3, BlockIsNew DEF Sound
    <3>6. /\ SubSeq(chain, 1, current) \in Seq(Blocks) /\ Len(SubSeq(chain, 1, current)) = current
          /\ \A i \in 1..current : SubSeq(chain, 1, current)[i] = chain[i]
      <4>1. chain \in Seq(Blocks) /\ current \in 0..Len(chain) /\ \A i \in 1..Len(chain) : chain[i] \in Blocks
        BY ElementOfSeq DEF Sound, ChainSound
      <4>2. \A i \in 1..current : chain[i] \in Blocks
        BY <4>1, <2>0
      <4>3. QED
        BY <4>1, <4>2, <2>0, SubSeqProperties
    <3>7. /\ chain' \in Seq(Blocks) /\ Len(chain') = current + 1 /\ chain'[current + 1] = b
          /\ \A i \in 1..current : chain'[i] = chain[i]
      BY <3>3, <3>6, AppendProperties
    <3>8. ChainSound'
      <4>1. current \in 0..Len(chain) /\ total \in Nat /\ blockSize \in Nat
        BY DEF Sound, ChainSound
      <4>2. \A i \in 1..Len(chain') : chain'[i] \in DOMAIN heap'
        BY <2>0, <3>5, <3>7, <4>1 DEF Sound, ChainSound
      <4>3. QED
        BY <2>0, <3>1, <3>4, <3>7, <4>1, <4>2 DEF ChainSound
    <3>9. GivenInside'
      <4> SUFFICES ASSUME NEW p \in given'
                   PROVE  /\ p.block \in DOMAIN heap' /\ p.from \in Nat /\ p.size \in Nat
                          /\ p.from + p.size <= heap'[p.block].used /\ Multiple(p.from)
        BY DEF GivenInside, Multiple
      <4>1. CASE p \in given
        BY <4>1, <3>5 DEF Sound, GivenInside
      <4>2. CASE p = Place(b, 0, size)
        BY <4>2, <2>0, <3>1, <3>5 DEF Place, Multiple
      <4>3. QED
        BY <3>3, <4>1, <4>2
    <3>10. GivenApart'
      BY <3>1, <3>3, OneMoreRange DEF Sound
    <3>11. QED
      BY <3>5, <3>8, <3>9, <3>10 DEF Sound
  <2>4. CASE Reset
    <3>1. /\ DOMAIN heap' = DOMAIN heap /\ heap' \in [DOMAIN heap -> Block]
          /\ \A b \in DOMAIN heap : heap'[b].used <= heap'[b].capacity /\ Multiple(heap'[b].used)
      <4>1. heap' = [b \in DOMAIN heap |-> IF InChain(b) THEN [heap[b] EXCEPT !.used = 0] ELSE heap[b]]
        BY <2>4 DEF Reset, Emptied
      <4>2. Multiple(0)
        BY <2>0 DEF Multiple
      <4>3. \A b \in DOMAIN heap : heap[b] \in Block /\ heap[b].used <= heap[b].capacity /\ Multiple(heap[b].used)
        BY DEF Sound, HeapSound
      <4>4. \A b \in DOMAIN heap : [heap[b] EXCEPT !.used = 0] \in Block
                                /\ [heap[b] EXCEPT !.used = 0].used = 0
                                /\ [heap[b] EXCEPT !.used = 0].capacity \in Nat
        BY <4>3 DEF Block
      <4>5. QED
        BY <4>1, <4>2, <4>3, <4>4 DEF Block
    <3>2. HeapSound'
      BY <3>1 DEF Sound, HeapSound, Multiple
    <3>3. ChainSound'
      BY <2>0, <2>4, <3>1 DEF Reset, Sound, ChainSound, Exists
    <3>4. QED
      BY <2>4, <3>2, <3>3 DEF Reset, Sound, GivenInside, GivenApart
  <2>5. CASE Destroy
    <3>1. heap' = [b \in DOMAIN heap \ Freed |-> heap[b]]
      BY <2>5 DEF Destroy
    <3>2. HeapSound'
      BY <3>1 DEF Sound, HeapSound, Multiple
    <3>3. QED
      BY <2>5, <3>2, EmptySeq DEF Destroy, Sound, ChainSound, GivenInside, GivenApart, Exists
  <2>6. CASE UNCHANGED arenaVars
    BY <2>6 DEF Sound, HeapSound, ChainSound, GivenInside, GivenApart, Exists, Apart, Multiple
  <2>7. QED
    BY <2>1, <2>2, <2>3, <2>4, <2>5, <2>6 DEF ArenaNext
<1>3. QED
  BY <1>1, <1>2, PTL DEF ArenaSpec

(* What two owners were given does not overlap and lies in a block that is *)
(* allocated (arena.c:37-60, 86-93).                                       *)
THEOREM OwnersApart == ArenaSpec => []RangesApart
<1>1. ASSUME Sound PROVE RangesApart
  <2>1. \A p \in given : p.block \in DOMAIN heap /\ p.from + p.size <= heap[p.block].capacity
    <3> SUFFICES ASSUME NEW p \in given
                 PROVE  p.block \in DOMAIN heap /\ p.from + p.size <= heap[p.block].capacity
      OBVIOUS
    <3>1. /\ p.block \in DOMAIN heap /\ p.from \in Nat /\ p.size \in Nat
          /\ p.from + p.size <= heap[p.block].used
      BY <1>1 DEF Sound, GivenInside
    <3>2. heap[p.block] \in Block /\ heap[p.block].used <= heap[p.block].capacity
      BY <1>1, <3>1 DEF Sound, HeapSound
    <3>3. QED
      BY <3>1, <3>2 DEF Block
  <2>2. QED
    BY <1>1, <2>1 DEF RangesApart, Sound, GivenApart
<1>2. QED
  BY <1>1, ArenaSound, PTL

(* Every range begins at a multiple of the word (arena.c:4-8, 40).         *)
THEOREM OwnersAligned == ArenaSpec => []RangesAligned
<1>1. ASSUME Sound PROVE RangesAligned
  <2>1. \A k \in Nat, w \in Nat \ {0} : (k * w) % w = 0
    OBVIOUS
  <2>2. QED
    BY <1>1, <2>1, ArenaAssumption DEF Sound, GivenInside, RangesAligned, Multiple
<1>2. QED
  BY <1>1, ArenaSound, PTL

(* The strengthening: without a reset the current block is the last one.   *)
AllReached == ~wasReset => current = Len(chain) /\ \A b \in DOMAIN heap : InChain(b)

(* As long as no arena is reset growing takes nothing off the list, and    *)
(* every block stays in reach of arena_destroy (arena.c:49-53, 95-104).    *)
THEOREM BlocksReachable == ArenaSpec => []NothingOutOfReach
<1>1. ASSUME ArenaInit PROVE AllReached
  BY <1>1 DEF ArenaInit, AllReached
<1>2. ASSUME Sound, AllReached, [ArenaNext]_arenaVars PROVE AllReached'
  <2> USE <1>2
  <2>0. chain \in Seq(Blocks) /\ Len(chain) \in Nat /\ \A i \in 1..Len(chain) : chain[i] \in Blocks
    BY LenProperties, ElementOfSeq DEF Sound, ChainSound
  <2>1. ASSUME NEW size \in BlockSizes, Create(size) PROVE AllReached'
    <3>1. PICK b \in Blocks \ DOMAIN heap : heap' = WithBlock(b, blockSize', 0) /\ chain' = <<b>>
      BY <2>1 DEF Create
    <3>2. DOMAIN heap' = DOMAIN heap \cup {b} /\ Len(chain') = 1 /\ chain'[1] = b
      BY <3>1 DEF WithBlock
    <3>3. ~wasReset => DOMAIN heap = {}
      <4>1. chain = <<>> /\ 1..Len(chain) = {}
        BY <2>1 DEF Create, Exists
      <4>2. QED
        BY <4>1 DEF AllReached, InChain
    <3>4. QED
      BY <2>1, <3>2, <3>3 DEF Create, AllReached, InChain
  <2>2. ASSUME NEW size \in Requests, AllocHere(size) PROVE AllReached'
    BY <2>2 DEF AllocHere, Bump, AllReached, InChain
  <2>3. ASSUME NEW size \in Requests, AllocInNewBlock(size) PROVE AllReached'
    <3>1. PICK b \in Blocks \ DOMAIN heap :
            /\ DOMAIN heap' = DOMAIN heap \cup {b}
            /\ chain' = Append(SubSeq(chain, 1, current), b)
      BY <2>3 DEF AllocInNewBlock, WithBlock
    <3>2. ASSUME ~wasReset PROVE current' = Len(chain') /\ \A c \in DOMAIN heap' : InChain(c)'
      <4>1. current = Len(chain) /\ \A c \in DOMAIN heap : InChain(c)
        BY <3>2 DEF AllReached
      <4>2. SubSeq(chain, 1, current) \in Seq(Blocks) /\ Len(SubSeq(chain, 1, current)) = current
            /\ \A i \in 1..current : SubSeq(chain, 1, current)[i] = chain[i]
        BY <2>0, <4>1, SubSeqProperties
      <4>3. Len(chain') = current + 1 /\ chain'[current + 1] = b
            /\ \A i \in 1..current : chain'[i] = chain[i]
        BY <3>1, <4>2, AppendProperties
      <4>4. \A c \in DOMAIN heap' : \E i \in 1..Len(chain') : chain'[i] = c
        BY <2>0, <3>1, <4>1, <4>3 DEF InChain
      <4>5. QED
        BY <2>3, <4>3, <4>4 DEF AllocInNewBlock, InChain
    <3>3. QED
      BY <2>3, <3>2 DEF AllocInNewBlock, AllReached
  <2>4. CASE Reset
    BY <2>4 DEF Reset, AllReached
  <2>5. CASE Destroy
    BY <2>5, EmptySeq DEF Destroy, Freed, AllReached
  <2>6. CASE UNCHANGED arenaVars
    BY <2>6 DEF AllReached, InChain
  <2>7. QED
    BY <2>1, <2>2, <2>3, <2>4, <2>5, <2>6 DEF ArenaNext
<1>3. ASSUME AllReached PROVE NothingOutOfReach
  BY <1>3 DEF AllReached, NothingOutOfReach
<1>4. QED
  BY <1>1, <1>2, <1>3, ArenaSound, PTL DEF ArenaSpec
=============================================================================
