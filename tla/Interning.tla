----------------------------- MODULE Interning -----------------------------
(***************************************************************************)
(* The pool of identifiers (str.c): texts are kept once each, in an arena  *)
(* of the pool's own, and found again by their hash.  A pool lives from    *)
(* str_intern_init to str_intern_destroy, as often as the driver is run.   *)
(***************************************************************************)
EXTENDS Arena

CONSTANTS Texts,       \* sequences of bytes
          Hash,        \* from texts to buckets
          EntrySize,   \* sizeof(InternEntry)
          PoolSize     \* the block size of g_str_arena

VARIABLES
  table,     \* g_hash_table: for each bucket the entries, first to last
  content,   \* the bytes of the arena that were written
  wanted,    \* the text being interned, when it was not found
  copied,    \* where it has been copied to
  issued     \* the texts interned since the table was cleared, with the pointers returned

poolVars == <<arenaVars, table, content, wanted, copied, issued>>

Buckets == {Hash[t] : t \in Texts}
NoText == <<>>
Empty == [k \in Buckets |-> <<>>]
Alloc(size) == AllocHere(size) \/ AllocInNewBlock(size)

(* memcpy of a sequence of bytes to where p is. *)
Write(p, bytes) ==
  content' = [c \in DOMAIN content \cup {<<p.block, p.from + i - 1>> : i \in 1..Len(bytes)} |->
                IF c[1] = p.block /\ c[2] - p.from + 1 \in 1..Len(bytes) THEN bytes[c[2] - p.from + 1]
                ELSE content[c]]

(* memcmp of a sequence of bytes with those where p is. *)
Holds(p, bytes) ==
  \A i \in 1..Len(bytes) :
    LET c == <<p.block, p.from + i - 1>> IN c \in DOMAIN content /\ content[c] = bytes[i]

(* Mutant: lengths are not compared, so that a text is found in a longer one. *)
MatchesPrefix(t) == {k \in 1..Len(table[Hash[t]]) : Holds(table[Hash[t]][k].str, t)}

Matches(t) ==
  {k \in 1..Len(table[Hash[t]]) : table[Hash[t]][k].len = Len(t) /\ Holds(table[Hash[t]][k].str, t)}

PoolInit ==
  /\ ArenaInit
  /\ table = Empty /\ content = [c \in {} |-> 0] /\ wanted = NoText /\ copied = {} /\ issued = {}

Start ==
  /\ wanted = NoText
  /\ IF Exists THEN UNCHANGED arenaVars ELSE Create(PoolSize)
  /\ table' = Empty /\ issued' = {}
  /\ UNCHANGED <<content, wanted, copied>>

(* str_intern_range, when the text is in the pool *)
Find(t) ==
  /\ Exists /\ wanted = NoText
  /\ \E k \in Matches(t) :
       /\ \A j \in Matches(t) : k <= j
       /\ issued' = issued \cup {[text |-> t, str |-> table[Hash[t]][k].str]}
  /\ UNCHANGED <<arenaVars, table, content, wanted, copied>>

(* Mutant: there is no room for the zero. *)
RoomWithoutZero(t) == Len(t)

Room(t) == Len(t) + 1

(* Texts are not empty.  What the pool asks of its arena is among what     *)
(* arenas are asked for.                                                   *)
ASSUME PoolAssumption ==
  /\ Texts \subseteq Seq(0..255) \ {NoText}
  /\ PoolSize \in BlockSizes /\ EntrySize \in Requests
  /\ \A t \in Texts : Room(t) \in Requests

(* and when it is not: it is copied with a zero behind it, *)
Copy(t) ==
  /\ Exists /\ wanted = NoText /\ Matches(t) = {}
  /\ Alloc(Room(t))
  /\ wanted' = t /\ copied' = given' \ given
  /\ \E p \in copied' : Write(p, Append(t, 0))
  /\ UNCHANGED <<table, issued>>

(* and gets an entry at the head of its bucket. *)
Enter ==
  /\ wanted # NoText
  /\ Alloc(EntrySize)
  /\ \E p \in given' \ given : Write(p, [i \in 1..EntrySize |-> 255])
  /\ \E p \in copied :
       /\ table' = [table EXCEPT ![Hash[wanted]] = <<[str |-> p, len |-> Len(wanted)]>> \o @]
       /\ issued' = issued \cup {[text |-> wanted, str |-> p]}
  /\ wanted' = NoText /\ copied' = {}

Stop ==
  /\ wanted = NoText
  /\ IF Exists THEN Destroy ELSE UNCHANGED arenaVars
  /\ table' = Empty /\ issued' = {} /\ content' = [c \in {} |-> 0]
  /\ UNCHANGED <<wanted, copied>>

PoolNext == Start \/ (\E t \in Texts : Find(t) \/ Copy(t)) \/ Enter \/ Stop

PoolSpec == PoolInit /\ [][PoolNext]_poolVars
-----------------------------------------------------------------------------
(* Two identifiers are the same exactly when their pointers are (str.c:     *)
(* 30-56): comparisons that go by pointers first, as in ast.c:140 and       *)
(* sema.c:97, never take two texts for one, and equal ones are found at     *)
(* once.                                                                    *)
OnePointerEach ==
  \A i, j \in issued : i.text = j.text <=> i.str = j.str

(* What a pointer points to is its text and stays so, whatever else is     *)
(* interned (str.c:44-53 on arena.c:37-60).                                *)
TextsStay == \A i \in issued : Holds(i.str, Append(i.text, 0))
=============================================================================
