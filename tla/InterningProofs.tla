-------------------------- MODULE InterningProofs --------------------------
(***************************************************************************)
(* Proofs about the pool of identifiers, for any texts, any hash and any   *)
(* sizes.                                                                  *)
(***************************************************************************)
EXTENDS Interning, ArenaProofs

USE DEF poolVars

Places == [block : Blocks, from : Nat, size : Nat]
Entries == [str : Places, len : Nat]

(* The bytes of a place are those of a text and a zero.                    *)
EntryIn(b) == {table[b][k] : k \in 1..Len(table[b])}
Reads(e, t) == e.len = Len(t) /\ Holds(e.str, t)
ZeroBehind(p, n) ==
  LET c == <<p.block, p.from + n>> IN c \in DOMAIN content /\ content[c] = 0

(* Every entry points to a text with its zero, in a range of its own size. *)
TableSound ==
  /\ given \subseteq Places
  /\ table \in [Buckets -> Seq(Entries)]
  /\ \A b \in Buckets : \A e \in EntryIn(b) :
       e.str \in given /\ e.str.size = e.len + 1 /\ ZeroBehind(e.str, e.len)

(* A text is in its bucket once.                                           *)
NoTwice ==
  \A t \in Texts : \A d, e \in EntryIn(Hash[t]) : Reads(d, t) /\ Reads(e, t) => d.str = e.str

(* What was issued is in the table.                                        *)
IssuedEntered ==
  \A i \in issued :
    i.text \in Texts /\ \E e \in EntryIn(Hash[i.text]) : Reads(e, i.text) /\ e.str = i.str

(* A text that is being interned is in the arena and not in the table.     *)
WantedCopied ==
  IF wanted = NoText THEN copied = {}
  ELSE /\ wanted \in Texts /\ \A e \in EntryIn(Hash[wanted]) : ~Reads(e, wanted)
       /\ \E p \in given : copied = {p} /\ p.size = Len(wanted) + 1
                           /\ Holds(p, wanted) /\ ZeroBehind(p, Len(wanted))

PoolSound == TableSound /\ NoTwice /\ IssuedEntered /\ WantedCopied
-----------------------------------------------------------------------------
(* The pool asks of its arena what arenas are asked for, and nothing else: *)
(* what holds of every arena holds of the pool's (str.c:17-28, 44-52).     *)
THEOREM PoolUsesArena == PoolSpec => ArenaSpec
<1>1. ASSUME PoolInit PROVE ArenaInit
  BY <1>1 DEF PoolInit
<1>2. ASSUME [PoolNext]_poolVars PROVE [ArenaNext]_arenaVars
  <2>1. ASSUME NEW size \in Requests, Alloc(size) PROVE ArenaNext
    BY <2>1 DEF Alloc, ArenaNext
  <2>2. CASE Start
    <3>1. Create(PoolSize) => ArenaNext
      BY PoolAssumption DEF ArenaNext
    <3>2. QED
      BY <2>2, <3>1 DEF Start
  <2>3. ASSUME NEW t \in Texts, Find(t) PROVE UNCHANGED arenaVars
    BY <2>3 DEF Find
  <2>4. ASSUME NEW t \in Texts, Copy(t) PROVE ArenaNext
    <3>1. Room(t) \in Requests /\ Alloc(Room(t))
      BY <2>4, PoolAssumption DEF Copy
    <3>2. QED
      BY <2>1, <3>1
  <2>5. CASE Enter
    <3>1. EntrySize \in Requests /\ Alloc(EntrySize)
      BY <2>5, PoolAssumption DEF Enter
    <3>2. QED
      BY <2>1, <3>1
  <2>6. CASE Stop
    BY <2>6 DEF Stop, ArenaNext
  <2>7. CASE UNCHANGED poolVars
    BY <2>7
  <2>8. QED
    BY <1>2, <2>2, <2>3, <2>4, <2>5, <2>6, <2>7 DEF PoolNext
<1>3. QED
  BY <1>1, <1>2, PTL DEF PoolSpec, ArenaSpec

(***************************************************************************)
(* What is written at one place of the arena                               *)
(***************************************************************************)
(* An allocation hands out one range that was not handed out before.       *)
LEMMA AllocGives ==
  ASSUME Sound, NEW size \in Nat, Alloc(size), Sound'
  PROVE  \E p \in Places : /\ p.size = size /\ p \notin given /\ given' = given \cup {p}
                           /\ \A q \in given : Apart(q, p)
<1>1. \E b \in Blocks, from \in Nat : /\ given' = given \cup {Place(b, from, size)}
                                      /\ b \in DOMAIN heap => heap[b].used <= from
  <2>1. CASE AllocHere(size)
    <3>1. current \in 1..Len(chain) /\ Current \in DOMAIN heap
      <4>1. current \in 0..Len(chain) /\ current > 0 /\ Len(chain) \in Nat
        BY <2>1, LenProperties DEF AllocHere, Sound, ChainSound
      <4>2. current \in 1..Len(chain)
        BY <4>1
      <4>3. QED
        BY <4>2 DEF Sound, ChainSound, Current
    <3>2. Current \in Blocks /\ heap[Current].used \in Nat
      BY <3>1 DEF Sound, HeapSound, Block
    <3>3. given' = given \cup {Place(Current, heap[Current].used, size)}
      BY <2>1 DEF AllocHere
    <3>4. heap[Current].used <= heap[Current].used
      BY <3>2
    <3>5. QED
      BY <3>2, <3>3, <3>4
  <2>2. CASE AllocInNewBlock(size)
    <3>1. PICK b \in Blocks \ DOMAIN heap : given' = given \cup {Place(b, 0, size)}
      BY <2>2 DEF AllocInNewBlock
    <3>2. QED
      BY <3>1
  <2>3. QED
    BY <2>1, <2>2 DEF Alloc
<1>2. PICK b \in Blocks, from \in Nat : /\ given' = given \cup {Place(b, from, size)}
                                        /\ b \in DOMAIN heap => heap[b].used <= from
  BY <1>1
<1>3. size # 0
  BY DEF Alloc, AllocHere, AllocInNewBlock
<1> DEFINE p == Place(b, from, size)
<1>4. p \in Places /\ p.size = size /\ p.block = b /\ p.from = from
  BY DEF Place, Places
<1>5. ASSUME NEW q \in given PROVE Apart(q, p) /\ q # p
  <2>1. q.block \in DOMAIN heap /\ q.from \in Nat /\ q.size \in Nat
        /\ q.from + q.size <= heap[q.block].used
    BY DEF Sound, GivenInside
  <2> HIDE DEF p
  <2>2. q.block = b => heap[b].used \in Nat /\ heap[b].used <= from
    BY <1>2, <2>1 DEF Sound, HeapSound, Block
  <2>3. q.block = b => q.from + q.size <= from
    BY <2>1, <2>2
  <2>4. q # p
    BY <1>3, <1>4, <2>1, <2>3
  <2>5. QED
    BY <1>4, <2>3, <2>4 DEF Apart
<1>6. given' = given \cup {p}
  BY <1>2
<1> HIDE DEF p
<1>7. QED
  BY <1>4, <1>5, <1>6

(* What is written is there,                                               *)
LEMMA WriteHolds ==
  ASSUME NEW p \in Places, NEW bytes \in Seq(0..255), Write(p, bytes)
  PROVE  \A i \in 1..Len(bytes) :
           LET c == <<p.block, p.from + i - 1>> IN c \in DOMAIN content' /\ content'[c] = bytes[i]
<1> SUFFICES ASSUME NEW i \in 1..Len(bytes)
             PROVE  LET c == <<p.block, p.from + i - 1>>
                    IN  c \in DOMAIN content' /\ content'[c] = bytes[i]
  OBVIOUS
<1> DEFINE c == <<p.block, p.from + i - 1>>
<1>1. p.from \in Nat /\ Len(bytes) \in Nat
  BY LenProperties DEF Places
<1>2. c[1] = p.block /\ c[2] = p.from + i - 1
  OBVIOUS
<1>3. c[2] - p.from + 1 = i
  BY <1>1, <1>2
<1>4. c \in {<<p.block, p.from + j - 1>> : j \in 1..Len(bytes)}
  OBVIOUS
<1> HIDE DEF c
<1>5. c \in DOMAIN content' /\ content'[c] = bytes[i]
  BY <1>2, <1>3, <1>4 DEF Write
<1>6. QED
  BY <1>5 DEF c

(* and what is apart from it is as it was.                                 *)
LEMMA WriteLeaves ==
  ASSUME NEW p \in Places, NEW bytes \in Seq(0..255), Write(p, bytes), Len(bytes) <= p.size,
         NEW q \in Places, Apart(q, p), NEW i \in 1..q.size
  PROVE  LET c == <<q.block, q.from + i - 1>>
         IN  /\ c \in DOMAIN content' <=> c \in DOMAIN content
             /\ c \in DOMAIN content => content'[c] = content[c]
<1> DEFINE c == <<q.block, q.from + i - 1>>
           n == Len(bytes)
<1>1. /\ p.from \in Nat /\ p.size \in Nat /\ q.from \in Nat /\ q.size \in Nat /\ n \in Nat
      /\ n <= p.size
  BY LenProperties DEF Places
<1>2. c[1] = q.block /\ c[2] = q.from + i - 1
  OBVIOUS
<1>3. content' = [d \in DOMAIN content \cup {<<p.block, p.from + j - 1>> : j \in 1..n} |->
                   IF d[1] = p.block /\ d[2] - p.from + 1 \in 1..n THEN bytes[d[2] - p.from + 1]
                   ELSE content[d]]
  BY DEF Write
<1> HIDE DEF n
<1>4. ASSUME c[1] = p.block PROVE c[2] - p.from + 1 \notin 1..n
  <2>1. q.block = p.block
    BY <1>2, <1>4
  <2>2. q.from + q.size <= p.from \/ p.from + p.size <= q.from
    BY <2>1 DEF Apart
  <2>3. QED
    BY <1>1, <1>2, <2>2
<1>5. c \notin {<<p.block, p.from + j - 1>> : j \in 1..n}
  <2>1. ASSUME NEW j \in 1..n, c = <<p.block, p.from + j - 1>> PROVE FALSE
    <3>1. c[1] = p.block /\ c[2] = p.from + j - 1
      BY <2>1
    <3>2. c[2] - p.from + 1 = j
      BY <3>1, <1>1
    <3>3. QED
      BY <3>1, <3>2, <1>4
  <2>2. QED
    BY <2>1
<1> HIDE DEF c
<1>6. c \in DOMAIN content' <=> c \in DOMAIN content
  BY <1>3, <1>5
<1>7. c \in DOMAIN content => content'[c] = content[c]
  BY <1>3, <1>4
<1>8. QED
  BY <1>6, <1>7 DEF c

(* So a text and the zero behind it stay where they are,                   *)
LEMMA TextLeft ==
  ASSUME NEW p \in Places, NEW bytes \in Seq(0..255), Write(p, bytes), Len(bytes) <= p.size,
         NEW q \in Places, Apart(q, p), NEW t \in Seq(0..255), Len(t) <= q.size
  PROVE  Holds(q, t)' <=> Holds(q, t)
<1>1. Len(t) \in Nat /\ q.size \in Nat
  BY LenProperties DEF Places
<1>2. ASSUME NEW i \in 1..Len(t)
      PROVE  LET c == <<q.block, q.from + i - 1>>
             IN  /\ c \in DOMAIN content' <=> c \in DOMAIN content
                 /\ c \in DOMAIN content => content'[c] = content[c]
  <2>1. i \in 1..q.size
    BY <1>1
  <2>2. QED
    BY <2>1, WriteLeaves
<1>3. QED
  BY <1>2 DEF Holds

(* The zero behind a text stays when another range is written.              *)
LEMMA ZeroLeft ==
  ASSUME NEW p \in Places, NEW bytes \in Seq(0..255), Write(p, bytes), Len(bytes) <= p.size,
         NEW q \in Places, Apart(q, p), NEW n \in Nat, n < q.size, ZeroBehind(q, n)
  PROVE  ZeroBehind(q, n)'
<1>1. n + 1 \in 1..q.size /\ q.from + (n + 1) - 1 = q.from + n
  BY DEF Places
<1>2. LET c == <<q.block, q.from + (n + 1) - 1>>
      IN  /\ c \in DOMAIN content' <=> c \in DOMAIN content
          /\ c \in DOMAIN content => content'[c] = content[c]
  BY <1>1, WriteLeaves
<1>3. QED
  BY <1>1, <1>2 DEF ZeroBehind

(* and an entry is read as it was.                                         *)
LEMMA EntriesLeft ==
  ASSUME TableSound, NEW p \in Places, NEW bytes \in Seq(0..255), Write(p, bytes),
         Len(bytes) <= p.size, \A q \in given : Apart(q, p),
         NEW b \in Buckets, NEW e \in EntryIn(b)
  PROVE  /\ ZeroBehind(e.str, e.len)'
         /\ \A t \in Texts : Reads(e, t)' <=> Reads(e, t)
<1>1. /\ e.str \in Places /\ e.len \in Nat /\ e.str.size = e.len + 1
      /\ Apart(e.str, p) /\ ZeroBehind(e.str, e.len)
  <2>1. e.str \in given /\ e.str.size = e.len + 1 /\ ZeroBehind(e.str, e.len)
    BY DEF TableSound
  <2>2. e \in Entries
    <3>1. table[b] \in Seq(Entries)
      BY DEF TableSound
    <3>2. QED
      BY <3>1, ElementOfSeq DEF EntryIn
  <2>3. QED
    BY <2>1, <2>2 DEF TableSound, Entries
<1>2. ZeroBehind(e.str, e.len)'
  <2>1. e.len < e.str.size
    BY <1>1
  <2>2. QED
    BY <1>1, <2>1, ZeroLeft
<1>3. ASSUME NEW t \in Texts PROVE Reads(e, t)' <=> Reads(e, t)
  <2>1. t \in Seq(0..255)
    BY PoolAssumption
  <2>2. CASE e.len = Len(t)
    <3>1. Len(t) <= e.str.size
      BY <1>1, <2>2
    <3>2. Holds(e.str, t)' <=> Holds(e.str, t)
      BY <1>1, <2>1, <3>1, TextLeft
    <3>3. QED
      BY <3>2 DEF Reads
  <2>3. CASE e.len # Len(t)
    BY <2>3 DEF Reads
  <2>4. QED
    BY <2>2, <2>3
<1>4. QED
  BY <1>2, <1>3

(* Two texts of a length that are at one place are one text.               *)
LEMMA SameText ==
  ASSUME NEW p, NEW t \in Texts, NEW u \in Texts, Len(t) = Len(u), Holds(p, t), Holds(p, u)
  PROVE  t = u
<1>1. t \in Seq(0..255) /\ u \in Seq(0..255)
  BY PoolAssumption
<1>2. \A i \in 1..Len(t) : t[i] = u[i]
  BY DEF Holds
<1>3. QED
  BY <1>1, <1>2, SeqEqual

(* A text is not found when no entry of its bucket reads so.               *)
LEMMA NotFound ==
  ASSUME NEW t \in Texts, Matches(t) = {}
  PROVE  \A e \in EntryIn(Hash[t]) : ~Reads(e, t)
BY DEF Matches, EntryIn, Reads

(* A new head joins the entries of its bucket.                             *)
LEMMA NewHead ==
  ASSUME NEW s \in Seq(Entries), NEW e \in Entries
  PROVE  /\ <<e>> \o s \in Seq(Entries)
         /\ {(<<e>> \o s)[k] : k \in 1..Len(<<e>> \o s)} = {e} \cup {s[k] : k \in 1..Len(s)}
<1> DEFINE r == <<e>> \o s
           n == Len(s)
<1>1. <<e>> \in Seq(Entries) /\ Len(<<e>>) = 1 /\ <<e>>[1] = e /\ n \in Nat
  BY LenProperties
<1>2. /\ r \in Seq(Entries) /\ Len(r) = n + 1
      /\ \A k \in 1..(n + 1) : r[k] = IF k <= 1 THEN <<e>>[k] ELSE s[k - 1]
  BY <1>1, ConcatProperties
<1> HIDE DEF r, n
<1>3. r[1] = e
  BY <1>1, <1>2
<1>4. \A k \in 1..n : r[k + 1] = s[k] /\ k + 1 \in 1..(n + 1)
  BY <1>1, <1>2
<1>5. \A k \in 1..(n + 1) : k = 1 \/ (k - 1 \in 1..n /\ r[k] = s[k - 1])
  BY <1>1, <1>2
<1>6. 1 \in 1..(n + 1)
  BY <1>1
<1>7. {r[k] : k \in 1..(n + 1)} = {e} \cup {s[k] : k \in 1..n}
  <2>1. ASSUME NEW k \in 1..(n + 1) PROVE r[k] \in {e} \cup {s[j] : j \in 1..n}
    BY <1>3, <1>5
  <2>2. ASSUME NEW j \in 1..n PROVE s[j] \in {r[k] : k \in 1..(n + 1)}
    BY <1>4
  <2>3. e \in {r[k] : k \in 1..(n + 1)}
    BY <1>3, <1>6
  <2>4. QED
    BY <2>1, <2>2, <2>3
<1>8. QED
  BY <1>2, <1>7 DEF r, n
-----------------------------------------------------------------------------
(***************************************************************************)
(* Every action of the pool preserves PoolSound.                           *)
(***************************************************************************)
LEMMA StartKeeps ==
  ASSUME PoolSound, wanted = NoText, table' = Empty, issued' = {},
         wanted' = wanted, copied' = copied, given' \subseteq Places
  PROVE  PoolSound'
<1>1. \A b \in Buckets : EntryIn(b)' = {}
  <2> SUFFICES ASSUME NEW b \in Buckets, NEW k \in 1..Len(table'[b]) PROVE FALSE
    BY DEF EntryIn
  <2>1. Len(table'[b]) = 0
    BY DEF Empty
  <2>2. QED
    BY <2>1
<1>2. \A t \in Texts : Hash[t] \in Buckets
  BY DEF Buckets
<1>3. table' \in [Buckets -> Seq(Entries)]
  BY DEF Empty
<1>4. TableSound'
  BY <1>1, <1>3 DEF TableSound
<1>5. NoTwice'
  BY <1>1, <1>2 DEF NoTwice
<1>6. IssuedEntered' /\ WantedCopied'
  BY DEF IssuedEntered, WantedCopied, PoolSound
<1>7. QED
  BY <1>4, <1>5, <1>6 DEF PoolSound

(* Finding a text changes no table (str.c:30-43): its pointer is handed out *)
(* again.                                                                   *)
LEMMA FindKeeps ==
  ASSUME PoolSound, NEW t \in Texts, Find(t)
  PROVE  PoolSound'
<1>1. UNCHANGED <<given, table, content, wanted, copied>>
  BY DEF Find, arenaVars
<1>2. PICK k \in Matches(t) : issued' = issued \cup {[text |-> t, str |-> table[Hash[t]][k].str]}
  BY DEF Find
<1> DEFINE e == table[Hash[t]][k]
<1>3. e \in EntryIn(Hash[t]) /\ Reads(e, t)
  BY DEF Matches, EntryIn, Reads
<1> HIDE DEF e
<1>4. issued' = issued \cup {[text |-> t, str |-> e.str]}
  BY <1>2 DEF e
<1>5. \A b : EntryIn(b)' = EntryIn(b)
  BY <1>1 DEF EntryIn
<1>6. \A d, u : Reads(d, u)' <=> Reads(d, u)
  BY <1>1 DEF Reads, Holds
<1>7. \A p, n : ZeroBehind(p, n)' <=> ZeroBehind(p, n)
  BY <1>1 DEF ZeroBehind
<1>8. TableSound'
  BY <1>1, <1>5, <1>7 DEF TableSound, PoolSound
<1>9. NoTwice'
  BY <1>5, <1>6 DEF NoTwice, PoolSound
<1>10. IssuedEntered'
  <2>1. ASSUME NEW i \in issued'
        PROVE  i.text \in Texts /\ \E d \in EntryIn(Hash[i.text]) : Reads(d, i.text) /\ d.str = i.str
    BY <1>3, <1>4 DEF IssuedEntered, PoolSound
  <2>2. QED
    BY <1>5, <1>6, <2>1 DEF IssuedEntered
<1>11. WantedCopied'
  <2>1. \A p, u : Holds(p, u)' <=> Holds(p, u)
    BY <1>1 DEF Holds
  <2>2. QED
    BY <1>1, <1>5, <1>6, <1>7, <2>1 DEF WantedCopied, PoolSound
<1>12. QED
  BY <1>8, <1>9, <1>10, <1>11 DEF PoolSound

(* The copy goes to a range of its own.                                    *)
LEMMA CopyKeeps ==
  ASSUME PoolSound, Sound, Sound', NEW t \in Texts, Copy(t)
  PROVE  PoolSound'
<1>1. t \in Seq(0..255) /\ Len(t) \in Nat /\ t # NoText /\ Room(t) \in Nat /\ Room(t) = Len(t) + 1
  BY PoolAssumption, ArenaAssumption, LenProperties DEF Room
<1>2. PICK p \in Places : /\ p.size = Room(t) /\ p \notin given /\ given' = given \cup {p}
                          /\ \A q \in given : Apart(q, p)
  BY <1>1, AllocGives DEF Copy
<1> DEFINE bytes == Append(t, 0)
<1>3. table' = table /\ issued' = issued /\ wanted' = t /\ copied' = {p} /\ Write(p, bytes)
  BY <1>2 DEF Copy
<1>4. /\ bytes \in Seq(0..255) /\ Len(bytes) = p.size /\ Len(bytes) = Len(t) + 1
      /\ bytes[Len(t) + 1] = 0 /\ \A i \in 1..Len(t) : bytes[i] = t[i]
  BY <1>1, <1>2, AppendProperties
<1> HIDE DEF bytes
<1>5. ASSUME NEW b \in Buckets, NEW e \in EntryIn(b)
      PROVE  ZeroBehind(e.str, e.len)' /\ \A u \in Texts : Reads(e, u)' <=> Reads(e, u)
  <2>1. Len(bytes) <= p.size
    BY <1>1, <1>2, <1>4
  <2>2. QED
    BY <1>2, <1>3, <1>4, <2>1, EntriesLeft DEF PoolSound
<1>6. \A b : EntryIn(b)' = EntryIn(b)
  BY <1>3 DEF EntryIn
<1>7. \A u \in Texts : Hash[u] \in Buckets
  BY DEF Buckets
<1>8. TableSound'
  BY <1>2, <1>3, <1>5, <1>6 DEF TableSound, PoolSound
<1>9. NoTwice'
  BY <1>5, <1>6, <1>7 DEF NoTwice, PoolSound
<1>10. IssuedEntered'
  <2>1. ASSUME NEW i \in issued'
        PROVE  i.text \in Texts /\ \E e \in EntryIn(Hash[i.text])' : Reads(e, i.text)' /\ e.str = i.str
    <3>1. PICK e \in EntryIn(Hash[i.text]) : Reads(e, i.text) /\ e.str = i.str
      BY <1>3 DEF IssuedEntered, PoolSound
    <3>2. i.text \in Texts
      BY <1>3 DEF IssuedEntered, PoolSound
    <3>3. Reads(e, i.text)'
      BY <3>1, <3>2, <1>5, <1>7
    <3>4. QED
      BY <3>1, <3>2, <3>3, <1>6
  <2>2. QED
    BY <2>1 DEF IssuedEntered
<1>11. WantedCopied'
  <2>1. \A e \in EntryIn(Hash[t]) : ~Reads(e, t)
    BY NotFound DEF Copy
  <2>2. \A e \in EntryIn(Hash[t])' : ~Reads(e, t)'
    BY <2>1, <1>5, <1>6, <1>7
  <2>3. \A i \in 1..Len(bytes) :
          LET c == <<p.block, p.from + i - 1>> IN c \in DOMAIN content' /\ content'[c] = bytes[i]
    BY <1>3, <1>4, WriteHolds
  <2>4. Holds(p, t)'
    <3>1. \A i \in 1..Len(t) : i \in 1..Len(bytes)
      BY <1>1, <1>4
    <3>2. QED
      BY <3>1, <2>3, <1>4 DEF Holds
  <2>5. ZeroBehind(p, Len(t))'
    <3>1. Len(t) + 1 \in 1..Len(bytes) /\ p.from + (Len(t) + 1) - 1 = p.from + Len(t)
      BY <1>1, <1>4 DEF Places
    <3>2. LET c == <<p.block, p.from + (Len(t) + 1) - 1>>
          IN  c \in DOMAIN content' /\ content'[c] = bytes[Len(t) + 1]
      BY <2>3, <3>1
    <3>3. QED
      BY <3>1, <3>2, <1>4 DEF ZeroBehind
  <2>6. p \in given' /\ p.size = Len(t) + 1 /\ copied' = {p}
    BY <1>1, <1>2, <1>3
  <2>7. wanted' = t
    BY <1>3
  <2>8. /\ (\A e \in EntryIn(Hash[wanted]) : ~Reads(e, wanted))'
        /\ Holds(p, wanted)' /\ ZeroBehind(p, Len(wanted))'
    <3>1. (\A e \in EntryIn(Hash[wanted]) : ~Reads(e, wanted))'
      BY <2>2, <2>7 DEF Reads, Holds, EntryIn
    <3>2. Holds(p, wanted)'
      BY <2>4, <2>7 DEF Holds
    <3>3. ZeroBehind(p, Len(wanted))'
      BY <2>5, <2>7 DEF ZeroBehind
    <3>4. QED
      BY <3>1, <3>2, <3>3
  <2>9. QED
    BY <1>1, <2>6, <2>7, <2>8 DEF WantedCopied
<1>12. QED
  BY <1>8, <1>9, <1>10, <1>11 DEF PoolSound

(* The entry goes to the head of its bucket, and no other reads so.        *)
LEMMA EnterKeeps ==
  ASSUME PoolSound, Sound, Sound', Enter
  PROVE  PoolSound'
<1>0. PICK w, h : w = wanted /\ h = Hash[w]
  OBVIOUS
<1>1. /\ w # NoText /\ w \in Texts /\ h \in Buckets
      /\ w \in Seq(0..255) /\ Len(w) \in Nat /\ EntrySize \in Nat
      /\ \A e \in EntryIn(h) : ~Reads(e, w)
  BY <1>0, PoolAssumption, ArenaAssumption, LenProperties DEF Enter, PoolSound, WantedCopied, Buckets
<1>2. PICK p \in given : /\ copied = {p} /\ p.size = Len(w) + 1
                         /\ Holds(p, w) /\ ZeroBehind(p, Len(w))
  BY <1>0, <1>1 DEF PoolSound, WantedCopied
<1>3. p \in Places
  BY DEF PoolSound, TableSound
<1>4. PICK q \in Places : /\ q.size = EntrySize /\ q \notin given /\ given' = given \cup {q}
                          /\ \A o \in given : Apart(o, q)
  BY <1>1, AllocGives DEF Enter
<1>5a. PICK bytes, new : /\ bytes = [i \in 1..EntrySize |-> 255]
                         /\ new = [str |-> p, len |-> Len(w)]
  OBVIOUS
<1>5. /\ Write(q, bytes)
      /\ table' = [table EXCEPT ![h] = <<new>> \o @]
      /\ issued' = issued \cup {[text |-> w, str |-> p]}
      /\ wanted' = NoText /\ copied' = {}
  BY <1>0, <1>2, <1>4, <1>5a DEF Enter
<1>6. bytes \in Seq(0..255) /\ Len(bytes) <= q.size
  BY <1>1, <1>4, <1>5a
<1>7. new \in Entries /\ new.str = p /\ new.len = Len(w)
  BY <1>1, <1>3, <1>5a DEF Entries
<1>8. ASSUME NEW b \in Buckets, NEW e \in EntryIn(b)
      PROVE  ZeroBehind(e.str, e.len)' /\ \A u \in Texts : Reads(e, u)' <=> Reads(e, u)
  BY <1>4, <1>5, <1>6, EntriesLeft DEF PoolSound
<1>9. /\ table' \in [Buckets -> Seq(Entries)]
      /\ EntryIn(h)' = {new} \cup EntryIn(h)
      /\ \A b \in Buckets : b # h => EntryIn(b)' = EntryIn(b)
  <2>1. table \in [Buckets -> Seq(Entries)]
    BY DEF PoolSound, TableSound
  <2>2. table[h] \in Seq(Entries)
    BY <1>1, <2>1
  <2>2a. PICK s : s = <<new>> \o table[h]
    OBVIOUS
  <2>3. s \in Seq(Entries) /\ {s[k] : k \in 1..Len(s)} = {new} \cup {table[h][k] : k \in 1..Len(table[h])}
    BY <1>7, <2>2, <2>2a, NewHead
  <2>4. table' = [table EXCEPT ![h] = s]
    BY <1>5, <2>2a
  <2>5. table' \in [Buckets -> Seq(Entries)] /\ table'[h] = s /\ \A b \in Buckets : b # h => table'[b] = table[b]
    BY <1>1, <2>1, <2>3, <2>4
  <2>6. EntryIn(h)' = {table'[h][k] : k \in 1..Len(table'[h])}
    BY <1>5 DEF EntryIn
  <2>7. QED
    BY <2>3, <2>5, <2>6 DEF EntryIn
<1>10. ZeroBehind(new.str, new.len)'
  <2>1. Len(w) < p.size
    BY <1>1, <1>2, <1>3 DEF Places
  <2>2. ZeroBehind(p, Len(w))'
    BY <1>1, <1>2, <1>3, <1>4, <1>5, <1>6, <2>1, ZeroLeft
  <2>3. QED
    BY <2>2, <1>7 DEF ZeroBehind
<1>11. \A u \in Texts : Reads(new, u)' <=> (u = w)
  <2> SUFFICES ASSUME NEW u \in Texts PROVE Reads(new, u)' <=> (u = w)
    OBVIOUS
  <2>1. u \in Seq(0..255) /\ Len(u) \in Nat
    BY PoolAssumption, LenProperties
  <2>2. CASE Len(u) = Len(w)
    <3>1. Len(u) <= p.size
      BY <1>1, <1>2, <2>2
    <3>2. Holds(p, u)' <=> Holds(p, u)
      BY <1>2, <1>3, <1>4, <1>5, <1>6, <2>1, <3>1, TextLeft
    <3>3. Holds(p, u) <=> u = w
      BY <1>1, <1>2, <2>2, SameText
    <3>4. QED
      BY <1>7, <2>2, <3>2, <3>3 DEF Reads
  <2>3. CASE Len(u) # Len(w)
    BY <1>7, <2>3 DEF Reads
  <2>4. QED
    BY <2>2, <2>3
<1>12. \A u \in Texts : Hash[u] \in Buckets
  BY DEF Buckets
<1>13. \A b \in Buckets : \A e \in EntryIn(b)' : e \in EntryIn(b) \/ (b = h /\ e = new)
  BY <1>9
<1>14. TableSound'
  <2>1. \A b \in Buckets : \A e \in EntryIn(b)' :
          e.str \in given' /\ e.str.size = e.len + 1 /\ ZeroBehind(e.str, e.len)'
    <3> SUFFICES ASSUME NEW b \in Buckets, NEW e \in EntryIn(b)'
                 PROVE  e.str \in given' /\ e.str.size = e.len + 1 /\ ZeroBehind(e.str, e.len)'
      OBVIOUS
    <3>1. CASE e \in EntryIn(b)
      <4>1. e.str \in given /\ e.str.size = e.len + 1
        BY <3>1 DEF PoolSound, TableSound
      <4>2. QED
        BY <3>1, <4>1, <1>4, <1>8
    <3>2. CASE e = new
      <4>1. e.str \in given' /\ e.str.size = e.len + 1
        BY <3>2, <1>2, <1>4, <1>7
      <4>2. ZeroBehind(e.str, e.len)'
        BY <3>2, <1>10 DEF ZeroBehind
      <4>3. QED
        BY <4>1, <4>2
    <3>3. QED
      BY <3>1, <3>2, <1>13
  <2>2. given' \subseteq Places
    BY <1>4 DEF PoolSound, TableSound
  <2>3. QED
    BY <1>9, <2>1, <2>2 DEF TableSound
<1>15. NoTwice'
  <2>1. ASSUME NEW t \in Texts, NEW d \in EntryIn(Hash[t])', NEW e \in EntryIn(Hash[t])',
               Reads(d, t)', Reads(e, t)'
        PROVE  d.str = e.str
    <3>1. CASE d = new
      <4>1. t = w
        BY <2>1, <3>1, <1>11 DEF Reads, Holds
      <4>2. CASE e = new
        BY <3>1, <4>2
      <4>3. CASE e \in EntryIn(Hash[t])
        <5>1. Reads(e, t)
          BY <2>1, <4>3, <1>8, <1>12
        <5>2. QED
          BY <4>1, <4>3, <5>1, <1>0, <1>1
      <4>4. QED
        BY <4>2, <4>3, <1>12, <1>13
    <3>2. CASE e = new
      <4>1. t = w
        BY <2>1, <3>2, <1>11 DEF Reads, Holds
      <4>2. CASE d \in EntryIn(Hash[t])
        <5>1. Reads(d, t)
          BY <2>1, <4>2, <1>8, <1>12
        <5>2. QED
          BY <4>1, <4>2, <5>1, <1>0, <1>1
      <4>3. QED
        BY <3>1, <4>2, <1>12, <1>13
    <3>3. CASE d \in EntryIn(Hash[t]) /\ e \in EntryIn(Hash[t])
      <4>1. Reads(d, t) /\ Reads(e, t)
        BY <2>1, <3>3, <1>8, <1>12
      <4>2. QED
        BY <3>3, <4>1 DEF PoolSound, NoTwice
    <3>4. QED
      BY <3>1, <3>2, <3>3, <1>12, <1>13
  <2>2. QED
    BY <2>1 DEF NoTwice
<1>16. IssuedEntered'
  <2>1. ASSUME NEW i \in issued'
        PROVE  i.text \in Texts /\ \E e \in EntryIn(Hash[i.text])' : Reads(e, i.text)' /\ e.str = i.str
    <3>1. CASE i \in issued
      <4>1. i.text \in Texts
        BY <3>1 DEF PoolSound, IssuedEntered
      <4>2. PICK e \in EntryIn(Hash[i.text]) : Reads(e, i.text) /\ e.str = i.str
        BY <3>1 DEF PoolSound, IssuedEntered
      <4>3. e \in EntryIn(Hash[i.text])' /\ Reads(e, i.text)'
        BY <4>1, <4>2, <1>8, <1>9, <1>12
      <4>4. QED
        BY <4>1, <4>2, <4>3
    <3>2. CASE i = [text |-> w, str |-> p]
      <4>1. i.text = w /\ i.str = p
        BY <3>2
      <4>2. Reads(new, w)' /\ new \in EntryIn(Hash[w])'
        BY <1>0, <1>1, <1>9, <1>11
      <4>3. QED
        BY <4>1, <4>2, <1>1, <1>7
    <3>3. QED
      BY <3>1, <3>2, <1>5
  <2>2. QED
    BY <2>1 DEF IssuedEntered
<1>17. WantedCopied'
  BY <1>5 DEF WantedCopied
<1>18. QED
  BY <1>14, <1>15, <1>16, <1>17 DEF PoolSound

(* The invariant of the pool, with that of its arena.                      *)
(* The inductive invariant of the pool, through all its steps               *)
(* (str.c:23-69).                                                           *)
THEOREM PoolIsSound == PoolSpec => []PoolSound
<1>1. ASSUME PoolInit PROVE PoolSound
  <2>1. given = {} /\ table = Empty /\ issued = {} /\ wanted = NoText /\ copied = {}
    BY <1>1 DEF PoolInit, ArenaInit
  <2>2. \A b \in Buckets : EntryIn(b) = {}
    <3> SUFFICES ASSUME NEW b \in Buckets, NEW k \in 1..Len(table[b]) PROVE FALSE
      BY DEF EntryIn
    <3>1. Len(table[b]) = 0
      BY <2>1 DEF Empty
    <3>2. QED
      BY <3>1
  <2>3. table \in [Buckets -> Seq(Entries)]
    BY <2>1 DEF Empty
  <2>4. \A t \in Texts : Hash[t] \in Buckets
    BY DEF Buckets
  <2>5. QED
    BY <2>1, <2>2, <2>3, <2>4 DEF PoolSound, TableSound, NoTwice, IssuedEntered, WantedCopied
<1>2. ASSUME PoolSound, Sound, Sound', [PoolNext]_poolVars PROVE PoolSound'
  <2>1. CASE Start
    <3>1. given' = given
      BY <2>1 DEF Start, Create, arenaVars
    <3>2. /\ wanted = NoText /\ table' = Empty /\ issued' = {}
          /\ wanted' = wanted /\ copied' = copied
      BY <2>1 DEF Start
    <3>3. given' \subseteq Places
      BY <1>2, <3>1 DEF PoolSound, TableSound
    <3>4. QED
      BY <1>2, <3>2, <3>3, StartKeeps
  <2>2. CASE Stop
    <3>1. given' = {} \/ given' = given
      BY <2>2 DEF Stop, Destroy, arenaVars
    <3>2. /\ wanted = NoText /\ table' = Empty /\ issued' = {}
          /\ wanted' = wanted /\ copied' = copied
      BY <2>2 DEF Stop
    <3>3. given' \subseteq Places
      BY <1>2, <3>1 DEF PoolSound, TableSound
    <3>4. QED
      BY <1>2, <3>2, <3>3, StartKeeps
  <2>3. ASSUME NEW t \in Texts, Find(t) PROVE PoolSound'
    BY <1>2, <2>3, FindKeeps
  <2>4. ASSUME NEW t \in Texts, Copy(t) PROVE PoolSound'
    BY <1>2, <2>4, CopyKeeps
  <2>5. CASE Enter
    BY <1>2, <2>5, EnterKeeps
  <2>6. CASE UNCHANGED poolVars
    <3>1. UNCHANGED <<given, table, content, wanted, copied, issued>>
      BY <2>6 DEF arenaVars
    <3>2. \A b : EntryIn(b)' = EntryIn(b)
      BY <3>1 DEF EntryIn
    <3>3. \A p, u : Holds(p, u)' <=> Holds(p, u)
      BY <3>1 DEF Holds
    <3>4. \A e, u : Reads(e, u)' <=> Reads(e, u)
      BY <3>3 DEF Reads
    <3>5. \A p, n : ZeroBehind(p, n)' <=> ZeroBehind(p, n)
      BY <3>1 DEF ZeroBehind
    <3>6. TableSound'
      BY <1>2, <3>1, <3>2, <3>5 DEF PoolSound, TableSound
    <3>7. NoTwice'
      BY <1>2, <3>2, <3>4 DEF PoolSound, NoTwice
    <3>8. IssuedEntered'
      BY <1>2, <3>1, <3>2, <3>4 DEF PoolSound, IssuedEntered
    <3>9. WantedCopied'
      BY <1>2, <3>1, <3>2, <3>3, <3>4, <3>5 DEF PoolSound, WantedCopied
    <3>10. QED
      BY <3>6, <3>7, <3>8, <3>9 DEF PoolSound
  <2>7. QED
    BY <1>2, <2>1, <2>2, <2>3, <2>4, <2>5, <2>6 DEF PoolNext
<1>3. PoolSpec => []Sound
  BY PoolUsesArena, ArenaSound, PTL
<1>4. QED
  BY <1>1, <1>2, <1>3, PTL DEF PoolSpec
-----------------------------------------------------------------------------
(* Two identifiers that were interned have the same text exactly when they *)
(* have the same pointer, for any texts and any hash, however often it     *)
(* collides (str.c:30-56).                                                 *)
THEOREM OnePointerForEachText == PoolSpec => []OnePointerEach
<1>1. ASSUME PoolSound PROVE OnePointerEach
  <2> SUFFICES ASSUME NEW i \in issued, NEW j \in issued PROVE i.text = j.text <=> i.str = j.str
    BY DEF OnePointerEach
  <2>1. i.text \in Texts /\ j.text \in Texts
    BY <1>1 DEF PoolSound, IssuedEntered
  <2>2. PICK d \in EntryIn(Hash[i.text]) : Reads(d, i.text) /\ d.str = i.str
    BY <1>1 DEF PoolSound, IssuedEntered
  <2>3. PICK e \in EntryIn(Hash[j.text]) : Reads(e, j.text) /\ e.str = j.str
    BY <1>1 DEF PoolSound, IssuedEntered
  <2>4. ASSUME i.text = j.text PROVE i.str = j.str
    BY <1>1, <2>1, <2>2, <2>3, <2>4 DEF PoolSound, NoTwice
  <2>5. ASSUME i.str = j.str PROVE i.text = j.text
    <3>1. d.str.size = d.len + 1 /\ e.str.size = e.len + 1
      BY <1>1, <2>1 DEF PoolSound, TableSound, Buckets
    <3>2. Len(i.text) \in Nat /\ Len(j.text) \in Nat
      BY <2>1, PoolAssumption, LenProperties
    <3>3. d.len = Len(i.text) /\ e.len = Len(j.text) /\ Holds(d.str, i.text) /\ Holds(e.str, j.text)
      BY <2>2, <2>3 DEF Reads
    <3>4. Len(i.text) = Len(j.text)
      BY <2>2, <2>3, <2>5, <3>1, <3>2, <3>3
    <3>5. QED
      BY <2>1, <2>2, <2>3, <2>5, <3>3, <3>4, SameText
  <2>6. QED
    BY <2>4, <2>5
<1>2. QED
  BY <1>1, PoolIsSound, PTL

(* What a pointer points to is its text with a zero behind it for as long  *)
(* as the pool lives, whatever else is interned (str.c:44-53 on            *)
(* arena.c:37-60).                                                         *)
THEOREM TextsAreKept == PoolSpec => []TextsStay
<1>1. ASSUME PoolSound PROVE TextsStay
  <2> SUFFICES ASSUME NEW i \in issued PROVE Holds(i.str, Append(i.text, 0))
    BY DEF TextsStay
  <2>1. i.text \in Seq(0..255) /\ Hash[i.text] \in Buckets
    BY <1>1, PoolAssumption DEF PoolSound, IssuedEntered, Buckets
  <2>2. PICK e \in EntryIn(Hash[i.text]) : Reads(e, i.text) /\ e.str = i.str
    BY <1>1 DEF PoolSound, IssuedEntered
  <2>3. Holds(i.str, i.text) /\ ZeroBehind(i.str, Len(i.text)) /\ i.str \in Places
    BY <1>1, <2>1, <2>2 DEF PoolSound, TableSound, Reads
  <2> DEFINE n == Len(i.text)
             bytes == Append(i.text, 0)
  <2>4. /\ n \in Nat /\ Len(bytes) = n + 1 /\ bytes[n + 1] = 0
        /\ \A k \in 1..n : bytes[k] = i.text[k]
    BY <2>1, LenProperties, AppendProperties
  <2>5. i.str.from + (n + 1) - 1 = i.str.from + n
    BY <2>3, <2>4 DEF Places
  <2> HIDE DEF n, bytes
  <2>6. \A k \in 1..n : LET c == <<i.str.block, i.str.from + k - 1>>
                       IN  c \in DOMAIN content /\ content[c] = bytes[k]
    BY <2>3, <2>4 DEF Holds, n
  <2>7. LET c == <<i.str.block, i.str.from + (n + 1) - 1>>
        IN  c \in DOMAIN content /\ content[c] = bytes[n + 1]
    BY <2>3, <2>4, <2>5 DEF ZeroBehind, n
  <2>8. \A k \in 1..Len(bytes) : k \in 1..n \/ k = n + 1
    BY <2>4
  <2>9. Holds(i.str, bytes)
    BY <2>6, <2>7, <2>8 DEF Holds
  <2>10. QED
    BY <2>9 DEF bytes
<1>2. QED
  BY <1>1, PoolIsSound, PTL

(* The ranges the pool holds are apart and inside their blocks             *)
(* (str.c:44-52 on arena.c:37-60).                                         *)
THEOREM PoolRangesApart == PoolSpec => []RangesApart
BY PoolUsesArena, OwnersApart, PTL

(* and no block of the pool is lost to str_intern_destroy (str.c:63-69 on  *)
(* arena.c:49-53, 95-104).                                                 *)
THEOREM PoolBlocksReachable == PoolSpec => []NothingOutOfReach
BY PoolUsesArena, BlocksReachable, PTL
=============================================================================
