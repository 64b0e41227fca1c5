--------------------------- MODULE OptimizerProofs ---------------------------
(***************************************************************************)
(* That whatever the optimizer makes of a function can be emitted, does not *)
(* run off its end and reads no register that nothing has set, for every    *)
(* function of which that held before, every level and whatever the         *)
(* compiler's own arithmetic answers.                                       *)
(*                                                                          *)
(* Each pass rewrites instructions where they are, or drops some, or both.  *)
(* Two lemmas say what a pass must see to when it does for the code to be   *)
(* sound, RewrittenIsSound and KeptIsSound; and with a certificate, a set   *)
(* of registers for each position that every way there sets, four more say  *)
(* what it must see to for reads: RedirectedFlows and SteadyFlows,          *)
(* KeptFlows and DroppedFlows with two common cases of it.                  *)
(***************************************************************************)
EXTENDS Optimizer, SequenceTheorems, FiniteSetTheorems, WellFoundedInduction, TLAPS

-----------------------------------------------------------------------------
(* Numbers and sequences.                                                   *)

(* What holds of 0 and goes from each number to the next holds up to N. *)
LEMMA StepByStep ==
  ASSUME NEW N \in Nat, NEW T, 0 \in T,
         \A k \in 0..N : k \in T /\ k < N => k + 1 \in T
  PROVE  \A k \in 0..N : k \in T
<1> SUFFICES ASSUME NEW k \in 0..N, k \notin T
             PROVE  FALSE
  OBVIOUS
<1> DEFINE Bad == {i \in Nat : i <= N /\ i \notin T}
<1>1. PICK m \in Bad : \A i \in Bad : ~(<<i, m>> \in OpToRel(<, Nat))
  <2>1. k \in Bad /\ Bad \subseteq Nat
    OBVIOUS
  <2> QED
    BY <2>1, NatLessThanWellFounded, WFMin
<1>2. m \in 1..N /\ m - 1 \in 0..N /\ m - 1 < N /\ m - 1 \in Nat
  OBVIOUS
<1>3. m - 1 \in T
  <2>1. <<m - 1, m>> \in OpToRel(<, Nat)
    BY <1>2 DEF OpToRel
  <2> HIDE DEF Bad
  <2>2. m - 1 \notin Bad
    BY <1>1, <2>1
  <2> QED
    BY <1>2, <2>2 DEF Bad
<1>4. (m - 1) + 1 = m
  BY <1>2
<1> QED
  BY <1>2, <1>3, <1>4

(* A set of numbers that has an element has a least one.                    *)
LEMMA LeastExists ==
  ASSUME NEW S, S \subseteq Nat, NEW x \in S
  PROVE  \E m \in S : \A y \in S : m <= y
<1>1. PICK m \in S : \A y \in S : ~(<<y, m>> \in OpToRel(<, Nat))
  BY NatLessThanWellFounded, WFMin
<1>2. \A y \in S : ~(y < m)
  <2> SUFFICES ASSUME NEW y \in S, y < m
               PROVE  FALSE
    OBVIOUS
  <2>1. <<y, m>> \in OpToRel(<, Nat)
    BY DEF OpToRel
  <2> QED
    BY <1>1, <2>1
<1> QED
  BY <1>2

(* A set of numbers up to N that has an element has a greatest one.         *)
LEMMA GreatestExists ==
  ASSUME NEW N \in Nat, NEW S, S \subseteq 0..N, NEW x \in S
  PROVE  \E m \in S : \A y \in S : y <= m
<1> DEFINE T == {N - y : y \in S}
<1>1. T \subseteq Nat /\ N - x \in T
  OBVIOUS
<1>2. PICK t \in T : \A y \in T : t <= y
  <2> HIDE DEF T
  <2> QED
    BY <1>1, LeastExists
<1>3. PICK m \in S : t = N - m
  OBVIOUS
<1>4. \A y \in S : N - m <= N - y
  BY <1>2, <1>3
<1> QED
  BY <1>4

(* A sequence, whatever its elements are. *)
IsSequence(s) == Len(s) \in Nat /\ s = [k \in 1..Len(s) |-> s[k]]

(* What Append makes, of elements of whatever kind.                         *)
LEMMA AppendIsSequence ==
  ASSUME NEW s, NEW x, IsSequence(s)
  PROVE  /\ IsSequence(Append(s, x))
         /\ Len(Append(s, x)) = Len(s) + 1
         /\ DOMAIN Append(s, x) = 1..(Len(s) + 1)
         /\ \A i \in 1..Len(s) : Append(s, x)[i] = s[i]
         /\ Append(s, x)[Len(s) + 1] = x
<1> DEFINE S == {s[k] : k \in 1..Len(s)} \cup {x}
<1>1. s \in Seq(S) /\ x \in S
  BY DEF IsSequence
<1> HIDE DEF S
<1>2. /\ Append(s, x) \in Seq(S)
      /\ Len(Append(s, x)) = Len(s) + 1
      /\ DOMAIN Append(s, x) = 1..(Len(s) + 1)
      /\ \A i \in 1..Len(s) : Append(s, x)[i] = s[i]
      /\ Append(s, x)[Len(s) + 1] = x
  BY <1>1, AppendProperties
<1>3. IsSequence(Append(s, x))
  <2> DEFINE t == Append(s, x)
  <2>1. t \in Seq(S) /\ Len(t) \in Nat
    BY <1>2
  <2> HIDE DEF t
  <2>2. PICK n \in Nat : t \in [1..n -> S]
    BY <2>1, SeqDef
  <2>3. Len(t) = n
    BY <2>1, <2>2, LenProperties
  <2>4. IsSequence(t)
    BY <2>2, <2>3 DEF IsSequence
  <2> QED
    BY <2>4 DEF t
<1> QED
  BY <1>2, <1>3

(* The positions of a sequence.                                             *)
LEMMA SequenceDomain ==
  ASSUME NEW s, IsSequence(s)
  PROVE  DOMAIN s = 1..Len(s) /\ Len(s) \in Nat
BY DEF IsSequence

(* A function on the positions of a sequence is a sequence as long.         *)
LEMMA MappedIsSequence ==
  ASSUME NEW s, IsSequence(s), NEW t, DOMAIN t = DOMAIN s, t = [k \in DOMAIN t |-> t[k]]
  PROVE  IsSequence(t) /\ Len(t) = Len(s)
<1>1. DOMAIN t = 1..Len(s) /\ Len(s) \in Nat
  BY SequenceDomain
<1>2. Len(t) = Len(s)
  BY <1>1
<1> QED
  BY <1>1, <1>2 DEF IsSequence
-----------------------------------------------------------------------------
(* Dropping instructions.                                                   *)

(* Only goes over the code from its start to its end: the function it       *)
(* defines by recursion exists.                                             *)
LEMMA OnlyStages ==
  ASSUME NEW code, NEW kept, Len(code) \in Nat
  PROVE  \E u : /\ u = [k \in 0..Len(code) |->
                          IF k = 0 THEN << >>
                          ELSE IF k \in kept THEN Append(u[k - 1], code[k]) ELSE u[k - 1]]
                /\ Only(code, kept) = u[Len(code)]
<1> DEFINE N == Len(code)
           Next(k, s) == IF k \in kept THEN Append(s, code[k]) ELSE s
           Stages(g, n) == g = [k \in 0..n |-> IF k = 0 THEN << >> ELSE Next(k, g[k - 1])]
           T == {n \in Nat : \E g : Stages(g, n)}
<1> HIDE DEF Next
<1>1. 0 \in T
  <2>1. Stages([k \in 0..0 |-> << >>], 0)
    OBVIOUS
  <2> QED
    BY <2>1
<1>2. ASSUME NEW n \in 0..N, n \in T, n < N
      PROVE  n + 1 \in T
  <2>1. PICK g : Stages(g, n)
    BY <1>2
  <2> DEFINE h == [k \in 0..(n + 1) |-> IF k <= n THEN g[k] ELSE Next(k, g[k - 1])]
  <2>2. Stages(h, n + 1)
    <3>1. ASSUME NEW k \in 0..(n + 1)
          PROVE  h[k] = IF k = 0 THEN << >> ELSE Next(k, h[k - 1])
      BY <2>1
    <3> QED
      BY <3>1
  <2> HIDE DEF h
  <2> QED
    BY <2>2
<1>3. N \in T
  <2>1. N \in Nat
    OBVIOUS
  <2> HIDE DEF T, N
  <2>2. \A k \in 0..N : k \in T /\ k < N => k + 1 \in T
    BY <1>2
  <2>3. \A k \in 0..N : k \in T
    BY <1>1, <2>1, <2>2, StepByStep
  <2> QED
    BY <2>1, <2>3
<1>4. PICK u : Stages(u, N)
  BY <1>3
<1> QED
  BY <1>4 DEF Only, Next

(* r is the text at the positions S of the code, and pos says which of them *)
(* each instruction of r is from.                                           *)
Enumerates(pos, r, code, S) ==
  /\ pos \in [DOMAIN r -> S]
  /\ \A i \in DOMAIN r : r[i] = code[pos[i]]
  /\ \A i, j \in DOMAIN r : i < j => pos[i] < pos[j]
  /\ \A k \in S : \E i \in DOMAIN r : pos[i] = k

(* When the code goes on with an instruction that is kept, the text does.   *)
LEMMA OneMore ==
  ASSUME NEW code, NEW n \in Nat, NEW S, S \subseteq 1..n, NEW r, IsSequence(r),
         NEW pos, Enumerates(pos, r, code, S)
  PROVE  \E q : Enumerates(q, Append(r, code[n + 1]), code, S \cup {n + 1})
<1> DEFINE L == Len(r)
           t == Append(r, code[n + 1])
           q == [i \in 1..(L + 1) |-> IF i <= L THEN pos[i] ELSE n + 1]
<1>1. L \in Nat /\ DOMAIN r = 1..L
  BY SequenceDomain
<1>2. DOMAIN t = 1..(L + 1) /\ t[L + 1] = code[n + 1] /\ \A i \in 1..L : t[i] = r[i]
  BY AppendIsSequence
<1> HIDE DEF t, L
<1>3. \A i \in 1..(L + 1) : i \in 1..L \/ i = L + 1
  BY <1>1
<1>4. /\ \A i \in 1..L : q[i] = pos[i] /\ q[i] \in S /\ q[i] \in 1..n
      /\ q[L + 1] = n + 1
  <2>1. q[L + 1] = n + 1
    BY <1>1
  <2>2. ASSUME NEW i \in 1..L
        PROVE  q[i] = pos[i]
    BY <1>1
  <2>3. \A i \in 1..L : pos[i] \in S
    BY <1>1 DEF Enumerates
  <2> HIDE DEF q
  <2> QED
    BY <2>1, <2>2, <2>3
<1>5. q \in [DOMAIN t -> S \cup {n + 1}]
  BY <1>2, <1>3, <1>4
<1>6. \A i \in DOMAIN t : t[i] = code[q[i]]
  BY <1>1, <1>2, <1>3, <1>4 DEF Enumerates
<1>7. ASSUME NEW i \in 1..(L + 1), NEW j \in 1..(L + 1), i < j
      PROVE  q[i] < q[j]
  <2>1. i \in 1..L
    BY <1>1, <1>7
  <2>2. CASE j \in 1..L
    BY <1>1, <1>4, <1>7, <2>1, <2>2 DEF Enumerates
  <2>3. CASE j = L + 1
    <3>1. q[i] \in 1..n /\ q[j] = n + 1
      BY <1>4, <2>1, <2>3
    <3> HIDE DEF q
    <3> QED
      BY <3>1
  <2> QED
    BY <1>3, <2>2, <2>3
<1>8. ASSUME NEW k \in S \cup {n + 1}
      PROVE  \E i \in DOMAIN t : q[i] = k
  <2>1. CASE k \in S
    BY <1>1, <1>2, <1>4, <2>1 DEF Enumerates
  <2>2. CASE k = n + 1
    BY <1>1, <1>2, <1>4, <2>2
  <2> QED
    BY <2>1, <2>2
<1>9. Enumerates(q, t, code, S \cup {n + 1})
  BY <1>2, <1>5, <1>6, <1>7, <1>8 DEF Enumerates
<1> QED
  BY <1>9 DEF t

(* Only is the text of the positions that are kept, in their order.         *)
LEMMA OnlyEnumerates ==
  ASSUME NEW code, IsSequence(code), NEW kept, kept \subseteq DOMAIN code
  PROVE  IsSequence(Only(code, kept)) /\ \E pos : Enumerates(pos, Only(code, kept), code, kept)
<1> DEFINE N == Len(code)
<1>1. N \in Nat /\ DOMAIN code = 1..N
  BY SequenceDomain
<1>2. PICK u : /\ u = [k \in 0..N |->
                          IF k = 0 THEN << >>
                          ELSE IF k \in kept THEN Append(u[k - 1], code[k]) ELSE u[k - 1]]
               /\ Only(code, kept) = u[N]
  BY <1>1, OnlyStages
<1> HIDE DEF N
<1> DEFINE S(n) == kept \cap 1..n
           Right(n) == IsSequence(u[n]) /\ \E pos : Enumerates(pos, u[n], code, S(n))
           T == {n \in 0..N : Right(n)}
<1>3. 0 \in T
  <2>1. u[0] = << >>
    BY <1>1, <1>2
  <2>2. IsSequence(<< >>) /\ DOMAIN << >> = {}
    BY DEF IsSequence
  <2>3. S(0) = {}
    OBVIOUS
  <2>4. Enumerates([i \in {} |-> 0], << >>, code, {})
    BY <2>2 DEF Enumerates
  <2>5. Right(0)
    BY <2>1, <2>2, <2>3, <2>4
  <2> HIDE DEF Right
  <2> QED
    BY <1>1, <2>5
<1>4. ASSUME NEW n \in 0..N, n \in T, n < N
      PROVE  n + 1 \in T
  <2>1. n \in Nat /\ n + 1 \in 0..N /\ n + 1 # 0 /\ (n + 1) - 1 = n
    BY <1>1, <1>4
  <2>2. u[n + 1] = IF n + 1 \in kept THEN Append(u[n], code[n + 1]) ELSE u[n]
    BY <1>2, <2>1
  <2>3. PICK pos : Enumerates(pos, u[n], code, S(n))
    BY <1>4
  <2>4. IsSequence(u[n])
    BY <1>4
  <2>5. CASE n + 1 \in kept
    <3>1. S(n) \subseteq 1..n /\ S(n + 1) = S(n) \cup {n + 1}
      BY <2>1, <2>5
    <3>2. IsSequence(u[n + 1])
      BY <2>2, <2>4, <2>5, AppendIsSequence
    <3> HIDE DEF S
    <3>3. \E q : Enumerates(q, Append(u[n], code[n + 1]), code, S(n) \cup {n + 1})
      BY <2>1, <2>3, <2>4, <3>1, OneMore
    <3> QED
      BY <2>1, <2>2, <2>5, <3>1, <3>2, <3>3
  <2>6. CASE n + 1 \notin kept
    <3>1. S(n + 1) = S(n)
      BY <2>1, <2>6
    <3> HIDE DEF S
    <3> QED
      BY <2>1, <2>2, <2>3, <2>4, <2>6, <3>1
  <2> QED
    BY <2>5, <2>6
<1>5. N \in T
  <2> HIDE DEF T
  <2>1. \A k \in 0..N : k \in T /\ k < N => k + 1 \in T
    BY <1>4
  <2>2. \A k \in 0..N : k \in T
    BY <1>1, <1>3, <2>1, StepByStep
  <2> QED
    BY <1>1, <2>2
<1>6. S(N) = kept
  BY <1>1
<1> QED
  BY <1>2, <1>5, <1>6

-----------------------------------------------------------------------------
(* The two ways to rewrite code.                                            *)

(* CodeOf, without saying where a label is.                                 *)
Ends(i) == i.op \in {"JMP", "RET"}
HasLabel(code, l) == \E j \in DOMAIN code : IsLabel(code[j], l)
Sound(code, n) ==
  /\ IsSequence(code) /\ Len(code) > 0
  /\ \A k \in DOMAIN code : InstructionOf(code[k], n)
  /\ \A j, k \in DOMAIN code : code[j].op = "LABEL" /\ IsLabel(code[k], code[j].label) => j = k
  /\ \A k \in DOMAIN code : code[k].op \in Jump => HasLabel(code, code[k].label)
  /\ Ends(code[Len(code)])

(* Where a label is that is there.                                          *)
LEMMA LabelPosition ==
  ASSUME NEW code, IsSequence(code), NEW l, HasLabel(code, l)
  PROVE  LabelPos(code, l) \in DOMAIN code /\ IsLabel(code[LabelPos(code, l)], l)
<1> DEFINE S == {i \in DOMAIN code : IsLabel(code[i], l)}
<1>1. DOMAIN code \subseteq Nat
  BY SequenceDomain
<1>2. PICK x \in DOMAIN code : IsLabel(code[x], l)
  BY DEF HasLabel
<1>3. S \subseteq Nat /\ x \in S
  BY <1>1, <1>2
<1>4. PICK m \in S : \A y \in S : m <= y
  <2> HIDE DEF S
  <2> QED
    BY <1>3, LeastExists
<1> QED
  BY <1>2, <1>4 DEF LabelPos

(* The two ways to say what code is are one.                                *)
LEMMA SoundIsCode ==
  ASSUME NEW code, NEW n, Sound(code, n)
  PROVE  CodeOf(code, n)
<1>1. IsSequence(code) /\ DOMAIN code = 1..Len(code) /\ Len(code) \in Nat \ {0}
  BY SequenceDomain DEF Sound
<1>2. ASSUME NEW k \in DOMAIN code, NEW j \in Successors(code, k)
      PROVE  j \in DOMAIN code
  <2>1. CASE code[k].op \in Jump /\ j = LabelPos(code, code[k].label)
    BY <1>1, <2>1, LabelPosition DEF Sound
  <2>2. CASE code[k].op \notin {"JMP", "RET"} /\ j = k + 1
    <3>1. k # Len(code)
      BY <2>2 DEF Sound, Ends
    <3> QED
      BY <1>1, <2>2, <3>1
  <2> QED
    BY <1>2, <2>1, <2>2 DEF Successors
<1>3. \A k \in DOMAIN code : Successors(code, k) \subseteq DOMAIN code
  BY <1>2
<1> QED
  BY <1>1, <1>3 DEF CodeOf, Sound, IsSequence

(* And the other way round.                                                 *)
LEMMA CodeIsSound ==
  ASSUME NEW code, NEW n, CodeOf(code, n)
  PROVE  Sound(code, n)
<1>1. IsSequence(code) /\ Len(code) \in Nat \ {0}
  BY DEF CodeOf, IsSequence
<1>2. DOMAIN code = 1..Len(code)
  BY <1>1, SequenceDomain
<1>3. ASSUME NEW k \in DOMAIN code, code[k].op \in Jump
      PROVE  HasLabel(code, code[k].label)
  <2>1. LabelPos(code, code[k].label) \in DOMAIN code
    BY <1>3 DEF CodeOf, Successors
  <2> QED
    BY <1>1, <1>2, <2>1 DEF LabelPos, HasLabel
<1>4. Ends(code[Len(code)])
  <2>1. Len(code) \in DOMAIN code /\ Len(code) + 1 \notin DOMAIN code
    BY <1>1, <1>2
  <2> QED
    BY <2>1 DEF CodeOf, Successors, Ends
<1> QED
  BY <1>1, <1>3, <1>4 DEF CodeOf, Sound

(* Rewriting instructions where they are: labels stay, what ends the code   *)
(* still does, and a jump goes to a label there is.                         *)
Follows(code, old, new) ==
  /\ new.op = "LABEL" <=> old.op = "LABEL"
  /\ new.op = "LABEL" => new.label = old.label
  /\ Ends(old) => Ends(new)
  /\ new.op \in Jump => HasLabel(code, new.label)

(* Code in which every instruction is rewritten so is sound still.          *)
LEMMA RewrittenIsSound ==
  ASSUME NEW code, NEW n, Sound(code, n),
         NEW new, new = [k \in DOMAIN code |-> new[k]],
         \A k \in DOMAIN code : InstructionOf(new[k], n) /\ Follows(code, code[k], new[k])
  PROVE  Sound(new, n) /\ Len(new) = Len(code) /\ DOMAIN new = DOMAIN code
<1>1. DOMAIN new = DOMAIN code
  OBVIOUS
<1>2. IsSequence(code)
  BY DEF Sound
<1>3. IsSequence(new) /\ Len(new) = Len(code)
  BY <1>1, <1>2, MappedIsSequence
<1>4. Len(code) \in DOMAIN code
  BY <1>2, SequenceDomain DEF Sound
<1>5. \A k \in DOMAIN code : \A l : IsLabel(new[k], l) <=> IsLabel(code[k], l)
  BY DEF Follows, IsLabel
<1>6. ASSUME NEW j \in DOMAIN code, NEW k \in DOMAIN code,
             new[j].op = "LABEL", IsLabel(new[k], new[j].label)
      PROVE  j = k
  BY <1>5, <1>6 DEF Sound, Follows
<1>7. \A k \in DOMAIN code : new[k].op \in Jump => HasLabel(new, new[k].label)
  BY <1>1, <1>5 DEF Follows, HasLabel
<1>8. Ends(new[Len(new)])
  BY <1>3, <1>4 DEF Follows, Sound
<1>9. Len(new) > 0
  BY <1>3 DEF Sound
<1> QED
  BY <1>1, <1>3, <1>6, <1>7, <1>8, <1>9 DEF Sound

(* Dropping some: the labels of the jumps that are kept are, and the last   *)
(* that is kept ends the code.                                              *)
LEMMA KeptIsSound ==
  ASSUME NEW code, NEW n, Sound(code, n), NEW kept, kept \subseteq DOMAIN code,
         \A k \in kept : code[k].op \in Jump => \E j \in kept : IsLabel(code[j], code[k].label),
         NEW e \in kept, Ends(code[e]), \A k \in kept : k <= e
  PROVE  Sound(Only(code, kept), n)
<1> DEFINE r == Only(code, kept)
<1>1. IsSequence(code) /\ DOMAIN code = 1..Len(code) /\ Len(code) \in Nat
  BY SequenceDomain DEF Sound
<1>2. IsSequence(r) /\ \E pos : Enumerates(pos, r, code, kept)
  BY <1>1, OnlyEnumerates
<1> HIDE DEF r
<1>3. PICK pos : Enumerates(pos, r, code, kept)
  BY <1>2
<1>4. DOMAIN r = 1..Len(r) /\ Len(r) \in Nat
  BY <1>2, SequenceDomain
<1>5. \A i \in DOMAIN r : pos[i] \in kept /\ pos[i] \in 1..Len(code) /\ r[i] = code[pos[i]]
  BY <1>1, <1>3 DEF Enumerates
<1>6. PICK last \in DOMAIN r : pos[last] = e
  BY <1>3 DEF Enumerates
<1>7. last = Len(r)
  <2> SUFFICES ASSUME last # Len(r)
               PROVE  FALSE
    OBVIOUS
  <2>1. Len(r) \in DOMAIN r /\ last < Len(r)
    BY <1>4, <1>6
  <2>2. pos[last] < pos[Len(r)]
    BY <1>3, <2>1 DEF Enumerates
  <2>3. pos[Len(r)] <= e /\ pos[Len(r)] \in Int /\ e \in Int
    BY <1>1, <1>5, <2>1
  <2> QED
    BY <1>6, <2>2, <2>3
<1>8. ASSUME NEW i \in DOMAIN r, NEW j \in DOMAIN r, pos[i] = pos[j]
      PROVE  i = j
  <2>1. i \in Nat /\ j \in Nat /\ pos[i] \in Nat
    BY <1>4, <1>5
  <2>2. ~(i < j) /\ ~(j < i)
    BY <1>3, <1>8, <2>1 DEF Enumerates
  <2> QED
    BY <2>1, <2>2
<1>9. ASSUME NEW i \in DOMAIN r, NEW j \in DOMAIN r, r[i].op = "LABEL", IsLabel(r[j], r[i].label)
      PROVE  i = j
  <2>1. pos[i] = pos[j]
    BY <1>5, <1>9 DEF Sound
  <2> QED
    BY <1>8, <2>1
<1>10. ASSUME NEW i \in DOMAIN r, r[i].op \in Jump
       PROVE  HasLabel(r, r[i].label)
  <2>1. PICK k \in kept : IsLabel(code[k], code[pos[i]].label)
    BY <1>5, <1>10
  <2>2. PICK j \in DOMAIN r : pos[j] = k
    BY <1>3 DEF Enumerates
  <2> QED
    BY <1>5, <2>1, <2>2 DEF HasLabel
<1>11. Len(r) > 0 /\ Ends(r[Len(r)])
  BY <1>4, <1>5, <1>6, <1>7
<1>12. \A i \in DOMAIN r : InstructionOf(r[i], n)
  BY <1>5 DEF Sound
<1>13. Sound(r, n)
  BY <1>2, <1>9, <1>10, <1>11, <1>12 DEF Sound
<1> QED
  BY <1>13 DEF r

(* In particular when neither a label nor the last instruction goes.        *)
LEMMA MostKeptIsSound ==
  ASSUME NEW code, NEW n, Sound(code, n), NEW kept, kept \subseteq DOMAIN code,
         \A k \in DOMAIN code : code[k].op = "LABEL" => k \in kept, Len(code) \in kept
  PROVE  Sound(Only(code, kept), n)
<1>1. DOMAIN code = 1..Len(code) /\ Len(code) \in Nat
  BY SequenceDomain DEF Sound
<1>2. \A k \in kept : k <= Len(code)
  BY <1>1
<1>3. Ends(code[Len(code)])
  BY DEF Sound
<1>4. \A k \in kept : code[k].op \in Jump => \E j \in kept : IsLabel(code[j], code[k].label)
  BY DEF Sound, HasLabel, IsLabel
<1> QED
  BY <1>2, <1>3, <1>4, KeptIsSound

-----------------------------------------------------------------------------
(* Instructions.                                                            *)

(* The positions of sound code, its end among them.                         *)
LEMMA Positions ==
  ASSUME NEW code, NEW n, Sound(code, n)
  PROVE  /\ IsSequence(code) /\ Len(code) \in Nat \ {0}
         /\ DOMAIN code = 1..Len(code) /\ Len(code) \in DOMAIN code
BY SequenceDomain DEF Sound

(* An instruction that is not rewritten, and one that becomes a constant.   *)
LEMMA KeptFollows ==
  ASSUME NEW code, NEW n, Sound(code, n), NEW k \in DOMAIN code
  PROVE  InstructionOf(code[k], n) /\ Follows(code, code[k], code[k])
BY DEF Sound, Follows

(* The fields of an instruction, and what making one gives.                 *)
IsInst(i) ==
  i = [op |-> i.op, dest |-> i.dest, src1 |-> i.src1, src2 |-> i.src2, offset |-> i.offset,
       label |-> i.label, callee |-> i.callee, args |-> i.args, fp |-> i.fp]

(* What an instruction is, field by field.                                  *)
LEMMA InstructionFields ==
  ASSUME NEW i, NEW n
  PROVE  InstructionOf(i, n) <=>
           LET low == IF i.op = "STORE_STACK" THEN -2 ELSE 0
           IN  /\ IsInst(i) /\ i.dest \in 0..(n - 1)
               /\ i.op \in Jump \cup {"LABEL", "RET", "STORE_STACK"} => i.dest = 0
               /\ OperandOf(i.src1, low, n) /\ OperandOf(i.src2, low, n)
               /\ i.op \in {"LABEL", "IMM"} => i.src1.vreg = 0 /\ i.src2.vreg = 0
               /\ \A k \in DOMAIN i.args : OperandOf(i.args[k], low, n)
BY DEF InstructionOf, IsInst

(* An instruction with nothing but its operation.                           *)
LEMMA InstFields ==
  ASSUME NEW op
  PROVE  /\ IsInst(Inst(op)) /\ Inst(op).op = op
         /\ Inst(op).src1 = K(0) /\ Inst(op).src2 = K(0) /\ Inst(op).args = << >>
BY DEF Inst, IsInst

(* Whether the operands are doubles is no other field's business.           *)
LEMMA OnlyFp ==
  ASSUME NEW i, IsInst(i), NEW fp, NEW j, j = [i EXCEPT !.fp = fp]
  PROVE  /\ IsInst(j) /\ j.op = i.op /\ j.dest = i.dest /\ j.src1 = i.src1
         /\ j.src2 = i.src2 /\ j.args = i.args
BY DEF IsInst

(* A constant is an operand of any instruction.                             *)
LEMMA ConstantOperand ==
  ASSUME NEW n \in Nat \ {0}, NEW x
  PROVE  OperandOf(K(x), 0, n)
BY DEF K, OperandOf

(* What is an operand of any instruction is one of a store to a local.      *)
LEMMA WiderOperand ==
  ASSUME NEW n \in Nat \ {0}, NEW o, OperandOf(o, 0, n), NEW low \in {-2, 0}
  PROVE  OperandOf(o, low, n)
BY DEF OperandOf

(* An instruction with no second operand and no arguments.                  *)
LEMMA MadeIsInstruction ==
  ASSUME NEW n \in Nat \ {0}, NEW i, IsInst(i), i.op # "STORE_STACK",
         i.dest \in 0..(n - 1), i.op \in Jump \cup {"LABEL", "RET"} => i.dest = 0,
         OperandOf(i.src1, 0, n), i.op \in {"LABEL", "IMM"} => i.src1.vreg = 0,
         i.src2 = K(0), i.args = << >>
  PROVE  InstructionOf(i, n)
<1>1. OperandOf(K(0), 0, n) /\ K(0).vreg = 0 /\ DOMAIN << >> = {}
  BY ConstantOperand DEF K
<1> QED
  BY <1>1, InstructionFields

(* A constant for a register.                                               *)
LEMMA ImmIsInstruction ==
  ASSUME NEW n \in Nat \ {0}, NEW d \in 0..(n - 1), NEW x
  PROVE  InstructionOf(Imm(d, x), n) /\ Imm(d, x).op = "IMM" /\ Imm(d, x).dest = d
<1> DEFINE base == Inst("IMM")
<1>1. IsInst(base) /\ base.op = "IMM" /\ base.src2 = K(0) /\ base.args = << >>
  BY InstFields
<1>2. PICK i : i = Imm(d, x)
  OBVIOUS
<1>3. i = [base EXCEPT !.dest = d, !.src1 = K(x)]
  BY <1>2 DEF Imm
<1> HIDE DEF base
<1>4. IsInst(i) /\ i.op = "IMM" /\ i.dest = d /\ i.src1 = K(x) /\ i.src2 = K(0) /\ i.args = << >>
  BY <1>1, <1>3 DEF IsInst
<1>5. OperandOf(K(x), 0, n) /\ K(x).vreg = 0 /\ "IMM" \notin Jump
  BY ConstantOperand DEF K, Jump
<1>6. InstructionOf(i, n)
  BY <1>4, <1>5, MadeIsInstruction
<1> QED
  BY <1>2, <1>4, <1>6

(* A move of an operand to a register.                                      *)
LEMMA MovIsInstruction ==
  ASSUME NEW n \in Nat \ {0}, NEW d \in 0..(n - 1), NEW o, OperandOf(o, 0, n)
  PROVE  /\ InstructionOf(Mov(d, o), n) /\ Mov(d, o).op = "MOV"
         /\ Mov(d, o).dest = d /\ Mov(d, o).src1 = o /\ Mov(d, o).src2 = K(0)
<1> DEFINE base == Inst("MOV")
<1>1. IsInst(base) /\ base.op = "MOV" /\ base.src2 = K(0) /\ base.args = << >>
  BY InstFields
<1>2. PICK i : i = Mov(d, o)
  OBVIOUS
<1>3. i = [base EXCEPT !.dest = d, !.src1 = o]
  BY <1>2 DEF Mov
<1> HIDE DEF base
<1>4. IsInst(i) /\ i.op = "MOV" /\ i.dest = d /\ i.src1 = o /\ i.src2 = K(0) /\ i.args = << >>
  BY <1>1, <1>3 DEF IsInst
<1>5. InstructionOf(i, n)
  BY <1>4, MadeIsInstruction DEF Jump
<1> QED
  BY <1>2, <1>4, <1>5

(* Whether the operands are doubles does not matter to what an instruction  *)
(* is.                                                                      *)
LEMMA FpIsInstruction ==
  ASSUME NEW n, NEW i, InstructionOf(i, n), NEW fp, NEW j, j = [i EXCEPT !.fp = fp]
  PROVE  InstructionOf(j, n) /\ j.op = i.op /\ j.dest = i.dest
BY InstructionFields, OnlyFp

(* What neither jumps nor is jumped to may become anything else of that     *)
(* kind.                                                                    *)
LEMMA ImmFollows ==
  ASSUME NEW code, NEW i, i.op \notin Jump \cup {"LABEL", "RET"},
         NEW j, j.op \notin Jump \cup {"LABEL", "RET"}
  PROVE  Follows(code, i, j)
BY DEF Follows, Ends, Jump

(* Reading no more than before, setting and jumping as before.              *)
Steady(old, new) ==
  /\ Reads(new) \subseteq Reads(old) /\ Writes(new) = Writes(old)
  /\ old.op = "IMM" => new.op = "IMM"
  /\ new.op \in Jump => old.op \in Jump /\ new.label = old.label

(* Constants for some of the operands.                                      *)
LEMMA FewerOperands ==
  ASSUME NEW i, NEW q, q.op = i.op, q.dest = i.dest, q.label = i.label,
         q.src1.vreg \in {i.src1.vreg, 0}, q.src2.vreg \in {i.src2.vreg, 0},
         DOMAIN q.args = DOMAIN i.args,
         \A m \in DOMAIN i.args : q.args[m].vreg \in {i.args[m].vreg, 0}
  PROVE  Steady(i, q)
<1>1. \A v : v > 0 /\ v \in Operands(q) => v \in Operands(i)
  <2> SUFFICES ASSUME NEW v, v > 0, v \in Operands(q)
               PROVE  v \in Operands(i)
    OBVIOUS
  <2>1. v # 0
    OBVIOUS
  <2>2. CASE v \in {q.src1.vreg, q.src2.vreg}
    BY <2>1, <2>2 DEF Operands
  <2>3. CASE q.op = "CALL" /\ \E m \in DOMAIN q.args : v = q.args[m].vreg
    BY <2>1, <2>3 DEF Operands
  <2> QED
    BY <2>2, <2>3 DEF Operands
<1>2. Reads(q) \subseteq Reads(i)
  BY <1>1 DEF Reads, Positive
<1>3. Writes(q) = Writes(i)
  BY DEF Writes
<1> QED
  BY <1>2, <1>3 DEF Steady

(* An operation that becomes another on some of its operands.               *)
LEMMA FewerOperandsOfOperation ==
  ASSUME NEW i, i.op \notin Jump \cup {"CALL", "STORE", "IMM"},
         NEW q, q.op \notin Jump \cup {"CALL", "STORE"}, q.dest = i.dest,
         q.src1.vreg \in {i.src1.vreg, i.src2.vreg, 0}, q.src2.vreg \in {i.src1.vreg, i.src2.vreg, 0}
  PROVE  Steady(i, q)
<1>1. Operands(q) = {q.src1.vreg, q.src2.vreg} /\ Operands(i) = {i.src1.vreg, i.src2.vreg}
  BY DEF Operands
<1>2. \A v : v > 0 /\ v \in Operands(q) => v \in Operands(i)
  <2> SUFFICES ASSUME NEW v, v > 0, v \in Operands(q)
               PROVE  v \in Operands(i)
    OBVIOUS
  <2>1. v # 0
    OBVIOUS
  <2> QED
    BY <1>1, <2>1
<1>3. Reads(q) \subseteq Reads(i)
  BY <1>2 DEF Reads, Positive
<1>4. Writes(q) = Writes(i)
  BY DEF Writes
<1> QED
  BY <1>3, <1>4 DEF Steady

-----------------------------------------------------------------------------
(* The passes, one by one.                                                  *)

(* Store-to-load forwarding (opt.c:445-524): a load becomes a constant or a *)
(* move.                                                                    *)
LEMMA ForwardingIsSound ==
  ASSUME NEW n \in Nat \ {0}, NEW code, Sound(code, n)
  PROVE  Sound(StoreLoadForwarding(code), n)
<1> DEFINE o(k) == code[k].offset
           From(k) == {j \in 1..(k - 1) :
                         /\ code[k].op = "LOAD_STACK" /\ Enters(code[j], o(k))
                         /\ \A m \in (j + 1)..(k - 1) : ~Loses(code, code[m], o(k), code[j].src1)}
           new == [k \in DOMAIN code |->
                     IF From(k) = {} THEN code[k]
                     ELSE Forwarded(code[k], code[CHOOSE j \in From(k) : TRUE].src1)]
<1>1. StoreLoadForwarding(code) = new
  BY DEF StoreLoadForwarding
<1>2. ASSUME NEW k \in DOMAIN code
      PROVE  InstructionOf(new[k], n) /\ Follows(code, code[k], new[k])
  <2>1. CASE From(k) = {}
    BY <2>1, KeptFollows
  <2>2. CASE From(k) # {}
    <3> DEFINE j == CHOOSE j \in From(k) : TRUE
               held == code[j].src1
    <3>1. j \in From(k)
      BY <2>2
    <3>0. j \in 1..(k - 1) /\ code[k].op = "LOAD_STACK" /\ Enters(code[j], o(k))
      BY <3>1
    <3>3. new[k] = Forwarded(code[k], held)
      BY <2>2
    <3> HIDE DEF new, From, j
    <3>2. j \in DOMAIN code /\ code[k].op = "LOAD_STACK" /\ held.vreg >= 0
      BY <3>0, Positions DEF Enters
    <3>4. InstructionOf(code[k], n) /\ InstructionOf(code[j], n)
      BY <3>2 DEF Sound
    <3>5. code[k].dest \in 0..(n - 1) /\ OperandOf(held, 0, n)
      <4>1. OperandOf(held, -2, n) \/ OperandOf(held, 0, n)
        BY <3>4 DEF InstructionOf
      <4> QED
        BY <3>2, <3>4, <4>1 DEF InstructionOf, OperandOf
    <3>6. InstructionOf(Imm(code[k].dest, held.imm), n) /\ Imm(code[k].dest, held.imm).op = "IMM"
      BY <3>5, ImmIsInstruction
    <3>7. InstructionOf(Mov(code[k].dest, held), n) /\ Mov(code[k].dest, held).op = "MOV"
      BY <3>5, MovIsInstruction
    <3>8. InstructionOf(new[k], n) /\ new[k].op \in {"IMM", "MOV"}
      BY <3>3, <3>6, <3>7 DEF Forwarded
    <3> QED
      BY <3>2, <3>8, ImmFollows DEF Jump
  <2> QED
    BY <2>1, <2>2
<1>3. new = [k \in DOMAIN code |-> new[k]]
  OBVIOUS
<1> HIDE DEF new
<1> QED
  BY <1>1, <1>2, <1>3, RewrittenIsSound

(* Dead-store elimination (opt.c:570-634): only stores to locals go.        *)
LEMMA DeadStoresIsSound ==
  ASSUME NEW n, NEW code, Sound(code, n)
  PROVE  Sound(DeadStoreElimination(code), n)
<1> DEFINE kept == {k \in DOMAIN code : ~Overwritten(code, k)}
<1>1. \A k \in DOMAIN code : code[k].op = "LABEL" \/ Ends(code[k]) => k \in kept
  BY DEF Overwritten, Ends
<1>2. Len(code) \in DOMAIN code /\ Ends(code[Len(code)])
  BY Positions DEF Sound
<1>3. kept \subseteq DOMAIN code
  OBVIOUS
<1> HIDE DEF kept
<1>4. Sound(Only(code, kept), n)
  BY <1>1, <1>2, <1>3, MostKeptIsSound
<1> QED
  BY <1>4 DEF DeadStoreElimination, kept

(* Dead-code elimination (opt.c:1304-1356): only what computes a register   *)
(* goes.                                                                    *)
LEMMA DeadCodeIsSound ==
  ASSUME NEW n, NEW code, Sound(code, n)
  PROVE  Sound(DeadCodeElimination(code), n)
<1> DEFINE used == UNION {Reads(code[k]) : k \in DOMAIN code}
           kept == {k \in DOMAIN code : code[k].op \in Pure /\ code[k].dest > 0 => code[k].dest \in used}
<1>1. \A k \in DOMAIN code : code[k].op = "LABEL" \/ Ends(code[k]) => k \in kept
  BY DEF Ends, Pure, Arithmetic, Binary, Compare
<1>2. Len(code) \in DOMAIN code /\ Ends(code[Len(code)])
  BY Positions DEF Sound
<1>3. kept \subseteq DOMAIN code
  OBVIOUS
<1>4. DeadCodeElimination(code) = Only(code, kept)
  BY DEF DeadCodeElimination
<1> HIDE DEF kept
<1> QED
  BY <1>1, <1>2, <1>3, <1>4, MostKeptIsSound

(* The rules of algebraic simplification leave four kinds of instructions.  *)
LEMMA SimplifiedIsOneOf ==
  ASSUME NEW i
  PROVE  LET l == i.src1
             r == i.src2
             Copy(o) == [i EXCEPT !.op = "MOV", !.src1 = o, !.src2 = K(0)]
             Const(k) == [i EXCEPT !.op = "IMM", !.src1 = K(k), !.src2 = K(0)]
             Negated(o) == [i EXCEPT !.op = "SUB", !.src1 = K(0), !.src2 = o, !.fp = FALSE]
             Shifted(o, k) == [i EXCEPT !.op = "SHL", !.src1 = o, !.src2 = K(k)]
         IN  \/ Simplified(i) = i
             \/ /\ i.op \in Arithmetic
                /\ \/ \E o \in {l, r} : Simplified(i) = Copy(o)
                   \/ \E k \in {-1, 0, 1} : Simplified(i) = Const(k)
                   \/ \E o \in {l, r} : Simplified(i) = Negated(o)
                   \/ \E o \in {l, r} : \E k : Simplified(i) = Shifted(o, k)
BY Zenon DEF Simplified, Arithmetic, Binary, Compare

(* An instruction that becomes an operation on other operands.              *)
LEMMA OperationRewritten ==
  ASSUME NEW n, NEW i, InstructionOf(i, n), i.op # "STORE_STACK",
         NEW j, IsInst(j), j.op \notin Jump \cup {"LABEL", "RET", "STORE_STACK"},
         j.dest = i.dest, j.args = i.args,
         OperandOf(j.src1, 0, n), OperandOf(j.src2, 0, n),
         j.op = "IMM" => j.src1.vreg = 0 /\ j.src2.vreg = 0
  PROVE  InstructionOf(j, n)
BY InstructionFields

(* What they make of an instruction reads no more than it and sets what it  *)
(* did.                                                                     *)
LEMMA SimplifiedFollows ==
  ASSUME NEW n \in Nat \ {0}, NEW code, Sound(code, n), NEW k \in DOMAIN code
  PROVE  /\ InstructionOf(Simplified(code[k]), n) /\ Follows(code, code[k], Simplified(code[k]))
         /\ Steady(code[k], Simplified(code[k]))
<1>1. PICK i : i = code[k]
  OBVIOUS
<1>2. PICK s : s = Simplified(i)
  OBVIOUS
<1>3. InstructionOf(i, n) /\ Follows(code, i, i)
  BY <1>1, KeptFollows
<1>4. CASE s = i
  <2>1. Steady(i, i)
    BY DEF Steady
  <2> QED
    BY <1>1, <1>2, <1>3, <1>4, <2>1
<1>5. CASE i.op \in Arithmetic /\ s # i
  <2>1. i.op \notin Jump \cup {"LABEL", "RET", "STORE_STACK"}
    BY <1>5 DEF Arithmetic, Binary, Compare, Jump
  <2>2. IsInst(i) /\ OperandOf(i.src1, 0, n) /\ OperandOf(i.src2, 0, n)
    BY <1>3, <2>1, InstructionFields
  <2>3. \A x : OperandOf(K(x), 0, n) /\ K(x).vreg = 0
    BY ConstantOperand DEF K
  <2>4. \/ \E o \in {i.src1, i.src2} : s = [i EXCEPT !.op = "MOV", !.src1 = o, !.src2 = K(0)]
        \/ \E x \in {-1, 0, 1} : s = [i EXCEPT !.op = "IMM", !.src1 = K(x), !.src2 = K(0)]
        \/ \E o \in {i.src1, i.src2} :
             s = [i EXCEPT !.op = "SUB", !.src1 = K(0), !.src2 = o, !.fp = FALSE]
        \/ \E o \in {i.src1, i.src2} : \E x : s = [i EXCEPT !.op = "SHL", !.src1 = o, !.src2 = K(x)]
    BY <1>2, <1>5, SimplifiedIsOneOf, Zenon
  <2>5. /\ InstructionOf(s, n) /\ s.op \in {"MOV", "IMM", "SUB", "SHL"} /\ s.dest = i.dest
        /\ s.src1.vreg \in {i.src1.vreg, i.src2.vreg, 0} /\ s.src2.vreg \in {i.src1.vreg, i.src2.vreg, 0}
    <3>1. CASE \E o \in {i.src1, i.src2} : s = [i EXCEPT !.op = "MOV", !.src1 = o, !.src2 = K(0)]
      <4>1. PICK o \in {i.src1, i.src2} : s = [i EXCEPT !.op = "MOV", !.src1 = o, !.src2 = K(0)]
        BY <3>1
      <4>2. /\ IsInst(s) /\ s.op = "MOV" /\ s.dest = i.dest /\ s.args = i.args
            /\ s.src1 = o /\ s.src2 = K(0)
        BY <2>2, <4>1 DEF IsInst
      <4> QED
        BY <1>3, <2>1, <2>2, <2>3, <4>2, OperationRewritten DEF Jump
    <3>2. CASE \E x \in {-1, 0, 1} : s = [i EXCEPT !.op = "IMM", !.src1 = K(x), !.src2 = K(0)]
      <4>1. PICK x \in {-1, 0, 1} : s = [i EXCEPT !.op = "IMM", !.src1 = K(x), !.src2 = K(0)]
        BY <3>2
      <4>2. /\ IsInst(s) /\ s.op = "IMM" /\ s.dest = i.dest /\ s.args = i.args
            /\ s.src1 = K(x) /\ s.src2 = K(0)
        BY <2>2, <4>1 DEF IsInst
      <4> QED
        BY <1>3, <2>1, <2>2, <2>3, <4>2, OperationRewritten DEF Jump
    <3>3. CASE \E o \in {i.src1, i.src2} : s = [i EXCEPT !.op = "SUB", !.src1 = K(0), !.src2 = o, !.fp = FALSE]
      <4>1. PICK o \in {i.src1, i.src2} : s = [i EXCEPT !.op = "SUB", !.src1 = K(0), !.src2 = o, !.fp = FALSE]
        BY <3>3
      <4>2. /\ IsInst(s) /\ s.op = "SUB" /\ s.dest = i.dest /\ s.args = i.args
            /\ s.src1 = K(0) /\ s.src2 = o
        BY <2>2, <4>1 DEF IsInst
      <4> QED
        BY <1>3, <2>1, <2>2, <2>3, <4>2, OperationRewritten DEF Jump
    <3>4. CASE \E o \in {i.src1, i.src2} : \E x : s = [i EXCEPT !.op = "SHL", !.src1 = o, !.src2 = K(x)]
      <4>1. PICK o \in {i.src1, i.src2} : \E x : s = [i EXCEPT !.op = "SHL", !.src1 = o, !.src2 = K(x)]
        BY <3>4
      <4>2. PICK x : s = [i EXCEPT !.op = "SHL", !.src1 = o, !.src2 = K(x)]
        BY <4>1
      <4>3. /\ IsInst(s) /\ s.op = "SHL" /\ s.dest = i.dest /\ s.args = i.args
            /\ s.src1 = o /\ s.src2 = K(x)
        BY <2>2, <4>2 DEF IsInst
      <4> QED
        BY <1>3, <2>1, <2>2, <2>3, <4>3, OperationRewritten DEF Jump
    <3> QED
      BY <2>4, <3>1, <3>2, <3>3, <3>4
  <2>6. s.op \notin Jump \cup {"LABEL", "RET"}
    BY <2>5 DEF Jump
  <2>7. Follows(code, i, s)
    BY <2>1, <2>6, ImmFollows
  <2>8. i.op \notin {"CALL", "STORE", "IMM"} /\ s.op \notin {"CALL", "STORE"}
    BY <1>5, <2>5 DEF Arithmetic, Binary, Compare
  <2>9. Steady(i, s)
    BY <2>1, <2>5, <2>6, <2>8, FewerOperandsOfOperation
  <2> QED
    BY <1>1, <1>2, <2>5, <2>7, <2>9
<1> QED
  BY <1>2, <1>4, <1>5, SimplifiedIsOneOf, Zenon

(* Algebraic simplification (opt.c:640-968).                                *)
LEMMA AlgebraIsSound ==
  ASSUME NEW n \in Nat \ {0}, NEW code, Sound(code, n)
  PROVE  Sound(AlgebraicSimplification(code), n)
<1> DEFINE new == [k \in DOMAIN code |-> Simplified(code[k])]
<1>1. \A k \in DOMAIN code : InstructionOf(Simplified(code[k]), n) /\ Follows(code, code[k], Simplified(code[k]))
  BY SimplifiedFollows
<1>2. new = [k \in DOMAIN code |-> new[k]] /\ \A k \in DOMAIN code : new[k] = Simplified(code[k])
  OBVIOUS
<1>3. AlgebraicSimplification(code) = new
  BY DEF AlgebraicSimplification
<1> HIDE DEF new
<1> QED
  BY <1>1, <1>2, <1>3, RewrittenIsSound

(* Branches on a constant (opt.c:1003-1034): one that is taken becomes a    *)
(* jump, the others go.                                                     *)
LEMMA ConstantBranchesIsSound ==
  ASSUME NEW n \in Nat \ {0}, NEW code, Sound(code, n)
  PROVE  Sound(ConstantBranches(code), n)
<1> DEFINE keep == {k \in DOMAIN code : ConstantBranch(code[k]) => Taken(code[k])}
<1>1. Sound(Only(code, keep), n)
  <2>1. \A k \in DOMAIN code : code[k].op = "LABEL" \/ Ends(code[k]) => k \in keep
    BY DEF ConstantBranch, CondJump, Ends
  <2>2. Len(code) \in DOMAIN code /\ Ends(code[Len(code)])
    BY Positions DEF Sound
  <2>3. keep \subseteq DOMAIN code
    OBVIOUS
  <2> HIDE DEF keep
  <2> QED
    BY <2>1, <2>2, <2>3, MostKeptIsSound
<1>2. PICK kept : kept = Only(code, keep)
  OBVIOUS
<1> DEFINE new == [k \in DOMAIN kept |->
                     IF ConstantBranch(kept[k]) THEN Jmp(kept[k].label) ELSE kept[k]]
<1>3. ConstantBranches(code) = new
  BY <1>2 DEF ConstantBranches
<1>4. Sound(kept, n)
  BY <1>1, <1>2
<1>5. ASSUME NEW k \in DOMAIN kept
      PROVE  InstructionOf(new[k], n) /\ Follows(kept, kept[k], new[k])
  <2>1. CASE ~ConstantBranch(kept[k])
    BY <1>4, <2>1, KeptFollows
  <2>2. CASE ConstantBranch(kept[k])
    <3>1. PICK l : l = kept[k].label /\ HasLabel(kept, l)
      BY <1>4, <2>2 DEF Sound, ConstantBranch, CondJump, Jump
    <3>2. PICK j : j = Jmp(l)
      OBVIOUS
    <3>3. /\ IsInst(j) /\ j.op = "JMP" /\ j.label = l /\ j.dest = 0
          /\ j.src1 = K(0) /\ j.src2 = K(0) /\ j.args = << >>
      BY <3>2 DEF Jmp, Inst, IsInst
    <3>4. InstructionOf(j, n)
      BY <3>3, ConstantOperand, MadeIsInstruction
    <3>5. new[k] = j
      BY <2>2, <3>1, <3>2
    <3>6. kept[k].op \notin {"LABEL", "RET"}
      BY <2>2 DEF ConstantBranch, CondJump
    <3> HIDE DEF new
    <3> QED
      BY <3>1, <3>3, <3>4, <3>5, <3>6 DEF Follows, Ends
  <2> QED
    BY <2>1, <2>2
<1>6. new = [k \in DOMAIN kept |-> new[k]]
  OBVIOUS
<1> HIDE DEF new
<1> QED
  BY <1>3, <1>4, <1>5, <1>6, RewrittenIsSound

(* Jumps to the label behind them (opt.c:1037-1060): none is at the end of  *)
(* the code.                                                                *)
LEMMA DeadJumpsIsSound ==
  ASSUME NEW n, NEW code, Sound(code, n)
  PROVE  Sound(DeadJumps(code), n)
<1> DEFINE kept == {k \in DOMAIN code : ~(code[k].op \in Jump /\ LabelBehind(code, k, code[k].label))}
<1>1. \A k \in DOMAIN code : code[k].op = "LABEL" => k \in kept
  BY DEF Jump
<1>2. Len(code) \in kept
  BY Positions DEF LabelBehind
<1>3. kept \subseteq DOMAIN code /\ DeadJumps(code) = Only(code, kept)
  BY DEF DeadJumps
<1> HIDE DEF kept
<1> QED
  BY <1>1, <1>2, <1>3, MostKeptIsSound

(* Labels nothing refers to (opt.c:1074-1097): the labels of jumps stay.    *)
LEMMA UnusedLabelsIsSound ==
  ASSUME NEW n, NEW code, Sound(code, n)
  PROVE  Sound(UnusedLabels(code), n)
<1> DEFINE kept == {k \in DOMAIN code : \/ code[k].op # "LABEL" \/ Referenced(code, code[k].label)
                                        \/ k > 1 /\ code[k - 1].op \in {"JMP", "RET"}}
<1>1. ASSUME NEW k \in kept, code[k].op \in Jump
      PROVE  \E j \in kept : IsLabel(code[j], code[k].label)
  BY <1>1 DEF Sound, HasLabel, IsLabel, Referenced
<1>2. Len(code) \in kept /\ Ends(code[Len(code)])
  BY Positions DEF Sound, Ends
<1>3. \A k \in kept : k <= Len(code)
  BY Positions
<1>4. kept \subseteq DOMAIN code /\ UnusedLabels(code) = Only(code, kept)
  BY DEF UnusedLabels
<1> HIDE DEF kept
<1> QED
  BY <1>1, <1>2, <1>3, <1>4, KeptIsSound

(* Branches before a jump to the same place (opt.c:1133-1148).              *)
LEMMA SameTargetsIsSound ==
  ASSUME NEW n, NEW code, Sound(code, n)
  PROVE  Sound(SameTargets(code), n)
<1> DEFINE kept == {k \in DOMAIN code : ~(/\ code[k].op \in CondJump
                                          /\ k < Len(code) /\ code[k + 1].op = "JMP"
                                          /\ code[k + 1].label = code[k].label)}
<1>1. \A k \in DOMAIN code : code[k].op = "LABEL" => k \in kept
  BY DEF CondJump
<1>2. Len(code) \in kept
  BY Positions
<1>3. kept \subseteq DOMAIN code /\ SameTargets(code) = Only(code, kept)
  BY DEF SameTargets
<1> HIDE DEF kept
<1> QED
  BY <1>1, <1>2, <1>3, MostKeptIsSound

(* Up to the first jump or return that no label follows any more, which is  *)
(* where the code then ends.                                                *)
LEMMA AfterJumpIsSound ==
  ASSUME NEW n, NEW code, Sound(code, n)
  PROVE  Sound(AfterJump(code), n)
<1> DEFINE kept == {k \in DOMAIN code : \A j \in 1..(k - 1) : code[j].op \in {"JMP", "RET"} =>
                                          \E m \in (j + 1)..k : code[m].op = "LABEL"}
           A == {j \in DOMAIN code : Ends(code[j]) /\ \A m \in (j + 1)..Len(code) : code[m].op # "LABEL"}
<1>1. DOMAIN code = 1..Len(code) /\ Len(code) \in Nat /\ A \subseteq Nat /\ Len(code) \in A
  BY Positions DEF Sound
<1>2. PICK e \in A : \A j \in A : e <= j
  <2> HIDE DEF A
  <2> QED
    BY <1>1, LeastExists
<1>3. e \in DOMAIN code /\ e \in Nat /\ Ends(code[e])
  BY <1>1, <1>2
<1>4. ASSUME NEW j \in 1..(e - 1), code[j].op \in {"JMP", "RET"}
      PROVE  \E m \in (j + 1)..e : code[m].op = "LABEL"
  <2>1. j \in DOMAIN code /\ ~(e <= j) /\ Ends(code[j])
    BY <1>1, <1>3, <1>4 DEF Ends
  <2>2. PICK m \in (j + 1)..Len(code) : code[m].op = "LABEL"
    BY <1>2, <2>1
  <2>3. m \notin (e + 1)..Len(code)
    BY <1>2, <2>2
  <2> QED
    BY <1>1, <1>3, <2>1, <2>2, <2>3
<1>5. e \in kept
  BY <1>3, <1>4
<1>6. ASSUME NEW k \in kept
      PROVE  k <= e
  <2> SUFFICES ASSUME ~(k <= e)
               PROVE  FALSE
    OBVIOUS
  <2>1. k \in 1..Len(code) /\ e \in 1..(k - 1)
    BY <1>1, <1>3
  <2>2. PICK m \in (e + 1)..k : code[m].op = "LABEL"
    BY <1>3, <2>1 DEF Ends
  <2>3. m \in (e + 1)..Len(code)
    BY <1>3, <2>1
  <2> QED
    BY <1>2, <2>2, <2>3
<1>7. \A k \in DOMAIN code : code[k].op = "LABEL" => k \in kept
  <2> SUFFICES ASSUME NEW k \in DOMAIN code, code[k].op = "LABEL", NEW j \in 1..(k - 1)
               PROVE  \E m \in (j + 1)..k : code[m].op = "LABEL"
    OBVIOUS
  <2> QED
    BY <1>1
<1>8. kept \subseteq DOMAIN code /\ AfterJump(code) = Only(code, kept)
  BY DEF AfterJump
<1> HIDE DEF kept, A
<1>9. \A k \in kept : code[k].op \in Jump => \E j \in kept : IsLabel(code[j], code[k].label)
  BY <1>7, <1>8 DEF Sound, HasLabel, IsLabel
<1> QED
  BY <1>3, <1>5, <1>6, <1>8, <1>9, KeptIsSound

(* A branch over a jump takes the jump's label, which is there.             *)
LEMMA InvertedIsSound ==
  ASSUME NEW n, NEW code, Sound(code, n)
  PROVE  Sound(Inverted(code), n)
<1> DEFINE other == [op \in CondJump |-> CHOOSE o \in CondJump : o # op]
           new == [k \in DOMAIN code |->
                     IF SkipsJump(code, k)
                     THEN [code[k] EXCEPT !.op = other[@], !.label = code[k + 1].label] ELSE code[k]]
           kept == {k \in DOMAIN code : k = 1 \/ ~SkipsJump(code, k - 1)}
<1>1. Inverted(code) = Only(new, kept)
  BY DEF Inverted
<1>2. ASSUME NEW op \in CondJump
      PROVE  other[op] \in CondJump
  <2>1. \E o \in CondJump : o # op
    BY DEF CondJump
  <2> QED
    BY <2>1
<1> HIDE DEF other
<1>3. ASSUME NEW k \in DOMAIN code
      PROVE  InstructionOf(new[k], n) /\ Follows(code, code[k], new[k])
  <2>1. CASE ~SkipsJump(code, k)
    BY <2>1, KeptFollows
  <2>2. CASE SkipsJump(code, k)
    <3>1. PICK i : i = code[k]
      OBVIOUS
    <3>2. PICK l : l = code[k + 1].label
      OBVIOUS
    <3>3. k + 1 \in DOMAIN code /\ code[k + 1].op = "JMP" /\ i.op \in CondJump
      BY <2>2, <3>1, Positions DEF SkipsJump
    <3>4. PICK op : op = other[i.op]
      OBVIOUS
    <3>5. PICK j : j = [i EXCEPT !.op = op, !.label = l]
      OBVIOUS
    <3>6. new[k] = j
      BY <2>2, <3>1, <3>2, <3>4, <3>5
    <3>7. op \in CondJump /\ InstructionOf(i, n) /\ HasLabel(code, l)
      BY <1>2, <3>1, <3>2, <3>3, <3>4 DEF Sound, Jump
    <3>8. /\ IsInst(j) /\ j.op = op /\ j.label = l /\ j.dest = i.dest
          /\ j.src1 = i.src1 /\ j.src2 = i.src2 /\ j.args = i.args
      BY <3>5, <3>7, InstructionFields DEF IsInst
    <3>9. /\ i.op \in Jump /\ i.op \notin {"LABEL", "RET", "JMP", "STORE_STACK"}
          /\ op \notin {"LABEL", "IMM", "STORE_STACK"}
      BY <3>3, <3>7 DEF CondJump, Jump
    <3> HIDE DEF new
    <3>10. InstructionOf(j, n)
      BY <3>7, <3>8, <3>9, InstructionFields
    <3> QED
      BY <3>1, <3>6, <3>7, <3>8, <3>9, <3>10 DEF Follows, Ends
  <2> QED
    BY <2>1, <2>2
<1>4. new = [k \in DOMAIN code |-> new[k]]
  OBVIOUS
<1>5. kept \subseteq DOMAIN code
  OBVIOUS
<1>6. Len(code) \in kept
  BY Positions DEF SkipsJump, LabelBehind
<1>7. \A k \in DOMAIN code : code[k].op = "LABEL" => k \in kept
  BY Positions DEF SkipsJump
<1> HIDE DEF new, kept
<1>8. Sound(new, n) /\ Len(new) = Len(code) /\ DOMAIN new = DOMAIN code
  BY <1>3, <1>4, RewrittenIsSound
<1>9. \A k \in DOMAIN new : new[k].op = "LABEL" => k \in kept
  BY <1>3, <1>7, <1>8 DEF Follows
<1> QED
  BY <1>1, <1>5, <1>6, <1>8, <1>9, MostKeptIsSound

(* Every label is in a row that has a first one.                            *)
LEMMA LabelsHaveHeads ==
  ASSUME NEW code, IsSequence(code), NEW p \in DOMAIN code, code[p].op = "LABEL"
  PROVE  LET h == RowHead(code, p)
         IN  /\ h \in DOMAIN code /\ code[h].op = "LABEL" /\ IsRowHead(code, h)
             /\ h <= p /\ \A m \in h..p : code[m].op = "LABEL"
<1> DEFINE S == {h \in 1..p : \A m \in h..p : code[m].op = "LABEL"}
<1>1. DOMAIN code = 1..Len(code) /\ Len(code) \in Nat /\ p \in Nat
  BY SequenceDomain
<1>2. S \subseteq Nat /\ p \in S
  BY <1>1
<1>3. PICK h \in S : \A y \in S : h <= y
  <2> HIDE DEF S
  <2> QED
    BY <1>2, LeastExists
<1>4. IsRowHead(code, h)
  <2>1. code[h].op = "LABEL"
    BY <1>1
  <2>2. ASSUME h > 1, code[h - 1].op = "LABEL"
        PROVE  FALSE
    <3>1. h - 1 \in S
      <4>1. h - 1 \in 1..p
        BY <1>1, <2>2
      <4>2. ASSUME NEW m \in (h - 1)..p
            PROVE  code[m].op = "LABEL"
        <5>1. m = h - 1 \/ m \in h..p
          BY <1>1
        <5> QED
          BY <2>2, <5>1
      <4> QED
        BY <4>1, <4>2
    <3> QED
      BY <1>1, <1>3, <3>1
  <2> QED
    BY <2>1, <2>2 DEF IsRowHead
<1>5. /\ RowHead(code, p) \in 1..p /\ IsRowHead(code, RowHead(code, p))
      /\ \A m \in RowHead(code, p)..p : code[m].op = "LABEL"
  BY <1>3, <1>4 DEF RowHead
<1> QED
  BY <1>1, <1>5 DEF IsRowHead

(* Labels in a row (opt.c:1151-1169): a jump gets the first of them, which  *)
(* is kept.                                                                 *)
LEMMA OneLabelInARowIsSound ==
  ASSUME NEW n, NEW code, Sound(code, n)
  PROVE  Sound(OneLabelInARow(code), n)
<1> DEFINE Name(l) == LET p == LabelPos(code, l) IN IF p = 0 THEN l ELSE code[RowHead(code, p)].label
           new == [k \in DOMAIN code |->
                     IF code[k].op \in Jump THEN [code[k] EXCEPT !.label = Name(@)] ELSE code[k]]
           kept == {k \in DOMAIN code : code[k].op = "LABEL" => IsRowHead(code, k)}
<1>1. OneLabelInARow(code) = Only(new, kept)
  BY DEF OneLabelInARow
<1>2. IsSequence(code) /\ DOMAIN code = 1..Len(code) /\ Len(code) \in Nat \ {0}
  BY Positions
<1>3. ASSUME NEW l, HasLabel(code, l)
      PROVE  \E j \in kept : IsLabel(code[j], Name(l))
  <2>1. LabelPos(code, l) \in DOMAIN code /\ code[LabelPos(code, l)].op = "LABEL"
    BY <1>2, <1>3, LabelPosition DEF IsLabel
  <2>2. PICK h : h = RowHead(code, LabelPos(code, l))
    OBVIOUS
  <2>3. h \in DOMAIN code /\ code[h].op = "LABEL" /\ IsRowHead(code, h)
    BY <1>2, <2>1, <2>2, LabelsHaveHeads
  <2>4. Name(l) = code[h].label
    BY <1>2, <2>1, <2>2
  <2> QED
    BY <2>3, <2>4 DEF IsLabel
<1> HIDE DEF Name
<1>4. ASSUME NEW k \in DOMAIN code
      PROVE  /\ InstructionOf(new[k], n) /\ Follows(code, code[k], new[k])
             /\ new[k].op \in Jump => \E j \in kept : IsLabel(code[j], new[k].label)
  <2>1. CASE code[k].op \notin Jump
    BY <2>1, KeptFollows
  <2>2. CASE code[k].op \in Jump
    <3>1. PICK i : i = code[k]
      OBVIOUS
    <3>2. PICK l : l = Name(i.label)
      OBVIOUS
    <3>3. PICK j : j = [i EXCEPT !.label = l]
      OBVIOUS
    <3>4. new[k] = j
      BY <2>2, <3>1, <3>2, <3>3
    <3>5. InstructionOf(i, n) /\ \E m \in kept : IsLabel(code[m], l)
      BY <1>3, <2>2, <3>1, <3>2 DEF Sound
    <3>6. /\ IsInst(j) /\ j.op = i.op /\ j.label = l /\ j.dest = i.dest
          /\ j.src1 = i.src1 /\ j.src2 = i.src2 /\ j.args = i.args
      BY <3>3, <3>5, InstructionFields DEF IsInst
    <3>7. i.op # "LABEL"
      BY <2>2, <3>1 DEF Jump
    <3>8. HasLabel(code, l)
      BY <3>5 DEF HasLabel
    <3> HIDE DEF new, kept
    <3>9. InstructionOf(j, n)
      BY <3>5, <3>6, InstructionFields
    <3> QED
      BY <3>1, <3>4, <3>5, <3>6, <3>7, <3>8, <3>9 DEF Follows, Ends
  <2> QED
    BY <2>1, <2>2
<1>5. new = [k \in DOMAIN code |-> new[k]] /\ kept \subseteq DOMAIN code
  OBVIOUS
<1>6. Len(code) \in kept /\ Ends(code[Len(code)])
  BY Positions DEF Sound, Ends
<1> HIDE DEF new, kept
<1>7. Sound(new, n) /\ Len(new) = Len(code) /\ DOMAIN new = DOMAIN code
  BY <1>4, <1>5, RewrittenIsSound
<1>8. \A k \in kept : new[k].op \in Jump => \E j \in kept : IsLabel(new[j], new[k].label)
  BY <1>4, <1>5 DEF Follows, IsLabel
<1>9. Ends(new[Len(code)]) /\ \A k \in kept : k <= Len(code)
  BY <1>2, <1>4, <1>5, <1>6 DEF Follows
<1> QED
  BY <1>1, <1>5, <1>6, <1>7, <1>8, <1>9, KeptIsSound

(* Where a jump goes on to is a label there is.                             *)
LEMMA HopHasLabel ==
  ASSUME NEW n, NEW code, Sound(code, n), NEW l, HasLabel(code, l)
  PROVE  HasLabel(code, Hop(code, l))
<1> DEFINE p == LabelPos(code, l)
<1>1. CASE p > 0 /\ p < Len(code) /\ code[p + 1].op = "JMP"
  <2>1. p \in DOMAIN code
    BY LabelPosition, Positions
  <2>2. p + 1 \in DOMAIN code
    BY <1>1, <2>1, Positions
  <2> QED
    BY <1>1, <2>2 DEF Sound, Hop, Jump
<1>2. CASE ~(p > 0 /\ p < Len(code) /\ code[p + 1].op = "JMP")
  BY <1>2 DEF Hop
<1> QED
  BY <1>1, <1>2

(* What a hop does not leave, eight hops do not.                            *)
LEMMA ThreadTargetStaysIn ==
  ASSUME NEW code, NEW ok, NEW l \in ok, \A m \in ok : Hop(code, m) \in ok
  PROVE  ThreadTarget(code, l) \in ok
<1> DEFINE N == MaxHops
           Base == l
           Next(k, s) == Hop(code, s)
           Good(k, s) == s \in ok
           Stages(g, m) == g = [k \in 0..m |-> IF k = 0 THEN Base ELSE Next(k, g[k - 1])]
           T == {m \in Nat : \E g : Stages(g, m)}
<1>1. N \in Nat
  BY DEF MaxHops
<1>2. Good(0, Base)
  OBVIOUS
<1>3. ASSUME NEW k \in 1..N, NEW s, Good(k - 1, s)
      PROVE  Good(k, Next(k, s))
  BY <1>3
<1> HIDE DEF Base, Next, Good
<1>4. 0 \in T
  <2>1. Stages([k \in 0..0 |-> Base], 0)
    OBVIOUS
  <2> QED
    BY <2>1
<1>5. ASSUME NEW m \in 0..N, m \in T, m < N
      PROVE  m + 1 \in T
  <2>1. PICK g : Stages(g, m)
    BY <1>5
  <2> DEFINE h == [k \in 0..(m + 1) |-> IF k <= m THEN g[k] ELSE Next(k, g[k - 1])]
  <2>2. Stages(h, m + 1)
    <3>1. ASSUME NEW k \in 0..(m + 1)
          PROVE  h[k] = IF k = 0 THEN Base ELSE Next(k, h[k - 1])
      BY <2>1
    <3> QED
      BY <3>1
  <2> HIDE DEF h
  <2> QED
    BY <1>1, <2>2
<1>6. N \in T
  <2> HIDE DEF T, N
  <2>1. \A k \in 0..N : k \in T /\ k < N => k + 1 \in T
    BY <1>5
  <2>2. \A k \in 0..N : k \in T
    BY <1>1, <1>4, <2>1, StepByStep
  <2> QED
    BY <1>1, <2>2
<1>7. PICK u : Stages(u, N) /\ ThreadTarget(code, l) = u[N]
  BY <1>6 DEF ThreadTarget, Base, Next
<1>8. Good(N, u[N])
  <2> DEFINE R == {m \in 0..N : Good(m, u[m])}
  <2>1. 0 \in R
    BY <1>1, <1>2, <1>7
  <2>2. ASSUME NEW m \in 0..N, m \in R, m < N
        PROVE  m + 1 \in R
    <3>1. m + 1 \in 1..N /\ m + 1 \in 0..N /\ (m + 1) - 1 = m
      BY <1>1, <2>2
    <3>2. u[m + 1] = Next(m + 1, u[m])
      BY <1>7, <3>1
    <3> QED
      BY <1>3, <2>2, <3>1, <3>2
  <2> HIDE DEF R, N
  <2>3. \A k \in 0..N : k \in R /\ k < N => k + 1 \in R
    BY <2>2
  <2>4. \A k \in 0..N : k \in R
    BY <1>1, <2>1, <2>3, StepByStep
  <2> QED
    BY <1>1, <2>4 DEF R
<1> QED
  BY <1>7, <1>8 DEF Good, N

(* So a threaded jump has a label to go to.                                 *)
LEMMA ThreadTargetHasLabel ==
  ASSUME NEW n, NEW code, Sound(code, n), NEW l, HasLabel(code, l)
  PROVE  HasLabel(code, ThreadTarget(code, l))
<1> DEFINE ok == {code[j].label : j \in {i \in DOMAIN code : code[i].op = "LABEL"}}
<1>1. \A m : m \in ok <=> HasLabel(code, m)
  BY DEF HasLabel, IsLabel
<1> HIDE DEF ok
<1>2. \A m \in ok : Hop(code, m) \in ok
  BY <1>1, HopHasLabel
<1>3. ThreadTarget(code, l) \in ok
  BY <1>1, <1>2, ThreadTargetStaysIn
<1> QED
  BY <1>1, <1>3

(* A single jump that is sent to another label.                             *)
LEMMA JumpRedirected ==
  ASSUME NEW n, NEW code, Sound(code, n), NEW k \in DOMAIN code, code[k].op \in Jump,
         NEW l, HasLabel(code, l),
         NEW new, new = [m \in DOMAIN code |-> new[m]], new[k] = [code[k] EXCEPT !.label = l],
         \A m \in DOMAIN code \ {k} : new[m] = code[m]
  PROVE  Sound(new, n) /\ Len(new) = Len(code)
<1>1. PICK i : i = code[k]
  OBVIOUS
<1>2. PICK j : j = [i EXCEPT !.label = l]
  OBVIOUS
<1>3. InstructionOf(i, n) /\ i.op \in Jump
  BY <1>1 DEF Sound
<1>4. /\ IsInst(j) /\ j.op = i.op /\ j.label = l /\ j.dest = i.dest
      /\ j.src1 = i.src1 /\ j.src2 = i.src2 /\ j.args = i.args
  BY <1>2, <1>3, InstructionFields DEF IsInst
<1>5. InstructionOf(j, n) /\ j.op # "LABEL" /\ new[k] = j
  BY <1>1, <1>2, <1>3, <1>4, InstructionFields DEF Jump
<1>6. ASSUME NEW m \in DOMAIN code
      PROVE  InstructionOf(new[m], n) /\ Follows(code, code[m], new[m])
  <2>1. CASE m = k
    BY <1>1, <1>3, <1>4, <1>5, <2>1 DEF Follows, Ends, Jump
  <2>2. CASE m # k
    BY <2>2, KeptFollows
  <2> QED
    BY <2>1, <2>2
<1> QED
  BY <1>6, RewrittenIsSound

(* Jumps to jumps (opt.c:1063-1071), each rewritten before the next is      *)
(* followed.                                                                *)
LEMMA ThreadedIsSound ==
  ASSUME NEW n, NEW code, Sound(code, n)
  PROVE  Sound(Threaded(code), n)
<1> DEFINE N == Len(code)
           Base == code
           Next(k, s) == IF s[k].op \in Jump THEN [s EXCEPT ![k].label = ThreadTarget(s, @)] ELSE s
           Good(k, s) == Sound(s, n) /\ Len(s) = Len(code)
           Stages(g, m) == g = [k \in 0..m |-> IF k = 0 THEN Base ELSE Next(k, g[k - 1])]
           T == {m \in Nat : \E g : Stages(g, m)}
<1>1. N \in Nat
  BY Positions
<1>2. Good(0, Base)
  OBVIOUS
<1>3. ASSUME NEW k \in 1..N, NEW s, Good(k - 1, s)
      PROVE  Good(k, Next(k, s))
  <2>1. CASE s[k].op \in Jump
    <3>1. k \in DOMAIN s
      BY <1>1, <1>3, Positions
    <3>2. PICK l : l = ThreadTarget(s, s[k].label)
      OBVIOUS
    <3>3. HasLabel(s, l)
      BY <1>3, <2>1, <3>1, <3>2, ThreadTargetHasLabel DEF Sound
    <3>4. PICK new : new = [s EXCEPT ![k].label = l]
      OBVIOUS
    <3>5. /\ new = [m \in DOMAIN s |-> new[m]] /\ new[k] = [s[k] EXCEPT !.label = l]
          /\ \A m \in DOMAIN s \ {k} : new[m] = s[m]
      BY <1>3, <3>1, <3>4, Positions DEF IsSequence
    <3>6. Sound(new, n) /\ Len(new) = Len(s)
      BY <1>3, <2>1, <3>1, <3>3, <3>5, JumpRedirected
    <3>7. Next(k, s) = new
      BY <2>1, <3>2, <3>4
    <3> QED
      BY <1>3, <3>6, <3>7
  <2>2. CASE s[k].op \notin Jump
    BY <1>3, <2>2
  <2> QED
    BY <2>1, <2>2
<1> HIDE DEF Base, Next, Good
<1>4. 0 \in T
  <2>1. Stages([k \in 0..0 |-> Base], 0)
    OBVIOUS
  <2> QED
    BY <2>1
<1>5. ASSUME NEW m \in 0..N, m \in T, m < N
      PROVE  m + 1 \in T
  <2>1. PICK g : Stages(g, m)
    BY <1>5
  <2> DEFINE h == [k \in 0..(m + 1) |-> IF k <= m THEN g[k] ELSE Next(k, g[k - 1])]
  <2>2. Stages(h, m + 1)
    <3>1. ASSUME NEW k \in 0..(m + 1)
          PROVE  h[k] = IF k = 0 THEN Base ELSE Next(k, h[k - 1])
      BY <2>1
    <3> QED
      BY <3>1
  <2> HIDE DEF h
  <2> QED
    BY <1>1, <2>2
<1>6. N \in T
  <2> HIDE DEF T, N
  <2>1. \A k \in 0..N : k \in T /\ k < N => k + 1 \in T
    BY <1>5
  <2>2. \A k \in 0..N : k \in T
    BY <1>1, <1>4, <2>1, StepByStep
  <2> QED
    BY <1>1, <2>2
<1>7. PICK u : Stages(u, N) /\ Threaded(code) = u[N]
  BY <1>6 DEF Threaded, Base, Next
<1>8. Good(N, u[N])
  <2> DEFINE R == {m \in 0..N : Good(m, u[m])}
  <2>1. 0 \in R
    BY <1>1, <1>2, <1>7
  <2>2. ASSUME NEW m \in 0..N, m \in R, m < N
        PROVE  m + 1 \in R
    <3>1. m + 1 \in 1..N /\ m + 1 \in 0..N /\ (m + 1) - 1 = m
      BY <1>1, <2>2
    <3>2. u[m + 1] = Next(m + 1, u[m])
      BY <1>7, <3>1
    <3> QED
      BY <1>3, <2>2, <3>1, <3>2
  <2> HIDE DEF R, N
  <2>3. \A k \in 0..N : k \in R /\ k < N => k + 1 \in R
    BY <2>2
  <2>4. \A k \in 0..N : k \in R
    BY <1>1, <2>1, <2>3, StepByStep
  <2> QED
    BY <1>1, <2>4 DEF R
<1> QED
  BY <1>7, <1>8 DEF Good, N

(* What is known of an operand is a constant.                               *)
LEMMA SubstitutedOperand ==
  ASSUME NEW n \in Nat \ {0}, NEW code, NEW above, IsSequence(above),
         \A j \in DOMAIN above : InstructionOf(above[j], n),
         NEW low \in {-2, 0}, NEW o, OperandOf(o, low, n)
  PROVE  OperandOf(Substituted(code, above, o), low, n) /\ Substituted(code, above, o).vreg \in {o.vreg, 0}
<1> DEFINE known == {j \in DOMAIN above : o.vreg > 0 /\ code[j].dest = o.vreg /\ Records(code, above, j)}
<1>1. CASE known = {}
  BY <1>1 DEF Substituted
<1>2. CASE known # {}
  <2>1. PICK x : x \in known
    BY <1>2
  <2>2. Len(above) \in Nat /\ known \subseteq 0..Len(above)
    BY SequenceDomain
  <2>3. \E m \in known : \A y \in known : y <= m
    <3> HIDE DEF known
    <3> QED
      BY <2>1, <2>2, GreatestExists
  <2>4. \E m \in known : \A y \in known : m >= y
    BY <2>2, <2>3
  <2>5. Max(known) \in known
    <3> HIDE DEF known
    <3> QED
      BY <2>4 DEF Max
  <2>6. Substituted(code, above, o) = above[Max(known)].src1
    BY <1>2 DEF Substituted
  <2>7. InstructionOf(above[Max(known)], n) /\ above[Max(known)].op = "IMM"
    BY <2>5 DEF Records
  <2>8. OperandOf(above[Max(known)].src1, 0, n) /\ above[Max(known)].src1.vreg = 0
    BY <2>7, InstructionFields
  <2> HIDE DEF known
  <2> QED
    BY <2>6, <2>8, WiderOperand
<1> QED
  BY <1>1, <1>2

(* What becomes of an instruction, with whatever is known above it, reads   *)
(* no more than it did and sets what it set.                                *)
LEMMA PropagatedFollows ==
  ASSUME NEW n \in Nat \ {0}, NEW code, Sound(code, n), NEW above, IsSequence(above),
         Len(above) + 1 \in DOMAIN code, \A j \in DOMAIN above : InstructionOf(above[j], n)
  PROVE  /\ InstructionOf(Propagated(code, above), n)
         /\ Follows(code, code[Len(above) + 1], Propagated(code, above))
         /\ Steady(code[Len(above) + 1], Propagated(code, above))
<1>1. PICK i : i = code[Len(above) + 1]
  OBVIOUS
<1>2. PICK p : p = Propagated(code, above)
  OBVIOUS
<1> SUFFICES InstructionOf(p, n) /\ Follows(code, i, p) /\ Steady(i, p)
  BY <1>1, <1>2
<1> DEFINE low == IF i.op = "STORE_STACK" THEN -2 ELSE 0
           Sub(o) == Substituted(code, above, o)
<1>3. InstructionOf(i, n) /\ IsInst(i) /\ Follows(code, i, i)
  BY <1>1, KeptFollows, InstructionFields
<1>4. \A o : OperandOf(o, low, n) => OperandOf(Sub(o), low, n) /\ Sub(o).vreg \in {o.vreg, 0}
  BY SubstitutedOperand
<1>5. /\ i.dest \in 0..(n - 1) /\ OperandOf(i.src1, low, n) /\ OperandOf(i.src2, low, n)
      /\ \A m \in DOMAIN i.args : OperandOf(i.args[m], low, n)
  BY <1>3, InstructionFields
<1> HIDE DEF Sub
<1>6. ASSUME NEW q, IsInst(q), q.op = i.op, q.label = i.label, q.dest = i.dest,
             i.op \notin {"LABEL", "IMM"}, DOMAIN q.args = DOMAIN i.args,
             OperandOf(q.src1, low, n), q.src1.vreg \in {i.src1.vreg, 0},
             OperandOf(q.src2, low, n), q.src2.vreg \in {i.src2.vreg, 0},
             \A m \in DOMAIN i.args : OperandOf(q.args[m], low, n) /\ q.args[m].vreg \in {i.args[m].vreg, 0}
      PROVE  InstructionOf(q, n) /\ Follows(code, i, q) /\ Steady(i, q)
  <2>1. InstructionOf(q, n)
    BY <1>3, <1>5, <1>6, InstructionFields
  <2>2. Steady(i, q)
    BY <1>6, FewerOperands
  <2> QED
    BY <1>3, <1>6, <2>1, <2>2 DEF Follows, Ends
<1>7. \/ p = i
      \/ i.op \notin {"LABEL", "IMM"} /\ p = [i EXCEPT !.src1 = Sub(@)]
      \/ i.op \notin {"LABEL", "IMM"} /\ p = [i EXCEPT !.args = [m \in DOMAIN @ |-> Sub(@[m])]]
      \/ /\ i.op \in {"LOAD_STACK", "MOV"} \cup Arithmetic
         /\ \E x : p = [Imm(i.dest, x) EXCEPT !.fp = i.fp]
      \/ i.op \in Arithmetic /\ p = [[i EXCEPT !.src1 = Sub(@)] EXCEPT !.src2 = Sub(@)]
  <2> DEFINE one == [i EXCEPT !.src1 = Substituted(code, above, @)]
             two == [one EXCEPT !.src2 = Substituted(code, above, @)]
             Const(x) == [Imm(i.dest, x) EXCEPT !.fp = i.fp]
             held == {above[j].src1 : j \in {l \in LastStores(code, Len(above) + 1) : HasEntry(code, above, l)}}
             args == [i EXCEPT !.args = [m \in DOMAIN @ |-> Substituted(code, above, @[m])]]
  <2>1. p = CASE i.op \in {"STORE", "STORE_STACK", "RET"} \cup CondJump -> one
              [] i.op = "CALL" -> args
              [] i.op = "LOAD_STACK" ->
                   IF held # {} THEN Const((CHOOSE o \in held : TRUE).imm) ELSE i
              [] i.op = "MOV" -> IF one.src1.vreg = 0 THEN Const(one.src1.imm) ELSE i
              [] i.op \in Arithmetic ->
                   IF Foldable(two) THEN Const(Folded(i.op, two.src1.imm, two.src2.imm)) ELSE two
              [] OTHER -> i
    BY <1>1, <1>2 DEF Propagated
  <2> HIDE DEF one, two, Const, held, args
  <2>2. \/ p = i
        \/ i.op \in {"STORE", "STORE_STACK", "RET"} \cup CondJump /\ p = one
        \/ i.op = "CALL" /\ p = args
        \/ i.op \in {"LOAD_STACK", "MOV"} \cup Arithmetic /\ \E x : p = Const(x)
        \/ i.op \in Arithmetic /\ p = two
    <3>1. CASE i.op \in {"STORE", "STORE_STACK", "RET"} \cup CondJump
      BY <2>1, <3>1 DEF CondJump, Arithmetic, Binary, Compare
    <3>2. CASE i.op = "CALL"
      BY <2>1, <3>2 DEF CondJump, Arithmetic, Binary, Compare
    <3>3. CASE i.op = "LOAD_STACK"
      BY <2>1, <3>3 DEF CondJump, Arithmetic, Binary, Compare
    <3>4. CASE i.op = "MOV"
      BY <2>1, <3>4 DEF CondJump, Arithmetic, Binary, Compare
    <3>5. CASE i.op \in Arithmetic
      <4>1. i.op \notin {"STORE", "STORE_STACK", "RET", "CALL", "LOAD_STACK", "MOV"} \cup CondJump
        BY <3>5 DEF CondJump, Arithmetic, Binary, Compare
      <4>2. p = IF Foldable(two) THEN Const(Folded(i.op, two.src1.imm, two.src2.imm)) ELSE two
        BY <2>1, <3>5, <4>1
      <4> QED
        BY <3>5, <4>2
    <3>6. CASE i.op \notin {"STORE", "STORE_STACK", "RET", "CALL", "LOAD_STACK", "MOV"}
                           \cup CondJump \cup Arithmetic
      BY <2>1, <3>6
    <3> QED
      BY <3>1, <3>2, <3>3, <3>4, <3>5, <3>6
  <2>3. i.op \in {"STORE", "STORE_STACK", "RET", "CALL"} \cup CondJump => i.op \notin {"LABEL", "IMM"}
    BY DEF CondJump
  <2> QED
    BY <2>2, <2>3 DEF one, two, Const, args, Sub
<1>8. CASE p = i
  BY <1>3, <1>8 DEF Steady
<1>9. CASE i.op \notin {"LABEL", "IMM"} /\ p = [i EXCEPT !.src1 = Sub(@)]
  <2>1. /\ IsInst(p) /\ p.op = i.op /\ p.label = i.label /\ p.dest = i.dest
        /\ p.src1 = Sub(i.src1) /\ p.src2 = i.src2 /\ p.args = i.args
    BY <1>3, <1>9 DEF IsInst
  <2> QED
    BY <1>4, <1>5, <1>6, <1>9, <2>1
<1>10. CASE i.op \notin {"LABEL", "IMM"} /\ p = [i EXCEPT !.args = [m \in DOMAIN @ |-> Sub(@[m])]]
  <2>1. /\ IsInst(p) /\ p.op = i.op /\ p.label = i.label /\ p.dest = i.dest
        /\ p.src1 = i.src1 /\ p.src2 = i.src2
        /\ p.args = [m \in DOMAIN i.args |-> Sub(i.args[m])]
    BY <1>3, <1>10 DEF IsInst
  <2>2. /\ DOMAIN p.args = DOMAIN i.args
        /\ \A m \in DOMAIN i.args : OperandOf(p.args[m], low, n) /\ p.args[m].vreg \in {i.args[m].vreg, 0}
    BY <1>4, <1>5, <2>1
  <2> QED
    BY <1>5, <1>6, <1>10, <2>1, <2>2
<1>11. CASE /\ i.op \in {"LOAD_STACK", "MOV"} \cup Arithmetic
            /\ \E x : p = [Imm(i.dest, x) EXCEPT !.fp = i.fp]
  <2>1. PICK x : p = [Imm(i.dest, x) EXCEPT !.fp = i.fp]
    BY <1>11
  <2>2. PICK c : c = Imm(i.dest, x)
    OBVIOUS
  <2>0. i.dest \in 0..(n - 1)
    BY <1>5
  <2>3. InstructionOf(c, n) /\ c.op = "IMM" /\ c.dest = i.dest
    BY <2>0, <2>2, ImmIsInstruction
  <2>4. p = [c EXCEPT !.fp = i.fp]
    BY <2>1, <2>2
  <2>5. InstructionOf(p, n) /\ p.op = "IMM" /\ p.dest = i.dest
    BY <2>3, <2>4, FpIsInstruction
  <2>6. p.op \notin Jump \cup {"LABEL", "RET"} /\ i.op \notin Jump \cup {"LABEL", "RET"}
    BY <1>11, <2>5 DEF Jump, Arithmetic, Binary, Compare
  <2>7. /\ i.op \notin {"CALL", "STORE", "IMM"} /\ p.op \notin {"CALL", "STORE"}
        /\ p.src1.vreg = 0 /\ p.src2.vreg = 0
    BY <1>11, <2>5, InstructionFields DEF Arithmetic, Binary, Compare
  <2>8. Steady(i, p)
    BY <2>5, <2>6, <2>7, FewerOperandsOfOperation
  <2> QED
    BY <2>5, <2>6, <2>8, ImmFollows
<1>12. CASE i.op \in Arithmetic /\ p = [[i EXCEPT !.src1 = Sub(@)] EXCEPT !.src2 = Sub(@)]
  <2>1. PICK q : q = [i EXCEPT !.src1 = Sub(@)]
    OBVIOUS
  <2>2. /\ IsInst(q) /\ q.op = i.op /\ q.label = i.label /\ q.dest = i.dest
        /\ q.src1 = Sub(i.src1) /\ q.src2 = i.src2 /\ q.args = i.args
    BY <1>3, <2>1 DEF IsInst
  <2>3. p = [q EXCEPT !.src2 = Sub(@)]
    BY <1>12, <2>1
  <2>4. /\ IsInst(p) /\ p.op = i.op /\ p.label = i.label /\ p.dest = i.dest
        /\ p.src1 = Sub(i.src1) /\ p.src2 = Sub(i.src2) /\ p.args = i.args
    BY <2>2, <2>3 DEF IsInst
  <2>5. i.op \notin {"LABEL", "IMM"}
    BY <1>12 DEF Arithmetic, Binary, Compare
  <2> QED
    BY <1>4, <1>5, <1>6, <2>4, <2>5
<1> QED
  BY <1>7, <1>8, <1>9, <1>10, <1>11, <1>12

(* And so down the text.                                                    *)
LEMMA ConstantsStages ==
  ASSUME NEW n \in Nat \ {0}, NEW code, Sound(code, n)
  PROVE  LET s == ConstantPropagation(code)
         IN  /\ IsSequence(s) /\ Len(s) = Len(code)
             /\ \A j \in 1..Len(code) : /\ InstructionOf(s[j], n)
                                        /\ Follows(code, code[j], s[j]) /\ Steady(code[j], s[j])
<1> DEFINE N == Len(code)
           Base == << >>
           Next(k, s) == Append(s, Propagated(code, s))
           Good(k, s) == /\ IsSequence(s) /\ Len(s) = k
                         /\ \A j \in 1..k : /\ InstructionOf(s[j], n)
                                            /\ Follows(code, code[j], s[j]) /\ Steady(code[j], s[j])
           Stages(g, m) == g = [k \in 0..m |-> IF k = 0 THEN Base ELSE Next(k, g[k - 1])]
           T == {m \in Nat : \E g : Stages(g, m)}
<1>1. N \in Nat
  BY Positions
<1>2. Good(0, Base)
  BY DEF IsSequence
<1>3. ASSUME NEW k \in 1..N, NEW s, Good(k - 1, s)
      PROVE  Good(k, Next(k, s))
  <2>1. PICK p : p = Propagated(code, s)
    OBVIOUS
  <2>2. IsSequence(s) /\ DOMAIN s = 1..(k - 1) /\ Len(s) = k - 1 /\ k \in Nat
    BY <1>1, <1>3, SequenceDomain
  <2>3. Len(s) + 1 = k /\ k \in DOMAIN code
    BY <1>1, <2>2, Positions
  <2>4. \A j \in DOMAIN s : InstructionOf(s[j], n) /\ Follows(code, code[j], s[j]) /\ Steady(code[j], s[j])
    BY <1>3, <2>2
  <2>5. InstructionOf(p, n) /\ Follows(code, code[k], p) /\ Steady(code[k], p)
    BY <2>1, <2>2, <2>3, <2>4, PropagatedFollows
  <2>6. PICK t : t = Append(s, p)
    OBVIOUS
  <2>7. /\ IsSequence(t) /\ Len(t) = k /\ t[k] = p
        /\ \A j \in DOMAIN s : t[j] = s[j]
    BY <2>2, <2>3, <2>6, AppendIsSequence
  <2>8. \A j \in 1..k : j = k \/ j \in DOMAIN s
    BY <2>2
  <2>9. \A j \in 1..k : InstructionOf(t[j], n) /\ Follows(code, code[j], t[j]) /\ Steady(code[j], t[j])
    BY <2>4, <2>5, <2>7, <2>8
  <2>10. Next(k, s) = t
    BY <2>1, <2>6
  <2> QED
    BY <2>7, <2>9, <2>10
<1> HIDE DEF Base, Next, Good
<1>4. 0 \in T
  <2>1. Stages([k \in 0..0 |-> Base], 0)
    OBVIOUS
  <2> QED
    BY <2>1
<1>5. ASSUME NEW m \in 0..N, m \in T, m < N
      PROVE  m + 1 \in T
  <2>1. PICK g : Stages(g, m)
    BY <1>5
  <2> DEFINE h == [k \in 0..(m + 1) |-> IF k <= m THEN g[k] ELSE Next(k, g[k - 1])]
  <2>2. Stages(h, m + 1)
    <3>1. ASSUME NEW k \in 0..(m + 1)
          PROVE  h[k] = IF k = 0 THEN Base ELSE Next(k, h[k - 1])
      BY <2>1
    <3> QED
      BY <3>1
  <2> HIDE DEF h
  <2> QED
    BY <1>1, <2>2
<1>6. N \in T
  <2> HIDE DEF T, N
  <2>1. \A k \in 0..N : k \in T /\ k < N => k + 1 \in T
    BY <1>5
  <2>2. \A k \in 0..N : k \in T
    BY <1>1, <1>4, <2>1, StepByStep
  <2> QED
    BY <1>1, <2>2
<1>7. PICK u : Stages(u, N) /\ ConstantPropagation(code) = u[N]
  BY <1>6 DEF ConstantPropagation, Base, Next
<1>8. Good(N, u[N])
  <2> DEFINE R == {m \in 0..N : Good(m, u[m])}
  <2>1. 0 \in R
    BY <1>1, <1>2, <1>7
  <2>2. ASSUME NEW m \in 0..N, m \in R, m < N
        PROVE  m + 1 \in R
    <3>1. m + 1 \in 1..N /\ m + 1 \in 0..N /\ (m + 1) - 1 = m
      BY <1>1, <2>2
    <3>2. u[m + 1] = Next(m + 1, u[m])
      BY <1>7, <3>1
    <3> QED
      BY <1>3, <2>2, <3>1, <3>2
  <2> HIDE DEF R, N
  <2>3. \A k \in 0..N : k \in R /\ k < N => k + 1 \in R
    BY <2>2
  <2>4. \A k \in 0..N : k \in R
    BY <1>1, <2>1, <2>3, StepByStep
  <2> QED
    BY <1>1, <2>4 DEF R
<1> QED
  BY <1>7, <1>8 DEF Good, N

(* Constant propagation and folding (opt.c:73-268), whatever folding        *)
(* calculates.                                                              *)
LEMMA ConstantsIsSound ==
  ASSUME NEW n \in Nat \ {0}, NEW code, Sound(code, n)
  PROVE  Sound(ConstantPropagation(code), n)
<1>1. PICK new : new = ConstantPropagation(code)
  OBVIOUS
<1>2. /\ IsSequence(new) /\ Len(new) = Len(code)
      /\ \A j \in 1..Len(code) : InstructionOf(new[j], n) /\ Follows(code, code[j], new[j])
  BY <1>1, ConstantsStages
<1>3. DOMAIN code = 1..Len(code) /\ new = [k \in DOMAIN code |-> new[k]]
  BY <1>2, Positions DEF IsSequence
<1>4. Sound(new, n)
  BY <1>2, <1>3, RewrittenIsSound
<1> QED
  BY <1>1, <1>4

(* What a map of copies does not leave, its roots do not.                   *)
LEMMA RootStaysIn ==
  ASSUME NEW map, IsFiniteSet(DOMAIN map), NEW ok, NEW r \in ok,
         \A d \in DOMAIN map : d \in ok => map[d] \in ok
  PROVE  CopyRoot(map, r) \in ok
<1> DEFINE N == Cardinality(DOMAIN map)
           Base == r
           Next(k, s) == IF s \in DOMAIN map THEN map[s] ELSE s
           Good(k, s) == s \in ok
           Stages(g, m) == g = [k \in 0..m |-> IF k = 0 THEN Base ELSE Next(k, g[k - 1])]
           T == {m \in Nat : \E g : Stages(g, m)}
<1>1. N \in Nat
  BY FS_CardinalityType
<1>2. Good(0, Base)
  OBVIOUS
<1>3. ASSUME NEW k \in 1..N, NEW s, Good(k - 1, s)
      PROVE  Good(k, Next(k, s))
  BY <1>3
<1> HIDE DEF Base, Next, Good
<1>4. 0 \in T
  <2>1. Stages([k \in 0..0 |-> Base], 0)
    OBVIOUS
  <2> QED
    BY <2>1
<1>5. ASSUME NEW m \in 0..N, m \in T, m < N
      PROVE  m + 1 \in T
  <2>1. PICK g : Stages(g, m)
    BY <1>5
  <2> DEFINE h == [k \in 0..(m + 1) |-> IF k <= m THEN g[k] ELSE Next(k, g[k - 1])]
  <2>2. Stages(h, m + 1)
    <3>1. ASSUME NEW k \in 0..(m + 1)
          PROVE  h[k] = IF k = 0 THEN Base ELSE Next(k, h[k - 1])
      BY <2>1
    <3> QED
      BY <3>1
  <2> HIDE DEF h
  <2> QED
    BY <1>1, <2>2
<1>6. N \in T
  <2> HIDE DEF T, N
  <2>1. \A k \in 0..N : k \in T /\ k < N => k + 1 \in T
    BY <1>5
  <2>2. \A k \in 0..N : k \in T
    BY <1>1, <1>4, <2>1, StepByStep
  <2> QED
    BY <1>1, <2>2
<1>7. PICK u : Stages(u, N) /\ CopyRoot(map, r) = u[N]
  BY <1>6 DEF CopyRoot, Base, Next
<1>8. Good(N, u[N])
  <2> DEFINE R == {m \in 0..N : Good(m, u[m])}
  <2>1. 0 \in R
    BY <1>1, <1>2, <1>7
  <2>2. ASSUME NEW m \in 0..N, m \in R, m < N
        PROVE  m + 1 \in R
    <3>1. m + 1 \in 1..N /\ m + 1 \in 0..N /\ (m + 1) - 1 = m
      BY <1>1, <2>2
    <3>2. u[m + 1] = Next(m + 1, u[m])
      BY <1>7, <3>1
    <3> QED
      BY <1>3, <2>2, <3>1, <3>2
  <2> HIDE DEF R, N
  <2>3. \A k \in 0..N : k \in R /\ k < N => k + 1 \in R
    BY <2>2
  <2>4. \A k \in 0..N : k \in R
    BY <1>1, <2>1, <2>3, StepByStep
  <2> QED
    BY <1>1, <2>4 DEF R
<1> QED
  BY <1>7, <1>8 DEF Good, N

Copied(code) == {code[k].dest : k \in {j \in DOMAIN code : IsCopy(code[j])}}

(* The registers moves define, finitely many of the function's.             *)
LEMMA CopiedAreRegisters ==
  ASSUME NEW n \in Nat \ {0}, NEW code, Sound(code, n)
  PROVE  Copied(code) \subseteq 1..(n - 1) /\ IsFiniteSet(Copied(code))
<1>1. Copied(code) \subseteq 1..(n - 1)
  BY DEF Copied, Sound, InstructionOf, IsCopy
<1>2. IsFiniteSet(1..(n - 1))
  BY FS_Interval
<1> QED
  BY <1>1, <1>2, FS_Subset

(* The root of a register is a register, and that of anything else itself.  *)
LEMMA RootIsRegister ==
  ASSUME NEW n \in Nat \ {0}, NEW code, Sound(code, n), NEW map \in [Copied(code) -> 1..(n - 1)],
         NEW r \in -2..(n - 1)
  PROVE  /\ r > 0 => CopyRoot(map, r) \in 1..(n - 1)
         /\ r <= 0 => CopyRoot(map, r) = r
<1>1. IsFiniteSet(DOMAIN map) /\ DOMAIN map \subseteq 1..(n - 1)
  BY CopiedAreRegisters
<1>2. CASE r > 0
  <2>1. PICK ok : ok = 1..(n - 1)
    OBVIOUS
  <2>2. r \in ok /\ \A d \in DOMAIN map : map[d] \in ok
    BY <1>2, <2>1
  <2>3. CopyRoot(map, r) \in ok
    BY <1>1, <2>2, RootStaysIn
  <2> QED
    BY <1>2, <2>1, <2>3
<1>3. CASE r <= 0
  <2>1. \A d \in DOMAIN map : d \in {r} => map[d] \in {r}
    BY <1>1, <1>3
  <2>2. r \in {r}
    OBVIOUS
  <2>3. CopyRoot(map, r) \in {r}
    BY <1>1, <2>1, <2>2, RootStaysIn
  <2> QED
    BY <1>3, <2>3
<1> QED
  BY <1>2, <1>3

(* A set of registers that holds, with what a copy defines, what it copies. *)
CopyClosed(code, t) ==
  \A k \in DOMAIN code : IsCopy(code[k]) /\ code[k].dest \in t => code[k].src1.vreg \in t

(* The map of copies is of registers, and leaves no set that holds what its *)
(* copies come from.                                                        *)
LEMMA CopyMapIsOfRegisters ==
  ASSUME NEW n \in Nat \ {0}, NEW code, Sound(code, n)
  PROVE  /\ CopyMap(code) \in [Copied(code) -> 1..(n - 1)]
         /\ \A t : CopyClosed(code, t) => \A d \in Copied(code) : d \in t => CopyMap(code)[d] \in t
<1> DEFINE N == Len(code)
           Base == [d \in Copied(code) |-> d]
           Next(k, s) == LET i == code[k]
                             root == CopyRoot(s, i.src1.vreg)
                         IN  IF IsCopy(i) /\ ~SelfMove(i) /\ root # i.dest
                             THEN [s EXCEPT ![i.dest] = root] ELSE s
           Good(k, s) == /\ s \in [Copied(code) -> 1..(n - 1)]
                         /\ \A t : CopyClosed(code, t) => \A d \in Copied(code) : d \in t => s[d] \in t
           Stages(g, m) == g = [k \in 0..m |-> IF k = 0 THEN Base ELSE Next(k, g[k - 1])]
           T == {m \in Nat : \E g : Stages(g, m)}
<1>1. N \in Nat
  BY Positions
<1>2. Good(0, Base)
  BY CopiedAreRegisters
<1>3. ASSUME NEW k \in 1..N, NEW s, Good(k - 1, s)
      PROVE  Good(k, Next(k, s))
  <2>1. PICK i : i = code[k]
    OBVIOUS
  <2>2. PICK root : root = CopyRoot(s, i.src1.vreg)
    OBVIOUS
  <2>3. CASE IsCopy(i) /\ ~SelfMove(i) /\ root # i.dest
    <3>1. InstructionOf(i, n) /\ i.op = "MOV" /\ i.src1.vreg > 0 /\ i.dest \in Copied(code)
      BY <1>1, <2>1, <2>3, Positions DEF Sound, IsCopy, Copied
    <3>2. i.src1.vreg \in -2..(n - 1)
      BY <3>1 DEF InstructionOf, OperandOf
    <3>3. root \in 1..(n - 1)
      BY <1>3, <2>2, <3>1, <3>2, RootIsRegister
    <3>4. Next(k, s) = [s EXCEPT ![i.dest] = root]
      BY <2>1, <2>2, <2>3
    <3>5. ASSUME NEW t, CopyClosed(code, t), NEW d \in Copied(code), d \in t
          PROVE  [s EXCEPT ![i.dest] = root][d] \in t
      <4>1. CASE d = i.dest
        <5>1. i.src1.vreg \in t
          BY <1>1, <2>1, <2>3, <3>5, <4>1, Positions DEF CopyClosed
        <5>2. \A e \in DOMAIN s : e \in t => s[e] \in t
          BY <1>3, <3>5
        <5>3. root \in t
          BY <1>3, <2>2, <5>1, <5>2, CopiedAreRegisters, RootStaysIn
        <5> QED
          BY <1>3, <4>1, <5>3
      <4>2. CASE d # i.dest
        BY <1>3, <3>5, <4>2
      <4> QED
        BY <4>1, <4>2
    <3>6. [s EXCEPT ![i.dest] = root] \in [Copied(code) -> 1..(n - 1)]
      BY <1>3, <3>1, <3>3
    <3> QED
      BY <3>4, <3>5, <3>6
  <2>4. CASE ~(IsCopy(i) /\ ~SelfMove(i) /\ root # i.dest)
    BY <1>3, <2>1, <2>2, <2>4
  <2> QED
    BY <2>3, <2>4
<1> HIDE DEF Base, Next, Good
<1>4. 0 \in T
  <2>1. Stages([k \in 0..0 |-> Base], 0)
    OBVIOUS
  <2> QED
    BY <2>1
<1>5. ASSUME NEW m \in 0..N, m \in T, m < N
      PROVE  m + 1 \in T
  <2>1. PICK g : Stages(g, m)
    BY <1>5
  <2> DEFINE h == [k \in 0..(m + 1) |-> IF k <= m THEN g[k] ELSE Next(k, g[k - 1])]
  <2>2. Stages(h, m + 1)
    <3>1. ASSUME NEW k \in 0..(m + 1)
          PROVE  h[k] = IF k = 0 THEN Base ELSE Next(k, h[k - 1])
      BY <2>1
    <3> QED
      BY <3>1
  <2> HIDE DEF h
  <2> QED
    BY <1>1, <2>2
<1>6. N \in T
  <2> HIDE DEF T, N
  <2>1. \A k \in 0..N : k \in T /\ k < N => k + 1 \in T
    BY <1>5
  <2>2. \A k \in 0..N : k \in T
    BY <1>1, <1>4, <2>1, StepByStep
  <2> QED
    BY <1>1, <2>2
<1>7. PICK u : Stages(u, N) /\ CopyMap(code) = u[N]
  BY <1>6 DEF CopyMap, Copied, Base, Next
<1>8. Good(N, u[N])
  <2> DEFINE R == {m \in 0..N : Good(m, u[m])}
  <2>1. 0 \in R
    BY <1>1, <1>2, <1>7
  <2>2. ASSUME NEW m \in 0..N, m \in R, m < N
        PROVE  m + 1 \in R
    <3>1. m + 1 \in 1..N /\ m + 1 \in 0..N /\ (m + 1) - 1 = m
      BY <1>1, <2>2
    <3>2. u[m + 1] = Next(m + 1, u[m])
      BY <1>7, <3>1
    <3> QED
      BY <1>3, <2>2, <3>1, <3>2
  <2> HIDE DEF R, N
  <2>3. \A k \in 0..N : k \in R /\ k < N => k + 1 \in R
    BY <2>2
  <2>4. \A k \in 0..N : k \in R
    BY <1>1, <2>1, <2>3, StepByStep
  <2> QED
    BY <1>1, <2>4 DEF R
<1> QED
  BY <1>7, <1>8 DEF Good, N

(* Copy propagation (opt.c:282-376).                                        *)
LEMMA CopiesIsSound ==
  ASSUME NEW n \in Nat \ {0}, NEW code, Sound(code, n)
  PROVE  Sound(CopyPropagation(code), n)
<1>1. PICK map : map = CopyMap(code)
  OBVIOUS
<1>2. map \in [Copied(code) -> 1..(n - 1)]
  BY <1>1, CopyMapIsOfRegisters
<1> DEFINE stays == {k \in DOMAIN code : ~SelfMove(code[k])}
<1>3. PICK kept : kept = Only(code, stays)
  OBVIOUS
<1>4. Sound(kept, n)
  <2>1. \A k \in DOMAIN code : code[k].op = "LABEL" \/ Ends(code[k]) => k \in stays
    BY DEF SelfMove, IsCopy, Ends
  <2>2. Len(code) \in stays /\ stays \subseteq DOMAIN code
    BY <2>1, Positions DEF Sound
  <2> HIDE DEF stays
  <2> QED
    BY <1>3, <2>1, <2>2, MostKeptIsSound
<1> DEFINE Rooted(o) == [o EXCEPT !.vreg = CopyRoot(map, @)]
           Renamed(i) ==
             [i EXCEPT !.src1 = Rooted(@), !.src2 = Rooted(@),
                       !.args = [k \in DOMAIN @ |-> Rooted(@[k])],
                       !.dest = IF i.op = "STORE" THEN CopyRoot(map, @) ELSE @]
           new == [k \in DOMAIN kept |-> Renamed(kept[k])]
<1>5. CopyPropagation(code) = new
  BY <1>1, <1>3 DEF CopyPropagation
<1>6. ASSUME NEW low \in {-2, 0}, NEW o, OperandOf(o, low, n)
      PROVE  OperandOf(Rooted(o), low, n) /\ (o.vreg = 0 => Rooted(o).vreg = 0)
  <2>1. PICK r : r = CopyRoot(map, o.vreg)
    OBVIOUS
  <2>2. r \in low..(n - 1) /\ (o.vreg = 0 => r = 0)
    <3>1. o.vreg \in -2..(n - 1) /\ o.vreg \in low..(n - 1)
      BY <1>6 DEF OperandOf
    <3>2. r = o.vreg \/ r \in 1..(n - 1)
      BY <1>2, <2>1, <3>1, RootIsRegister
    <3>3. o.vreg = 0 => r = 0
      BY <1>2, <2>1, <3>1, RootIsRegister
    <3> QED
      BY <3>1, <3>2, <3>3
  <2>3. Rooted(o) = [vreg |-> r, imm |-> o.imm]
    BY <1>6, <2>1 DEF OperandOf
  <2> QED
    BY <2>2, <2>3 DEF OperandOf
<1>7. ASSUME NEW k \in DOMAIN kept
      PROVE  InstructionOf(new[k], n) /\ Follows(kept, kept[k], new[k])
  <2>1. PICK i : i = kept[k]
    OBVIOUS
  <2>2. PICK d : d = IF i.op = "STORE" THEN CopyRoot(map, i.dest) ELSE i.dest
    OBVIOUS
  <2>3. InstructionOf(i, n) /\ IsInst(i) /\ Follows(kept, i, i)
    BY <1>4, <2>1, KeptFollows, InstructionFields
  <2>4. d \in 0..(n - 1) /\ (i.op # "STORE" => d = i.dest)
    <3>1. i.dest \in 0..(n - 1) /\ i.dest \in -2..(n - 1)
      BY <2>3, InstructionFields
    <3>2. d = i.dest \/ d \in 1..(n - 1)
      BY <1>2, <2>2, <3>1, RootIsRegister
    <3> QED
      BY <2>2, <3>1, <3>2
  <2>5. PICK a : a = [m \in DOMAIN i.args |-> Rooted(i.args[m])]
    OBVIOUS
  <2>6. PICK x : x = Rooted(i.src1)
    OBVIOUS
  <2>7. PICK y : y = Rooted(i.src2)
    OBVIOUS
  <2>8. new[k] = [i EXCEPT !.src1 = x, !.src2 = y, !.args = a, !.dest = d]
    BY <2>1, <2>2, <2>5, <2>6, <2>7
  <2> HIDE DEF new, Rooted
  <2>9. PICK j : j = new[k]
    OBVIOUS
  <2>10. j = [i EXCEPT !.src1 = x, !.src2 = y, !.args = a, !.dest = d]
    BY <2>8, <2>9
  <2>11. /\ IsInst(j) /\ j.op = i.op /\ j.label = i.label /\ j.dest = d
         /\ j.src1 = x /\ j.src2 = y /\ j.args = a
    BY <2>3, <2>10 DEF IsInst
  <2>12. PICK low \in {-2, 0} : low = IF i.op = "STORE_STACK" THEN -2 ELSE 0
    OBVIOUS
  <2>13. /\ OperandOf(x, low, n) /\ OperandOf(y, low, n)
         /\ i.op \in {"LABEL", "IMM"} => x.vreg = 0 /\ y.vreg = 0
    BY <1>6, <2>3, <2>6, <2>7, <2>12, InstructionFields
  <2>14. \A m \in DOMAIN a : OperandOf(a[m], low, n)
    BY <1>6, <2>3, <2>5, <2>12, InstructionFields
  <2>15. InstructionOf(j, n)
    <3>1. i.op \in Jump \cup {"LABEL", "RET", "STORE_STACK"} => j.dest = 0
      BY <2>3, <2>4, <2>11, InstructionFields DEF Jump
    <3> QED
      BY <2>4, <2>11, <2>12, <2>13, <2>14, <3>1, InstructionFields
  <2>16. Follows(kept, i, j)
    BY <2>3, <2>11 DEF Follows, Ends
  <2> QED
    BY <2>1, <2>9, <2>15, <2>16
<1>8. new = [k \in DOMAIN kept |-> new[k]]
  OBVIOUS
<1> HIDE DEF new
<1> QED
  BY <1>4, <1>5, <1>7, <1>8, RewrittenIsSound

(* Each round of reaching reaches everything there is, or a position more.  *)
Closed(edges, s) == \A e \in edges : e[1] \in s => e[2] \in s
Further(edges, s) == s \cup {e[2] : e \in {d \in edges : d[1] \in s}}

(* One round of reaching.                                                   *)
LEMMA FurtherReaches ==
  ASSUME NEW last, NEW edges, edges \subseteq (1..last) \X (1..last), NEW s, s \subseteq 1..last
  PROVE  /\ s \subseteq Further(edges, s) /\ Further(edges, s) \subseteq 1..last
         /\ Further(edges, s) = s => Closed(edges, s)
         /\ Closed(edges, s) => Further(edges, s) = s
         /\ \A c : Closed(edges, c) /\ s \subseteq c => Further(edges, s) \subseteq c
<1>1. \A e \in edges : e[2] \in 1..last
  OBVIOUS
<1>2. s \subseteq Further(edges, s) /\ Further(edges, s) \subseteq 1..last
  BY <1>1 DEF Further
<1>3. \A e \in edges : e[1] \in s => e[2] \in Further(edges, s)
  BY DEF Further
<1>4. ASSUME NEW c, Closed(edges, c), s \subseteq c
      PROVE  Further(edges, s) \subseteq c
  BY <1>4 DEF Further, Closed
<1> QED
  BY <1>2, <1>3, <1>4 DEF Closed

(* As many rounds as there are positions reach the least set that holds the *)
(* first and that no edge leaves.                                           *)
LEMMA ReachedIsClosed ==
  ASSUME NEW last \in Nat \ {0}, NEW edges, edges \subseteq (1..last) \X (1..last)
  PROVE  /\ 1 \in Reached(edges, last) /\ Reached(edges, last) \subseteq 1..last
         /\ Closed(edges, Reached(edges, last))
         /\ \A c : Closed(edges, c) /\ 1 \in c => Reached(edges, last) \subseteq c
<1> DEFINE N == last
           Base == {1}
           Next(k, s) == Further(edges, s)
           Good(k, s) == /\ 1 \in s /\ s \subseteq 1..last
                         /\ Closed(edges, s) \/ Cardinality(s) > k
                         /\ \A c : Closed(edges, c) /\ 1 \in c => s \subseteq c
           Stages(g, m) == g = [k \in 0..m |-> IF k = 0 THEN Base ELSE Next(k, g[k - 1])]
           T == {m \in Nat : \E g : Stages(g, m)}
<1>1. N \in Nat
  OBVIOUS
<1>2. Good(0, Base)
  <2>1. Cardinality({1}) = 1 /\ IsFiniteSet({1})
    BY FS_Singleton
  <2> QED
    BY <2>1
<1>3. ASSUME NEW k \in 1..N, NEW s, Good(k - 1, s)
      PROVE  Good(k, Next(k, s))
  <2>1. PICK t : t = Further(edges, s)
    OBVIOUS
  <2>2. /\ s \subseteq t /\ t \subseteq 1..last
        /\ (t = s => Closed(edges, s)) /\ (Closed(edges, s) => t = s)
        /\ \A c : Closed(edges, c) /\ s \subseteq c => t \subseteq c
    BY <1>3, <2>1, FurtherReaches
  <2>3. CASE Closed(edges, s)
    BY <1>3, <2>1, <2>2, <2>3
  <2>4. CASE ~Closed(edges, s)
    <3>1. IsFiniteSet(1..last)
      BY FS_Interval
    <3>2. IsFiniteSet(t) /\ IsFiniteSet(s)
      BY <2>2, <3>1, FS_Subset
    <3>3. Cardinality(s) \in Nat /\ Cardinality(t) \in Nat
      BY <3>2, FS_CardinalityType
    <3>4. Cardinality(s) <= Cardinality(t) /\ Cardinality(s) # Cardinality(t)
      BY <2>2, <2>4, <3>2, FS_Subset
    <3>5. Cardinality(t) > k
      BY <1>3, <2>4, <3>3, <3>4
    <3> QED
      BY <1>3, <2>1, <2>2, <3>5
  <2> QED
    BY <2>3, <2>4
<1> HIDE DEF Base, Next, Good
<1>4. 0 \in T
  <2>1. Stages([k \in 0..0 |-> Base], 0)
    OBVIOUS
  <2> QED
    BY <2>1
<1>5. ASSUME NEW m \in 0..N, m \in T, m < N
      PROVE  m + 1 \in T
  <2>1. PICK g : Stages(g, m)
    BY <1>5
  <2> DEFINE h == [k \in 0..(m + 1) |-> IF k <= m THEN g[k] ELSE Next(k, g[k - 1])]
  <2>2. Stages(h, m + 1)
    <3>1. ASSUME NEW k \in 0..(m + 1)
          PROVE  h[k] = IF k = 0 THEN Base ELSE Next(k, h[k - 1])
      BY <2>1
    <3> QED
      BY <3>1
  <2> HIDE DEF h
  <2> QED
    BY <1>1, <2>2
<1>6. N \in T
  <2> HIDE DEF T, N
  <2>1. \A k \in 0..N : k \in T /\ k < N => k + 1 \in T
    BY <1>5
  <2>2. \A k \in 0..N : k \in T
    BY <1>1, <1>4, <2>1, StepByStep
  <2> QED
    BY <1>1, <2>2
<1>7. PICK u : Stages(u, N) /\ Reached(edges, last) = u[N]
  BY <1>6 DEF Reached, Further, Base, Next
<1>8. Good(N, u[N])
  <2> DEFINE R == {m \in 0..N : Good(m, u[m])}
  <2>1. 0 \in R
    BY <1>1, <1>2, <1>7
  <2>2. ASSUME NEW m \in 0..N, m \in R, m < N
        PROVE  m + 1 \in R
    <3>1. m + 1 \in 1..N /\ m + 1 \in 0..N /\ (m + 1) - 1 = m
      BY <1>1, <2>2
    <3>2. u[m + 1] = Next(m + 1, u[m])
      BY <1>7, <3>1
    <3> QED
      BY <1>3, <2>2, <3>1, <3>2
  <2> HIDE DEF R, N
  <2>3. \A k \in 0..N : k \in R /\ k < N => k + 1 \in R
    BY <2>2
  <2>4. \A k \in 0..N : k \in R
    BY <1>1, <2>1, <2>3, StepByStep
  <2> QED
    BY <1>1, <2>4 DEF R
<1>9. ~(Cardinality(u[N]) > N)
  <2>1. IsFiniteSet(1..last) /\ Cardinality(1..last) = last
    <3>1. last \in Int /\ last # 0 /\ ~(1 > last)
      OBVIOUS
    <3>2. IsFiniteSet(1..last) /\ Cardinality(1..last) = IF 1 > last THEN 0 ELSE last - 1 + 1
      BY <3>1, FS_Interval
    <3> QED
      BY <3>1, <3>2
  <2>2. IsFiniteSet(u[N]) /\ Cardinality(u[N]) <= last
    BY <1>8, <2>1, FS_Subset DEF Good
  <2>3. Cardinality(u[N]) \in Nat
    BY <2>2, FS_CardinalityType
  <2> QED
    BY <1>1, <2>2, <2>3
<1> QED
  BY <1>7, <1>8, <1>9 DEF Good, N

(* Edges are ways from a position of the code to another.                   *)
LEMMA EdgesGo ==
  ASSUME NEW n, NEW code, Sound(code, n)
  PROVE  /\ Edges(code) \subseteq (1..Len(code)) \X (1..Len(code))
         /\ \A e \in Edges(code) : e[2] \in Successors(code, e[1])
         /\ \A k \in DOMAIN code : \A j \in Successors(code, k) :
              j \in DOMAIN code /\ <<k, j>> \in Edges(code)
<1>1. \A k \in DOMAIN code : Successors(code, k) \subseteq DOMAIN code
  BY SoundIsCode DEF CodeOf
<1>2. DOMAIN code = 1..Len(code)
  BY Positions
<1>3. \A e \in Edges(code) : \E k \in DOMAIN code : \E j \in Successors(code, k) \cap DOMAIN code : e = <<k, j>>
  BY DEF Edges
<1>4. \A k \in DOMAIN code : \A j \in Successors(code, k) : j \in DOMAIN code /\ <<k, j>> \in Edges(code)
  BY <1>1 DEF Edges
<1>5. Edges(code) \subseteq (1..Len(code)) \X (1..Len(code))
  BY <1>2, <1>3
<1>6. \A e \in Edges(code) : e[2] \in Successors(code, e[1])
  BY <1>3
<1> QED
  BY <1>4, <1>5, <1>6

(* What is reached in code no path leaves.                                  *)
LEMMA ReachIsClosed ==
  ASSUME NEW n, NEW code, Sound(code, n)
  PROVE  /\ 1 \in Reach(code) /\ Reach(code) \subseteq DOMAIN code
         /\ \A k \in Reach(code) : Successors(code, k) \subseteq Reach(code)
<1>1. PICK seen : seen = Reached(Edges(code), Len(code))
  OBVIOUS
<1>2. Len(code) \in Nat \ {0} /\ DOMAIN code = 1..Len(code)
  BY Positions
<1>3. 1 \in seen /\ seen \subseteq 1..Len(code) /\ Closed(Edges(code), seen)
  BY <1>1, <1>2, EdgesGo, ReachedIsClosed
<1>4. ASSUME NEW k \in seen, NEW j \in Successors(code, k)
      PROVE  j \in seen
  <2>1. <<k, j>> \in Edges(code)
    BY <1>2, <1>3, <1>4, EdgesGo
  <2> QED
    BY <1>3, <1>4, <2>1 DEF Closed
<1> QED
  BY <1>1, <1>2, <1>3, <1>4 DEF Reach

(* Unreachable blocks (opt.c:1199-1298): what a kept instruction goes to is *)
(* kept.                                                                    *)
LEMMA UnreachableIsSound ==
  ASSUME NEW n, NEW code, Sound(code, n)
  PROVE  Sound(UnreachableBlockRemoval(code), n)
<1>1. PICK open : open = AfterJump(code)
  OBVIOUS
<1>2. Sound(open, n)
  BY <1>1, AfterJumpIsSound
<1>3. PICK seen : seen = Reach(open)
  OBVIOUS
<1>4. 1 \in seen /\ seen \subseteq DOMAIN open
  BY <1>2, <1>3, ReachIsClosed
<1>5. \A k \in seen : Successors(open, k) \subseteq seen
  BY <1>2, <1>3, ReachIsClosed
<1>6. DOMAIN open = 1..Len(open) /\ Len(open) \in Nat /\ IsSequence(open)
  BY <1>2, Positions
<1>7. PICK e \in seen : \A k \in seen : k <= e
  <2>1. seen \subseteq 0..Len(open)
    BY <1>4, <1>6
  <2> QED
    BY <1>4, <1>6, <2>1, GreatestExists
<1>8. Ends(open[e])
  <2> SUFFICES ASSUME ~Ends(open[e])
               PROVE  FALSE
    OBVIOUS
  <2>1. e + 1 \in seen
    BY <1>5 DEF Successors, Ends
  <2> QED
    BY <1>4, <1>6, <1>7, <2>1
<1>9. ASSUME NEW k \in seen, open[k].op \in Jump
      PROVE  \E j \in seen : IsLabel(open[j], open[k].label)
  <2>1. LabelPos(open, open[k].label) \in seen
    BY <1>5, <1>9 DEF Successors
  <2>2. HasLabel(open, open[k].label)
    BY <1>2, <1>4, <1>9 DEF Sound
  <2> QED
    BY <1>6, <2>1, <2>2, LabelPosition
<1>10. Sound(Only(open, seen), n)
  BY <1>2, <1>4, <1>7, <1>8, <1>9, KeptIsSound
<1> QED
  BY <1>1, <1>3, <1>10 DEF UnreachableBlockRemoval

-----------------------------------------------------------------------------
(* That nothing unset is read.  It is enough to name, for each position,    *)
(* registers that every path there has set: all that is read there, none at *)
(* the start, and nothing a way there does not bring along.                 *)
Goes(code, k, j) ==
  \/ code[k].op \in Jump /\ IsLabel(code[j], code[k].label)
  \/ ~Ends(code[k]) /\ j = k + 1
Certifies(sure, code) ==
  /\ sure[1] = {}
  /\ \A k \in DOMAIN code : Reads(code[k]) \subseteq sure[k]
  /\ \A k, j \in DOMAIN code : Goes(code, k, j) => sure[j] \subseteq sure[k] \cup Writes(code[k])
Flows(code) == SetOnce(code) /\ \E sure : Certifies(sure, code)

(* To go from a position to another, by label or by falling through.        *)
LEMMA GoesToSuccessors ==
  ASSUME NEW n, NEW code, Sound(code, n), NEW k \in DOMAIN code, NEW j \in DOMAIN code
  PROVE  j \in Successors(code, k) <=> Goes(code, k, j)
<1>1. ASSUME code[k].op \in Jump
      PROVE  j = LabelPos(code, code[k].label) <=> IsLabel(code[j], code[k].label)
  <2>1. PICK l : l = code[k].label
    OBVIOUS
  <2>2. PICK p : p = LabelPos(code, l)
    OBVIOUS
  <2>3. p \in DOMAIN code /\ IsLabel(code[p], l)
    BY <1>1, <2>1, <2>2, Positions, LabelPosition DEF Sound
  <2>4. IsLabel(code[j], l) => p = j
    BY <2>3 DEF Sound, IsLabel
  <2> QED
    BY <2>1, <2>2, <2>3, <2>4
<1> QED
  BY <1>1 DEF Successors, Goes, Ends

(* Who may miss a register along the edges that do not set it.              *)
EdgesPast(code, v) == {e \in Edges(code) : v \notin Writes(code[e[1]])}

Spreads(code, v, c) ==
  \A k, j \in DOMAIN code : k \in c /\ v \notin Writes(code[k]) /\ Goes(code, k, j) => j \in c

(* Where a register may be unset is the least set that holds the start and  *)
(* that no way leaves but over an instruction that sets it.                 *)
LEMMA UnsetIsClosed ==
  ASSUME NEW n, NEW code, Sound(code, n), NEW v
  PROVE  /\ 1 \in MayBeUnset(code, v) /\ Spreads(code, v, MayBeUnset(code, v))
         /\ \A c : 1 \in c /\ Spreads(code, v, c) => MayBeUnset(code, v) \subseteq c
<1> DEFINE past == EdgesPast(code, v)
           last == Len(code)
           unset == MayBeUnset(code, v)
<1>1. last \in Nat \ {0} /\ DOMAIN code = 1..last
  BY Positions
<1>2. unset = Reached(past, last)
  BY DEF MayBeUnset, EdgesPast
<1>3. past \subseteq (1..last) \X (1..last)
  BY EdgesGo DEF EdgesPast
<1>4. ASSUME NEW k \in DOMAIN code, NEW j \in DOMAIN code, v \notin Writes(code[k]), Goes(code, k, j)
      PROVE  <<k, j>> \in past
  <2>1. <<k, j>> \in Edges(code)
    BY <1>4, EdgesGo, GoesToSuccessors
  <2> QED
    BY <1>4, <2>1 DEF EdgesPast
<1>5. ASSUME NEW e \in past
      PROVE  /\ e[1] \in DOMAIN code /\ e[2] \in DOMAIN code
             /\ v \notin Writes(code[e[1]]) /\ Goes(code, e[1], e[2])
  <2>1. e \in Edges(code) /\ v \notin Writes(code[e[1]])
    BY <1>5 DEF EdgesPast
  <2>2. e[1] \in DOMAIN code /\ e[2] \in DOMAIN code
    BY <1>1, <1>3
  <2> QED
    BY <2>1, <2>2, EdgesGo, GoesToSuccessors
<1> HIDE DEF past, last, unset
<1>6. /\ 1 \in unset /\ Closed(past, unset)
      /\ \A c : Closed(past, c) /\ 1 \in c => unset \subseteq c
  BY <1>1, <1>2, <1>3, ReachedIsClosed
<1>7. Spreads(code, v, unset)
  <2> SUFFICES ASSUME NEW k \in DOMAIN code, NEW j \in DOMAIN code,
                      k \in unset, v \notin Writes(code[k]), Goes(code, k, j)
               PROVE  j \in unset
    BY DEF Spreads
  <2>1. <<k, j>> \in past
    BY <1>4
  <2> QED
    BY <1>6, <2>1 DEF Closed
<1>8. ASSUME NEW c, 1 \in c, Spreads(code, v, c)
      PROVE  unset \subseteq c
  <2>1. Closed(past, c)
    BY <1>5, <1>8 DEF Closed, Spreads
  <2> QED
    BY <1>6, <1>8, <2>1
<1> QED
  BY <1>6, <1>7, <1>8 DEF unset

(* With such a certificate nothing unset is read.                           *)
LEMMA CertifiedReadsSet ==
  ASSUME NEW n, NEW code, Sound(code, n), NEW sure, Certifies(sure, code)
  PROVE  NothingUnsetIsRead(code)
<1> SUFFICES ASSUME NEW v, NEW k \in MayBeUnset(code, v), v \in Reads(code[k])
             PROVE  FALSE
  BY DEF NothingUnsetIsRead
<1> DEFINE c == {j \in DOMAIN code : v \notin sure[j]}
<1>1. 1 \in c
  BY Positions DEF Certifies
<1>2. Spreads(code, v, c)
  BY DEF Certifies, Spreads
<1>3. MayBeUnset(code, v) \subseteq c
  <2> HIDE DEF c
  <2> QED
    BY <1>1, <1>2, UnsetIsClosed
<1> QED
  BY <1>3 DEF Certifies

(* And where nothing unset is read there is one: what is not unset.         *)
LEMMA SetReadsAreCertified ==
  ASSUME NEW n, NEW code, Sound(code, n), NothingUnsetIsRead(code)
  PROVE  \E sure : Certifies(sure, code)
<1> DEFINE read == UNION {Reads(code[k]) : k \in DOMAIN code}
           sure == [k \in DOMAIN code |-> {v \in read : k \notin MayBeUnset(code, v)}]
<1>1. 1 \in DOMAIN code
  BY Positions
<1>2. \A v : 1 \in MayBeUnset(code, v) /\ Spreads(code, v, MayBeUnset(code, v))
  BY UnsetIsClosed
<1>3. \A k \in DOMAIN code : \A v : v \in sure[k] <=> v \in read /\ k \notin MayBeUnset(code, v)
  OBVIOUS
<1>4. ASSUME NEW k \in DOMAIN code, NEW v \in Reads(code[k])
      PROVE  v \in sure[k]
  <2>1. v \in read
    OBVIOUS
  <2>2. k \notin MayBeUnset(code, v)
    BY <2>1 DEF NothingUnsetIsRead
  <2> HIDE DEF sure, read
  <2> QED
    BY <1>3, <2>1, <2>2
<1> HIDE DEF sure, read
<1>5. sure[1] = {}
  BY <1>1, <1>2, <1>3
<1>6. ASSUME NEW k \in DOMAIN code, NEW j \in DOMAIN code, Goes(code, k, j), NEW v \in sure[j]
      PROVE  v \in sure[k] \cup Writes(code[k])
  BY <1>2, <1>3, <1>6 DEF Spreads
<1>7. Certifies(sure, code)
  BY <1>4, <1>5, <1>6 DEF Certifies
<1> QED
  BY <1>7

(* Dropping instructions: what was sure still is, if what falls through to  *)
(* the next that is kept finds no more there than it brings along.          *)
LEMMA KeptFlows ==
  ASSUME NEW n, NEW code, IsSequence(code), SetOnce(code), NEW kept, kept \subseteq DOMAIN code,
         Sound(Only(code, kept), n), NEW sure,
         \A k \in kept : Reads(code[k]) \subseteq sure[k],
         \A k \in kept : (\A j \in kept : k <= j) => sure[k] = {},
         \A k, j \in kept : code[k].op \in Jump /\ IsLabel(code[j], code[k].label)
                            => sure[j] \subseteq sure[k] \cup Writes(code[k]),
         \A k, j \in kept : k < j /\ (\A m \in (k + 1)..(j - 1) : m \notin kept) /\ ~Ends(code[k])
                            => sure[j] \subseteq sure[k] \cup Writes(code[k])
  PROVE  Flows(Only(code, kept))
<1>1. PICK r : r = Only(code, kept)
  OBVIOUS
<1>2. Sound(r, n) /\ IsSequence(r) /\ DOMAIN r = 1..Len(r) /\ Len(r) \in Nat \ {0}
  BY <1>1, Positions
<1>3. PICK pos : Enumerates(pos, r, code, kept)
  BY <1>1, OnlyEnumerates
<1>4. \A i \in DOMAIN r : pos[i] \in kept /\ r[i] = code[pos[i]]
  BY <1>3 DEF Enumerates
<1>5. DOMAIN code \subseteq Nat
  BY SequenceDomain
<1> DEFINE mine == [i \in DOMAIN r |-> sure[pos[i]]]
<1>6. \A i \in DOMAIN r : mine[i] = sure[pos[i]]
  OBVIOUS
<1> HIDE DEF mine
<1>7. mine[1] = {}
  <2>1. 1 \in DOMAIN r
    BY <1>2
  <2>2. ASSUME NEW j \in kept
        PROVE  pos[1] <= j
    <3>1. PICK i \in DOMAIN r : pos[i] = j
      BY <1>3 DEF Enumerates
    <3>2. i = 1 \/ pos[1] < pos[i]
      BY <1>2, <1>3, <2>1 DEF Enumerates
    <3> QED
      BY <1>4, <1>5, <2>1, <3>1, <3>2
  <2> QED
    BY <1>4, <1>6, <2>1, <2>2
<1>8. \A i \in DOMAIN r : Reads(r[i]) \subseteq mine[i]
  BY <1>4, <1>6
<1>9. ASSUME NEW i \in DOMAIN r, NEW j \in DOMAIN r, Goes(r, i, j)
      PROVE  mine[j] \subseteq mine[i] \cup Writes(r[i])
  <2>1. CASE r[i].op \in Jump /\ IsLabel(r[j], r[i].label)
    BY <1>4, <1>6, <2>1
  <2>2. CASE ~Ends(r[i]) /\ j = i + 1
    <3>1. pos[i] < pos[j]
      BY <1>2, <1>3, <2>2 DEF Enumerates
    <3>2. ASSUME NEW m \in (pos[i] + 1)..(pos[j] - 1), m \in kept
          PROVE  FALSE
      <4>1. PICK x \in DOMAIN r : pos[x] = m
        BY <1>3, <3>2 DEF Enumerates
      <4>2. pos[i] < m /\ m < pos[j] /\ pos[i] \in Nat /\ pos[j] \in Nat /\ m \in Nat
        BY <1>4, <1>5, <3>2
      <4>3. x <= i \/ j <= x
        BY <1>2, <2>2
      <4>4. CASE x <= i
        <5>1. x = i \/ pos[x] < pos[i]
          BY <1>2, <1>3, <4>4 DEF Enumerates
        <5> QED
          BY <4>1, <4>2, <5>1
      <4>5. CASE j <= x
        <5>1. x = j \/ pos[j] < pos[x]
          BY <1>2, <1>3, <4>5 DEF Enumerates
        <5> QED
          BY <4>1, <4>2, <5>1
      <4> QED
        BY <4>3, <4>4, <4>5
    <3> QED
      BY <1>4, <1>6, <2>2, <3>1, <3>2
  <2> QED
    BY <1>9, <2>1, <2>2 DEF Goes
<1>10. Certifies(mine, r)
  BY <1>7, <1>8, <1>9 DEF Certifies
<1>11. ASSUME NEW i \in DOMAIN r, NEW j \in DOMAIN r, Writes(r[i]) \cap Writes(r[j]) # {}
       PROVE  i = j \/ r[i].op = "IMM"
  <2>1. pos[i] = pos[j] \/ r[i].op = "IMM"
    BY <1>4, <1>11 DEF SetOnce
  <2>2. pos[i] = pos[j] => ~(i < j) /\ ~(j < i)
    BY <1>3, <1>4, <1>5 DEF Enumerates
  <2> QED
    BY <1>2, <2>1, <2>2
<1>12. SetOnce(r)
  BY <1>11 DEF SetOnce
<1> QED
  BY <1>1, <1>10, <1>12 DEF Flows

(* In particular when what is dropped sets nothing that is read any more.   *)
LEMMA DroppedFlows ==
  ASSUME NEW n, NEW code, Sound(code, n), SetOnce(code), NEW sure, Certifies(sure, code),
         NEW kept, kept \subseteq DOMAIN code, Sound(Only(code, kept), n),
         NEW read, \A k \in kept : Reads(code[k]) \subseteq read,
         \A q \in DOMAIN code \ kept : q + 1 \in DOMAIN code => sure[q + 1] \cap read \subseteq sure[q]
  PROVE  Flows(Only(code, kept))
<1> DEFINE mine == [k \in DOMAIN code |-> sure[k] \cap read]
<1>1. IsSequence(code) /\ DOMAIN code = 1..Len(code) /\ Len(code) \in Nat \ {0}
  BY Positions
<1>2. \A k \in DOMAIN code : mine[k] = sure[k] \cap read
  OBVIOUS
<1> HIDE DEF mine
<1>3. ASSUME NEW a \in DOMAIN code, NEW j \in DOMAIN code, a <= j, \A m \in a..(j - 1) : m \notin kept
      PROVE  mine[j] \subseteq sure[a]
  <2> DEFINE N == j - a
             R == {x \in 0..N : mine[a + x] \subseteq sure[a]}
  <2>1. N \in Nat /\ a \in Nat /\ j \in Nat /\ a + N = j
    BY <1>1, <1>3
  <2>2. 0 \in R
    BY <1>2, <2>1
  <2>3. ASSUME NEW x \in 0..N, x \in R, x < N
        PROVE  x + 1 \in R
    <3>1. /\ x + 1 \in 0..N /\ a + (x + 1) = (a + x) + 1 /\ a + x \in a..(j - 1)
          /\ a + x \in DOMAIN code /\ (a + x) + 1 \in DOMAIN code
      <4>1. PICK last : last = Len(code)
        OBVIOUS
      <4>2. last \in Nat /\ a \in 1..last /\ j \in 1..last /\ DOMAIN code = 1..last
        BY <1>1, <4>1
      <4>3. x \in Nat /\ x < j - a
        BY <2>1, <2>3
      <4>4. x + 1 \in 0..(j - a) /\ a + (x + 1) = (a + x) + 1 /\ a + x \in a..(j - 1)
        BY <4>2, <4>3
      <4>5. a + x \in 1..last /\ (a + x) + 1 \in 1..last
        BY <4>2, <4>3
      <4> QED
        BY <4>2, <4>4, <4>5
    <3>2. sure[(a + x) + 1] \cap read \subseteq sure[a + x]
      BY <1>3, <3>1
    <3>3. mine[(a + x) + 1] \subseteq mine[a + x]
      BY <1>2, <3>1, <3>2
    <3> HIDE DEF N
    <3> QED
      BY <2>3, <3>1, <3>3
  <2> HIDE DEF R, N
  <2>4. \A x \in 0..N : x \in R /\ x < N => x + 1 \in R
    BY <2>3
  <2>5. \A x \in 0..N : x \in R
    BY <2>1, <2>2, <2>4, StepByStep
  <2> QED
    BY <2>1, <2>5 DEF R
<1>4. \A k \in kept : Reads(code[k]) \subseteq mine[k]
  BY <1>2 DEF Certifies
<1>5. ASSUME NEW k \in kept, \A j \in kept : k <= j
      PROVE  mine[k] = {}
  <2>1. 1 \in DOMAIN code /\ 1 <= k
    BY <1>1
  <2>2. \A m \in 1..(k - 1) : m \notin kept
    BY <1>1, <1>5
  <2>3. mine[k] \subseteq sure[1]
    BY <1>3, <2>1, <2>2
  <2> QED
    BY <2>3 DEF Certifies
<1>6. \A k, j \in kept : code[k].op \in Jump /\ IsLabel(code[j], code[k].label)
                         => mine[j] \subseteq mine[k] \cup Writes(code[k])
  BY <1>2 DEF Certifies, Goes
<1>7. ASSUME NEW k \in kept, NEW j \in kept, k < j, \A m \in (k + 1)..(j - 1) : m \notin kept, ~Ends(code[k])
      PROVE  mine[j] \subseteq mine[k] \cup Writes(code[k])
  <2>1. k + 1 \in DOMAIN code /\ k + 1 <= j
    BY <1>1, <1>7
  <2>2. mine[j] \subseteq sure[k + 1]
    BY <1>3, <1>7, <2>1
  <2>3. sure[k + 1] \subseteq sure[k] \cup Writes(code[k])
    BY <1>7, <2>1 DEF Certifies, Goes
  <2>4. mine[j] \subseteq read
    BY <1>2
  <2> QED
    BY <1>2, <2>2, <2>3, <2>4
<1> QED
  BY <1>1, <1>4, <1>5, <1>6, <1>7, KeptFlows

(* And when what an instruction falls through to is never dropped.          *)
LEMMA ClosedFlows ==
  ASSUME NEW n, NEW code, Sound(code, n), Flows(code),
         NEW kept, kept \subseteq DOMAIN code, Sound(Only(code, kept), n),
         1 \in kept, \A k \in kept : ~Ends(code[k]) => k + 1 \in kept
  PROVE  Flows(Only(code, kept))
<1>1. PICK sure : Certifies(sure, code)
  BY DEF Flows
<1>2. SetOnce(code) /\ IsSequence(code) /\ DOMAIN code \subseteq Nat
  BY Positions DEF Flows
<1>3. \A k \in kept : Reads(code[k]) \subseteq sure[k]
  BY <1>1 DEF Certifies
<1>4. ASSUME NEW k \in kept, \A j \in kept : k <= j
      PROVE  sure[k] = {}
  <2>1. k <= 1 /\ k \in 1..Len(code)
    BY <1>4, Positions
  <2>2. k = 1
    BY <2>1, Positions
  <2> QED
    BY <1>1, <2>2 DEF Certifies
<1>5. \A k, j \in kept : code[k].op \in Jump /\ IsLabel(code[j], code[k].label)
                         => sure[j] \subseteq sure[k] \cup Writes(code[k])
  BY <1>1 DEF Certifies, Goes
<1>6. ASSUME NEW k \in kept, NEW j \in kept, k < j, \A m \in (k + 1)..(j - 1) : m \notin kept, ~Ends(code[k])
      PROVE  sure[j] \subseteq sure[k] \cup Writes(code[k])
  <2>1. k + 1 \in kept /\ k \in Nat /\ j \in Nat
    BY <1>2, <1>6
  <2>2. j = k + 1
    BY <1>6, <2>1
  <2> QED
    BY <1>1, <1>6, <2>2 DEF Certifies, Goes
<1> QED
  BY <1>2, <1>3, <1>4, <1>5, <1>6, KeptFlows

(* Rewriting instructions where they are.                                   *)
LEMMA SteadyFlows ==
  ASSUME NEW n, NEW code, Sound(code, n), Flows(code),
         NEW new, new = [k \in DOMAIN code |-> new[k]],
         \A k \in DOMAIN code : Follows(code, code[k], new[k]) /\ Steady(code[k], new[k])
  PROVE  Flows(new)
<1>1. PICK sure : Certifies(sure, code)
  BY DEF Flows
<1>2. DOMAIN new = DOMAIN code
  OBVIOUS
<1>3. ASSUME NEW k \in DOMAIN code, NEW j \in DOMAIN code, Goes(new, k, j)
      PROVE  sure[j] \subseteq sure[k] \cup Writes(new[k])
  <2>1. Goes(code, k, j)
    BY <1>3 DEF Goes, Follows, Steady, IsLabel
  <2> QED
    BY <1>1, <2>1 DEF Certifies, Steady
<1>4. Certifies(sure, new)
  BY <1>1, <1>2, <1>3 DEF Certifies, Steady
<1>5. SetOnce(new)
  BY <1>2 DEF Flows, SetOnce, Steady
<1> QED
  BY <1>4, <1>5 DEF Flows

(* In particular when what is dropped goes to the next instruction and sets *)
(* nothing, or what it reads, or what is not read.                          *)
LEMMA IdleFlows ==
  ASSUME NEW n, NEW code, Sound(code, n), Flows(code),
         NEW kept, kept \subseteq DOMAIN code, Sound(Only(code, kept), n),
         \A q \in DOMAIN code \ kept : q + 1 \in DOMAIN code => Goes(code, q, q + 1),
         \A q \in DOMAIN code \ kept : \A v \in Writes(code[q]) :
           v \in Reads(code[q]) \/ \A k \in kept : v \notin Reads(code[k])
  PROVE  Flows(Only(code, kept))
<1>1. PICK sure : Certifies(sure, code)
  BY DEF Flows
<1>2. PICK read : read = UNION {Reads(code[k]) : k \in kept}
  OBVIOUS
<1>3. \A k \in kept : Reads(code[k]) \subseteq read
  BY <1>2
<1>4. ASSUME NEW q \in DOMAIN code \ kept, q + 1 \in DOMAIN code
      PROVE  sure[q + 1] \cap read \subseteq sure[q]
  <2>1. sure[q + 1] \subseteq sure[q] \cup Writes(code[q])
    BY <1>1, <1>4 DEF Certifies
  <2>2. \A v \in Writes(code[q]) : v \in sure[q] \/ v \notin read
    BY <1>1, <1>2 DEF Certifies
  <2> QED
    BY <2>1, <2>2
<1>5. SetOnce(code)
  BY DEF Flows
<1> QED
  BY <1>1, <1>3, <1>4, <1>5, DroppedFlows

(* What only goes somewhere, or stores to a local, sets nothing.            *)
LEMMA SetsNothing ==
  ASSUME NEW n, NEW code, Sound(code, n), NEW k \in DOMAIN code,
         code[k].op \in Jump \cup {"LABEL", "RET", "STORE_STACK"}
  PROVE  Writes(code[k]) = {}
<1>1. code[k].dest = 0
  BY DEF Sound, InstructionOf
<1>2. ~(0 > 0)
  OBVIOUS
<1> QED
  BY <1>1, <1>2 DEF Writes, Positive

-----------------------------------------------------------------------------
(* The passes once more.                                                    *)

(* A store to a local sets no register.                                     *)
LEMMA DeadStoresFlows ==
  ASSUME NEW n, NEW code, Sound(code, n), Flows(code)
  PROVE  Flows(DeadStoreElimination(code))
<1> DEFINE kept == {k \in DOMAIN code : ~Overwritten(code, k)}
<1>1. kept \subseteq DOMAIN code /\ DeadStoreElimination(code) = Only(code, kept)
  BY DEF DeadStoreElimination
<1>2. ASSUME NEW q \in DOMAIN code \ kept
      PROVE  Goes(code, q, q + 1) /\ Writes(code[q]) = {}
  <2>1. code[q].op = "STORE_STACK"
    BY DEF Overwritten
  <2> QED
    BY <2>1, SetsNothing DEF Goes, Ends
<1>3. Sound(Only(code, kept), n)
  BY <1>1, DeadStoresIsSound
<1> HIDE DEF kept
<1> QED
  BY <1>1, <1>2, <1>3, IdleFlows

(* A register that nothing reads need not be set.                           *)
LEMMA DeadCodeFlows ==
  ASSUME NEW n, NEW code, Sound(code, n), Flows(code)
  PROVE  Flows(DeadCodeElimination(code))
<1> DEFINE used == UNION {Reads(code[k]) : k \in DOMAIN code}
           kept == {k \in DOMAIN code : code[k].op \in Pure /\ code[k].dest > 0 => code[k].dest \in used}
<1>1. kept \subseteq DOMAIN code /\ DeadCodeElimination(code) = Only(code, kept)
  BY DEF DeadCodeElimination
<1>2. ASSUME NEW q \in DOMAIN code \ kept
      PROVE  Goes(code, q, q + 1) /\ \A v \in Writes(code[q]) : \A k \in kept : v \notin Reads(code[k])
  <2>1. code[q].op \in Pure /\ code[q].dest \notin used
    OBVIOUS
  <2>2. \A v \in Writes(code[q]) : v = code[q].dest
    BY DEF Writes, Positive
  <2>3. \A v : v \notin used => \A k \in DOMAIN code : v \notin Reads(code[k])
    OBVIOUS
  <2>4. ~Ends(code[q])
    BY <2>1 DEF Pure, Arithmetic, Binary, Compare, Ends
  <2> QED
    BY <1>1, <2>1, <2>2, <2>3, <2>4 DEF Goes
<1>3. Sound(Only(code, kept), n)
  BY <1>1, DeadCodeIsSound
<1> HIDE DEF kept
<1> QED
  BY <1>1, <1>2, <1>3, IdleFlows

(* A jump to the label behind it goes where the code goes without it.       *)
LEMMA DeadJumpsFlows ==
  ASSUME NEW n, NEW code, Sound(code, n), Flows(code)
  PROVE  Flows(DeadJumps(code))
<1> DEFINE kept == {k \in DOMAIN code : ~(code[k].op \in Jump /\ LabelBehind(code, k, code[k].label))}
<1>1. kept \subseteq DOMAIN code /\ DeadJumps(code) = Only(code, kept)
  BY DEF DeadJumps
<1>2. ASSUME NEW q \in DOMAIN code \ kept
      PROVE  Goes(code, q, q + 1) /\ Writes(code[q]) = {}
  BY SetsNothing DEF Goes, LabelBehind
<1>3. Sound(Only(code, kept), n)
  BY <1>1, DeadJumpsIsSound
<1> HIDE DEF kept
<1> QED
  BY <1>1, <1>2, <1>3, IdleFlows

(* So does a label.                                                         *)
LEMMA UnusedLabelsFlows ==
  ASSUME NEW n, NEW code, Sound(code, n), Flows(code)
  PROVE  Flows(UnusedLabels(code))
<1> DEFINE kept == {k \in DOMAIN code : \/ code[k].op # "LABEL" \/ Referenced(code, code[k].label)
                                        \/ k > 1 /\ code[k - 1].op \in {"JMP", "RET"}}
<1>1. kept \subseteq DOMAIN code /\ UnusedLabels(code) = Only(code, kept)
  BY DEF UnusedLabels
<1>2. ASSUME NEW q \in DOMAIN code \ kept
      PROVE  Goes(code, q, q + 1) /\ Writes(code[q]) = {}
  <2>1. code[q].op = "LABEL"
    OBVIOUS
  <2> QED
    BY <2>1, SetsNothing DEF Goes, Ends
<1>3. Sound(Only(code, kept), n)
  BY <1>1, UnusedLabelsIsSound
<1> HIDE DEF kept
<1> QED
  BY <1>1, <1>2, <1>3, IdleFlows

(* And a branch before a jump, to the same place or another.                *)
LEMMA SameTargetsFlows ==
  ASSUME NEW n, NEW code, Sound(code, n), Flows(code)
  PROVE  Flows(SameTargets(code))
<1> DEFINE kept == {k \in DOMAIN code : ~(/\ code[k].op \in CondJump
                                          /\ k < Len(code) /\ code[k + 1].op = "JMP"
                                          /\ code[k + 1].label = code[k].label)}
<1>1. kept \subseteq DOMAIN code /\ SameTargets(code) = Only(code, kept)
  BY DEF SameTargets
<1>2. ASSUME NEW q \in DOMAIN code \ kept
      PROVE  Goes(code, q, q + 1) /\ Writes(code[q]) = {}
  <2>1. code[q].op \in Jump /\ ~Ends(code[q])
    BY DEF CondJump, Jump, Ends
  <2> QED
    BY <2>1, SetsNothing DEF Goes
<1>3. Sound(Only(code, kept), n)
  BY <1>1, SameTargetsIsSound
<1> HIDE DEF kept
<1> QED
  BY <1>1, <1>2, <1>3, IdleFlows

(* What is kept behind a jump or a return begins with a label.              *)
LEMMA AfterJumpFlows ==
  ASSUME NEW n, NEW code, Sound(code, n), Flows(code)
  PROVE  Flows(AfterJump(code))
<1> DEFINE kept == {k \in DOMAIN code : \A j \in 1..(k - 1) : code[j].op \in {"JMP", "RET"} =>
                                          \E m \in (j + 1)..k : code[m].op = "LABEL"}
<1>1. kept \subseteq DOMAIN code /\ AfterJump(code) = Only(code, kept)
  BY DEF AfterJump
<1>2. DOMAIN code = 1..Len(code) /\ Len(code) \in Nat \ {0}
  BY Positions
<1>3. 1 \in kept
  BY <1>2
<1>4. ASSUME NEW k \in kept, ~Ends(code[k])
      PROVE  k + 1 \in kept
  <2>1. k \in 1..Len(code) /\ k # Len(code)
    BY <1>2, <1>4 DEF Sound
  <2>2. k + 1 \in DOMAIN code
    BY <1>2, <2>1
  <2>3. ASSUME NEW j \in 1..((k + 1) - 1), code[j].op \in {"JMP", "RET"}
        PROVE  \E m \in (j + 1)..(k + 1) : code[m].op = "LABEL"
    <3>1. j # k
      BY <1>4, <2>3 DEF Ends
    <3>2. j \in 1..(k - 1)
      BY <2>1, <3>1
    <3>3. PICK m \in (j + 1)..k : code[m].op = "LABEL"
      BY <2>3, <3>2
    <3>4. m \in (j + 1)..(k + 1)
      BY <2>1, <3>2
    <3> QED
      BY <3>3, <3>4
  <2> QED
    BY <2>2, <2>3
<1>5. Sound(Only(code, kept), n)
  BY <1>1, AfterJumpIsSound
<1> HIDE DEF kept
<1> QED
  BY <1>1, <1>3, <1>4, <1>5, ClosedFlows

(* What an instruction goes to is kept with it.                             *)
LEMMA UnreachableFlows ==
  ASSUME NEW n, NEW code, Sound(code, n), Flows(code)
  PROVE  Flows(UnreachableBlockRemoval(code))
<1>1. PICK open : open = AfterJump(code)
  OBVIOUS
<1>2. Sound(open, n) /\ Flows(open)
  BY <1>1, AfterJumpIsSound, AfterJumpFlows
<1>3. PICK seen : seen = Reach(open)
  OBVIOUS
<1>4. 1 \in seen /\ seen \subseteq DOMAIN open
  BY <1>2, <1>3, ReachIsClosed
<1>5. \A k \in seen : Successors(open, k) \subseteq seen
  BY <1>2, <1>3, ReachIsClosed
<1>6. \A k \in seen : ~Ends(open[k]) => k + 1 \in seen
  BY <1>5 DEF Successors, Ends
<1>7. UnreachableBlockRemoval(code) = Only(open, seen)
  BY <1>1, <1>3 DEF UnreachableBlockRemoval
<1>8. Sound(Only(open, seen), n)
  BY <1>7, UnreachableIsSound
<1>9. Flows(Only(open, seen))
  BY <1>2, <1>4, <1>6, <1>8, ClosedFlows
<1> QED
  BY <1>7, <1>9

(* No rule reads more than the operation did.                               *)
LEMMA AlgebraFlows ==
  ASSUME NEW n \in Nat \ {0}, NEW code, Sound(code, n), Flows(code)
  PROVE  Flows(AlgebraicSimplification(code))
<1> DEFINE new == [k \in DOMAIN code |-> Simplified(code[k])]
<1>1. \A k \in DOMAIN code : Follows(code, code[k], Simplified(code[k])) /\ Steady(code[k], Simplified(code[k]))
  BY SimplifiedFollows
<1>2. new = [k \in DOMAIN code |-> new[k]] /\ \A k \in DOMAIN code : new[k] = Simplified(code[k])
  OBVIOUS
<1>3. AlgebraicSimplification(code) = new
  BY DEF AlgebraicSimplification
<1> HIDE DEF new
<1> QED
  BY <1>1, <1>2, <1>3, SteadyFlows

(* Nor does an instruction that is given constants.                         *)
LEMMA ConstantsFlows ==
  ASSUME NEW n \in Nat \ {0}, NEW code, Sound(code, n), Flows(code)
  PROVE  Flows(ConstantPropagation(code))
<1>1. PICK new : new = ConstantPropagation(code)
  OBVIOUS
<1>2. /\ IsSequence(new) /\ Len(new) = Len(code)
      /\ \A j \in 1..Len(code) : Follows(code, code[j], new[j]) /\ Steady(code[j], new[j])
  BY <1>1, ConstantsStages
<1>3. DOMAIN code = 1..Len(code) /\ new = [k \in DOMAIN code |-> new[k]]
  BY <1>2, Positions DEF IsSequence
<1>4. Flows(new)
  BY <1>2, <1>3, SteadyFlows
<1> QED
  BY <1>1, <1>4

(* A branch that is not taken goes on, and one that is does not need its    *)
(* condition any more.                                                      *)
LEMMA ConstantBranchesFlows ==
  ASSUME NEW n \in Nat \ {0}, NEW code, Sound(code, n), Flows(code)
  PROVE  Flows(ConstantBranches(code))
<1> DEFINE keep == {k \in DOMAIN code : ConstantBranch(code[k]) => Taken(code[k])}
<1>1. Sound(Only(code, keep), n) /\ Flows(Only(code, keep))
  <2>1. \A k \in DOMAIN code : code[k].op = "LABEL" \/ Ends(code[k]) => k \in keep
    BY DEF ConstantBranch, CondJump, Ends
  <2>2. Len(code) \in DOMAIN code /\ Ends(code[Len(code)])
    BY Positions DEF Sound
  <2>3. keep \subseteq DOMAIN code
    OBVIOUS
  <2>4. ASSUME NEW q \in DOMAIN code \ keep
        PROVE  Goes(code, q, q + 1) /\ Writes(code[q]) = {}
    <3>1. code[q].op \in Jump /\ ~Ends(code[q])
      BY DEF ConstantBranch, CondJump, Jump, Ends
    <3> QED
      BY <3>1, SetsNothing DEF Goes
  <2> HIDE DEF keep
  <2>5. Sound(Only(code, keep), n)
    BY <2>1, <2>2, <2>3, MostKeptIsSound
  <2> QED
    BY <2>3, <2>4, <2>5, IdleFlows
<1>2. PICK kept : kept = Only(code, keep)
  OBVIOUS
<1> DEFINE new == [k \in DOMAIN kept |->
                     IF ConstantBranch(kept[k]) THEN Jmp(kept[k].label) ELSE kept[k]]
<1>3. ConstantBranches(code) = new
  BY <1>2 DEF ConstantBranches
<1>4. Sound(kept, n) /\ Flows(kept)
  BY <1>1, <1>2
<1>5. ASSUME NEW k \in DOMAIN kept
      PROVE  Follows(kept, kept[k], new[k]) /\ Steady(kept[k], new[k])
  <2>1. CASE ~ConstantBranch(kept[k])
    BY <1>4, <2>1, KeptFollows DEF Steady
  <2>2. CASE ConstantBranch(kept[k])
    <3>1. PICK l : l = kept[k].label /\ HasLabel(kept, l)
      BY <1>4, <2>2 DEF Sound, ConstantBranch, CondJump, Jump
    <3>2. PICK j : j = Jmp(l)
      OBVIOUS
    <3>3. /\ j.op = "JMP" /\ j.label = l /\ j.dest = 0
          /\ j.src1 = K(0) /\ j.src2 = K(0) /\ j.args = << >>
      BY <3>2 DEF Jmp, Inst
    <3>4. new[k] = j
      BY <2>2, <3>1, <3>2
    <3>5. kept[k].op \in Jump /\ kept[k].op \notin {"LABEL", "RET", "IMM"}
      BY <2>2 DEF ConstantBranch, CondJump, Jump
    <3> HIDE DEF new
    <3>6. Writes(kept[k]) = {}
      BY <1>4, <3>5, SetsNothing
    <3>7. Reads(j) = {} /\ Writes(j) = {}
      <4>1. Operands(j) = {0}
        BY <3>3 DEF Operands, K
      <4>2. Positive({0}) = {}
        BY DEF Positive
      <4> QED
        BY <3>3, <4>1, <4>2 DEF Reads, Writes
    <3>8. Steady(kept[k], j)
      BY <3>1, <3>3, <3>5, <3>6, <3>7 DEF Steady
    <3> QED
      BY <3>1, <3>3, <3>4, <3>5, <3>8 DEF Follows, Ends
  <2> QED
    BY <2>1, <2>2
<1>6. new = [k \in DOMAIN kept |-> new[k]]
  OBVIOUS
<1> HIDE DEF new
<1> QED
  BY <1>3, <1>4, <1>5, <1>6, SteadyFlows

(* A register that was stored is set wherever its local still holds it.     *)
LEMMA ForwardingFlows ==
  ASSUME NEW n \in Nat \ {0}, NEW code, Sound(code, n), Flows(code)
  PROVE  Flows(StoreLoadForwarding(code))
<1> DEFINE o(k) == code[k].offset
           From(k) == {j \in 1..(k - 1) :
                         /\ code[k].op = "LOAD_STACK" /\ Enters(code[j], o(k))
                         /\ \A m \in (j + 1)..(k - 1) : ~Loses(code, code[m], o(k), code[j].src1)}
           new == [k \in DOMAIN code |->
                     IF From(k) = {} THEN code[k]
                     ELSE Forwarded(code[k], code[CHOOSE j \in From(k) : TRUE].src1)]
<1>1. StoreLoadForwarding(code) = new
  BY DEF StoreLoadForwarding
<1>2. PICK sure : Certifies(sure, code)
  BY DEF Flows
<1>3. DOMAIN code = 1..Len(code) /\ Len(code) \in Nat
  BY Positions
<1>4. ASSUME NEW k \in DOMAIN code, NEW j \in From(k)
      PROVE  /\ j \in DOMAIN code /\ j \in Nat /\ j < k /\ code[k].op = "LOAD_STACK"
             /\ code[j].src1.vreg >= 0 /\ code[j].op = "STORE_STACK"
             /\ \A m \in (j + 1)..k : code[m].op # "LABEL"
  <2>1. j \in 1..(k - 1) /\ k \in 1..Len(code) /\ code[k].op = "LOAD_STACK"
    BY <1>3, <1>4
  <2>2. j \in DOMAIN code /\ j \in Nat /\ j < k
    BY <1>3, <2>1
  <2>3. code[j].src1.vreg >= 0 /\ code[j].op = "STORE_STACK"
    BY <1>4 DEF Enters
  <2>4. ASSUME NEW m \in (j + 1)..k
        PROVE  code[m].op # "LABEL"
    <3>1. m = k \/ m \in (j + 1)..(k - 1)
      BY <2>1
    <3>2. \A p \in (j + 1)..(k - 1) : code[p].op # "LABEL"
      BY <1>4 DEF Loses
    <3> QED
      BY <2>1, <3>1, <3>2
  <2> QED
    BY <2>1, <2>2, <2>3, <2>4
<1>5. ASSUME NEW k \in DOMAIN code
      PROVE  \/ new[k] = code[k]
             \/ \E j \in From(k) : new[k] = Forwarded(code[k], code[j].src1)
  BY <1>5
<1>6. new = [k \in DOMAIN code |-> new[k]] /\ DOMAIN new = DOMAIN code
  OBVIOUS
<1> HIDE DEF new, From
<1>7. ASSUME NEW k \in DOMAIN code, NEW j \in From(k), new[k] = Forwarded(code[k], code[j].src1)
      PROVE  /\ new[k].op \in {"IMM", "MOV"} /\ Writes(new[k]) = Writes(code[k])
             /\ \A v \in Reads(new[k]) : v = code[j].src1.vreg /\ v > 0
  <2>1. PICK held : held = code[j].src1
    OBVIOUS
  <2>2. /\ j \in DOMAIN code /\ code[k].op = "LOAD_STACK" /\ held.vreg >= 0
        /\ InstructionOf(code[k], n) /\ InstructionOf(code[j], n)
    BY <1>4, <1>7, <2>1 DEF Sound
  <2>3. code[k].dest \in 0..(n - 1) /\ OperandOf(held, 0, n)
    <3>1. OperandOf(held, -2, n) \/ OperandOf(held, 0, n)
      BY <2>1, <2>2 DEF InstructionOf
    <3> QED
      BY <2>2, <3>1 DEF InstructionOf, OperandOf
  <2>4. PICK i : i = new[k]
    OBVIOUS
  <2>5. /\ i.op \in {"IMM", "MOV"} /\ i.dest = code[k].dest
        /\ i.src1.vreg \in {0, held.vreg} /\ i.src2.vreg = 0
    <3>1. CASE held.vreg = 0
      <4>1. i = Imm(code[k].dest, held.imm)
        BY <1>7, <2>1, <2>4, <3>1 DEF Forwarded
      <4>2. InstructionOf(i, n) /\ i.op = "IMM" /\ i.dest = code[k].dest
        BY <2>3, <4>1, ImmIsInstruction
      <4> QED
        BY <4>2, InstructionFields
    <3>2. CASE held.vreg # 0
      <4>1. i = Mov(code[k].dest, held)
        BY <1>7, <2>1, <2>4, <3>2 DEF Forwarded
      <4>2. i.op = "MOV" /\ i.dest = code[k].dest /\ i.src1 = held /\ i.src2 = K(0)
        BY <2>3, <4>1, MovIsInstruction
      <4> QED
        BY <4>2 DEF K
    <3> QED
      BY <3>1, <3>2
  <2>6. Writes(i) = Writes(code[k])
    BY <2>2, <2>5 DEF Writes
  <2>7. \A v \in Reads(i) : v = held.vreg /\ v > 0
    <3>1. Operands(i) = {i.src1.vreg, 0} /\ Reads(i) = Positive(Operands(i))
      BY <2>5 DEF Operands, Reads
    <3>2. \A v \in Reads(i) : v \in {i.src1.vreg, 0} /\ v > 0 /\ v # 0
      BY <3>1 DEF Positive
    <3> QED
      BY <2>5, <3>2
  <2> QED
    BY <2>1, <2>4, <2>5, <2>6, <2>7
<1> DEFINE Brought(m) == {v \in 1..(n - 1) : \E k \in DOMAIN code : m <= k /\ \E j \in From(k) :
                            j < m /\ v = code[j].src1.vreg}
           mine == [m \in DOMAIN code |-> sure[m] \cup Brought(m)]
<1>8. \A m \in DOMAIN code : mine[m] = sure[m] \cup Brought(m)
  OBVIOUS
<1> HIDE DEF mine
<1>9. mine[1] = {}
  <2>1. 1 \in DOMAIN code
    BY Positions
  <2>2. \A k \in DOMAIN code : \A j \in From(k) : ~(j < 1)
    BY <1>3 DEF From
  <2>3. Brought(1) = {}
    BY <2>2
  <2> HIDE DEF Brought
  <2> QED
    BY <1>2, <1>8, <2>1, <2>3 DEF Certifies
<1>10. \A k \in DOMAIN code : \A j \in From(k) : code[j].src1.vreg > 0 => code[j].src1.vreg \in 1..(n - 1)
  <2> SUFFICES ASSUME NEW k \in DOMAIN code, NEW j \in From(k), code[j].src1.vreg > 0
               PROVE  code[j].src1.vreg \in 1..(n - 1)
    OBVIOUS
  <2>1. InstructionOf(code[j], n)
    BY <1>4 DEF Sound
  <2>2. OperandOf(code[j].src1, -2, n) \/ OperandOf(code[j].src1, 0, n)
    BY <2>1 DEF InstructionOf
  <2> QED
    BY <2>2 DEF OperandOf
<1>11. ASSUME NEW k \in DOMAIN code, NEW v \in Reads(new[k])
       PROVE  v \in mine[k]
  <2>1. CASE new[k] = code[k]
    BY <1>2, <1>8, <1>11, <2>1 DEF Certifies
  <2>2. CASE \E j \in From(k) : new[k] = Forwarded(code[k], code[j].src1)
    <3>1. PICK j \in From(k) : new[k] = Forwarded(code[k], code[j].src1)
      BY <2>2
    <3>2. v = code[j].src1.vreg /\ v > 0
      BY <1>7, <1>11, <3>1
    <3>3. j < k /\ k <= k /\ v \in 1..(n - 1)
      BY <1>3, <1>4, <1>10, <3>1, <3>2
    <3>4. v \in Brought(k)
      BY <3>1, <3>2, <3>3
    <3> HIDE DEF Brought
    <3> QED
      BY <1>8, <3>4
  <2> QED
    BY <1>5, <2>1, <2>2
<1>12. \A k \in DOMAIN code : /\ Writes(new[k]) = Writes(code[k])
                              /\ code[k].op = "IMM" => new[k].op = "IMM"
                              /\ \A j \in DOMAIN code : Goes(new, k, j) => Goes(code, k, j)
  <2> SUFFICES ASSUME NEW k \in DOMAIN code
               PROVE  /\ Writes(new[k]) = Writes(code[k])
                      /\ code[k].op = "IMM" => new[k].op = "IMM"
                      /\ \A j \in DOMAIN code : Goes(new, k, j) => Goes(code, k, j)
    OBVIOUS
  <2>1. \/ new[k] = code[k]
        \/ code[k].op = "LOAD_STACK" /\ new[k].op \in {"IMM", "MOV"} /\ Writes(new[k]) = Writes(code[k])
    BY <1>4, <1>5, <1>7
  <2>2. \A j \in DOMAIN code : \A l : IsLabel(new[j], l) => IsLabel(code[j], l)
    <3> SUFFICES ASSUME NEW j \in DOMAIN code, NEW l, IsLabel(new[j], l)
                 PROVE  IsLabel(code[j], l)
      OBVIOUS
    <3>1. new[j] = code[j] \/ new[j].op \in {"IMM", "MOV"}
      BY <1>5, <1>7
    <3> QED
      BY <3>1 DEF IsLabel
  <2> QED
    BY <2>1, <2>2 DEF Goes, Ends, Jump
<1>13. ASSUME NEW a \in DOMAIN code, NEW b \in DOMAIN code, Goes(code, a, b), NEW v \in mine[b]
       PROVE  v \in mine[a] \cup Writes(code[a])
  <2>1. CASE v \in sure[b]
    BY <1>2, <1>8, <1>13, <2>1 DEF Certifies
  <2>2. CASE v \in Brought(b)
    <3>0. PICK k \in DOMAIN code : b <= k /\ \E j \in From(k) : j < b /\ v = code[j].src1.vreg
      BY <2>2
    <3>1. PICK j \in From(k) : b <= k /\ j < b /\ v = code[j].src1.vreg
      BY <3>0
    <3>2. v \in 1..(n - 1)
      BY <2>2
    <3>3. j \in DOMAIN code /\ j \in Nat /\ a \in Nat /\ b \in Nat /\ k \in Nat
      BY <1>3, <1>4
    <3>4. code[b].op # "LABEL"
      <4>1. b \in (j + 1)..k
        BY <3>1, <3>3
      <4> QED
        BY <1>4, <4>1
    <3>5. b = a + 1
      BY <1>13, <3>4 DEF Goes, IsLabel
    <3>6. CASE a = j
      <4>1. v \in Reads(code[j])
        BY <3>1, <3>2 DEF Reads, Operands, Positive
      <4> QED
        BY <1>2, <1>8, <3>6, <4>1 DEF Certifies
    <3>7. CASE a # j
      <4>1. j < a /\ a <= k
        BY <3>1, <3>3, <3>5, <3>7
      <4>2. v \in Brought(a)
        BY <3>1, <3>2, <4>1
      <4> HIDE DEF Brought
      <4> QED
        BY <1>8, <4>2
    <3> QED
      BY <3>6, <3>7
  <2> HIDE DEF Brought
  <2> QED
    BY <1>8, <1>13, <2>1, <2>2
<1> HIDE DEF Brought
<1>14. Certifies(mine, new)
  BY <1>6, <1>9, <1>11, <1>12, <1>13 DEF Certifies
<1>15. SetOnce(new)
  BY <1>6, <1>12 DEF Flows, SetOnce
<1> QED
  BY <1>1, <1>14, <1>15 DEF Flows

(* Sending jumps elsewhere: no more may be sure there than was at the jump. *)
LEMMA RedirectedFlows ==
  ASSUME NEW n, NEW code, Sound(code, n), SetOnce(code), NEW sure, Certifies(sure, code),
         NEW new, new = [k \in DOMAIN code |-> new[k]],
         \A k \in DOMAIN code :
           /\ Follows(code, code[k], new[k])
           /\ Reads(new[k]) \subseteq Reads(code[k]) /\ Writes(new[k]) = Writes(code[k])
           /\ code[k].op = "IMM" => new[k].op = "IMM",
         \A k, j \in DOMAIN code : new[k].op \in Jump /\ IsLabel(code[j], new[k].label)
                                   => sure[j] \subseteq sure[k] \cup Writes(code[k])
  PROVE  Certifies(sure, new) /\ SetOnce(new)
<1>1. DOMAIN new = DOMAIN code
  OBVIOUS
<1>2. ASSUME NEW k \in DOMAIN code, NEW j \in DOMAIN code, Goes(new, k, j)
      PROVE  sure[j] \subseteq sure[k] \cup Writes(new[k])
  <2>1. CASE new[k].op \in Jump /\ IsLabel(new[j], new[k].label)
    <3>1. IsLabel(code[j], new[k].label)
      BY <2>1 DEF Follows, IsLabel
    <3> QED
      BY <2>1, <3>1
  <2>2. CASE ~Ends(new[k]) /\ j = k + 1
    <3>1. Goes(code, k, j)
      BY <2>2 DEF Follows, Goes
    <3> QED
      BY <3>1 DEF Certifies
  <2> QED
    BY <1>2, <2>1, <2>2 DEF Goes
<1>3. \A k \in DOMAIN new : Reads(new[k]) \subseteq sure[k]
  BY <1>1 DEF Certifies
<1>4. Certifies(sure, new)
  BY <1>1, <1>2, <1>3 DEF Certifies
<1>5. SetOnce(new)
  BY <1>1 DEF SetOnce
<1> QED
  BY <1>4, <1>5

(* A jump with another label, or the other condition, reads and sets what   *)
(* it did.                                                                  *)
LEMMA RelabelledReads ==
  ASSUME NEW i, NEW j, i.op \in Jump, j.op \in Jump,
         j.dest = i.dest, j.src1 = i.src1, j.src2 = i.src2
  PROVE  Reads(j) = Reads(i) /\ Writes(j) = Writes(i) /\ i.op # "IMM"
BY DEF Reads, Writes, Operands, Jump

(* What is sure at a jump's label is no more than at the jump, nor is what  *)
(* is sure where the jump behind that label goes.                           *)
LEMMA JumpRedirectedFlows ==
  ASSUME NEW n, NEW code, Sound(code, n), Flows(code), NEW k \in DOMAIN code, code[k].op \in Jump,
         NEW l, l = ThreadTarget(code, code[k].label),
         NEW new, new = [m \in DOMAIN code |-> new[m]], new[k] = [code[k] EXCEPT !.label = l],
         \A m \in DOMAIN code \ {k} : new[m] = code[m]
  PROVE  Flows(new)
<1>1. PICK sure : Certifies(sure, code)
  BY DEF Flows
<1>2. IsSequence(code) /\ DOMAIN code = 1..Len(code) /\ Len(code) \in Nat
  BY Positions
<1> DEFINE ok == {code[j].label : j \in {i \in DOMAIN code : code[i].op = "LABEL" /\ sure[i] \subseteq sure[k]}}
<1>3. code[k].label \in ok
  <2>1. PICK j \in DOMAIN code : IsLabel(code[j], code[k].label)
    BY DEF Sound, HasLabel
  <2>2. sure[j] \subseteq sure[k]
    BY <1>1, <2>1, SetsNothing DEF Certifies, Goes
  <2> QED
    BY <2>1, <2>2 DEF IsLabel
<1>4. ASSUME NEW m \in ok
      PROVE  Hop(code, m) \in ok
  <2>1. PICK j \in DOMAIN code : code[j].op = "LABEL" /\ sure[j] \subseteq sure[k] /\ m = code[j].label
    BY <1>4
  <2>2. PICK p : p = LabelPos(code, m)
    OBVIOUS
  <2>3. p = j
    <3>1. HasLabel(code, m)
      BY <2>1 DEF HasLabel, IsLabel
    <3>2. p \in DOMAIN code /\ IsLabel(code[p], m)
      BY <1>2, <2>2, <3>1, LabelPosition
    <3> QED
      BY <2>1, <3>2 DEF Sound, IsLabel
  <2>4. CASE p > 0 /\ p < Len(code) /\ code[p + 1].op = "JMP"
    <3>1. p + 1 \in DOMAIN code /\ code[p + 1].op \in Jump
      BY <1>2, <2>1, <2>3, <2>4 DEF Jump
    <3>2. PICK t \in DOMAIN code : IsLabel(code[t], code[p + 1].label)
      BY <3>1 DEF Sound, HasLabel
    <3>3. sure[t] \subseteq sure[p + 1]
      BY <1>1, <3>1, <3>2, SetsNothing DEF Certifies, Goes
    <3>4. sure[p + 1] \subseteq sure[p]
      <4>1. Goes(code, p, p + 1)
        BY <2>1, <2>3 DEF Goes, Ends
      <4> QED
        BY <1>1, <2>1, <2>3, <3>1, <4>1, SetsNothing DEF Certifies
    <3>5. Hop(code, m) = code[t].label /\ code[t].op = "LABEL"
      BY <2>2, <2>4, <3>2 DEF Hop, IsLabel
    <3> QED
      BY <2>1, <2>3, <3>3, <3>4, <3>5
  <2>5. CASE ~(p > 0 /\ p < Len(code) /\ code[p + 1].op = "JMP")
    BY <1>4, <2>2, <2>5 DEF Hop
  <2> QED
    BY <2>4, <2>5
<1>5. l \in ok
  <2> HIDE DEF ok
  <2> QED
    BY <1>3, <1>4, ThreadTargetStaysIn
<1>6. PICK t \in DOMAIN code : code[t].op = "LABEL" /\ sure[t] \subseteq sure[k] /\ l = code[t].label
  BY <1>5
<1>7. PICK i : i = code[k]
  OBVIOUS
<1>8. PICK j : j = [i EXCEPT !.label = l]
  OBVIOUS
<1>9. IsInst(i) /\ i.op \in Jump
  BY <1>7, InstructionFields DEF Sound
<1>10. j.op = i.op /\ j.label = l /\ j.dest = i.dest /\ j.src1 = i.src1 /\ j.src2 = i.src2 /\ new[k] = j
  BY <1>7, <1>8, <1>9 DEF IsInst
<1>11. HasLabel(code, l)
  BY <1>6 DEF HasLabel, IsLabel
<1>12. ASSUME NEW m \in DOMAIN code
       PROVE  /\ Follows(code, code[m], new[m])
              /\ Reads(new[m]) \subseteq Reads(code[m]) /\ Writes(new[m]) = Writes(code[m])
              /\ code[m].op = "IMM" => new[m].op = "IMM"
  <2>1. CASE m = k
    <3>1. Follows(code, i, j)
      BY <1>9, <1>10, <1>11 DEF Follows, Ends, Jump
    <3>2. Reads(j) = Reads(i) /\ Writes(j) = Writes(i) /\ i.op # "IMM"
      BY <1>9, <1>10, RelabelledReads
    <3> QED
      BY <1>7, <1>10, <2>1, <3>1, <3>2
  <2>2. CASE m # k
    BY <2>2, KeptFollows
  <2> QED
    BY <2>1, <2>2
<1>13. ASSUME NEW m \in DOMAIN code, NEW q \in DOMAIN code, new[m].op \in Jump, IsLabel(code[q], new[m].label)
       PROVE  sure[q] \subseteq sure[m] \cup Writes(code[m])
  <2>1. CASE m = k
    <3>1. q = t
      BY <1>6, <1>10, <1>13, <2>1 DEF Sound
    <3> QED
      BY <1>6, <2>1, <3>1
  <2>2. CASE m # k
    BY <1>1, <1>13, <2>2 DEF Certifies, Goes
  <2> QED
    BY <2>1, <2>2
<1>14. SetOnce(code)
  BY DEF Flows
<1> HIDE DEF ok
<1>15. Certifies(sure, new) /\ SetOnce(new)
  BY <1>1, <1>12, <1>13, <1>14, RedirectedFlows
<1> QED
  BY <1>15 DEF Flows

(* One jump after the other.                                                *)
LEMMA ThreadedFlows ==
  ASSUME NEW n, NEW code, Sound(code, n), Flows(code)
  PROVE  Flows(Threaded(code))
<1> DEFINE N == Len(code)
           Base == code
           Next(k, s) == IF s[k].op \in Jump THEN [s EXCEPT ![k].label = ThreadTarget(s, @)] ELSE s
           Good(k, s) == Sound(s, n) /\ Len(s) = Len(code) /\ Flows(s)
           Stages(g, m) == g = [k \in 0..m |-> IF k = 0 THEN Base ELSE Next(k, g[k - 1])]
           T == {m \in Nat : \E g : Stages(g, m)}
<1>1. N \in Nat
  BY Positions
<1>2. Good(0, Base)
  OBVIOUS
<1>3. ASSUME NEW k \in 1..N, NEW s, Good(k - 1, s)
      PROVE  Good(k, Next(k, s))
  <2>1. CASE s[k].op \in Jump
    <3>1. k \in DOMAIN s
      BY <1>1, <1>3, Positions
    <3>2. PICK l : l = ThreadTarget(s, s[k].label)
      OBVIOUS
    <3>3. HasLabel(s, l)
      BY <1>3, <2>1, <3>1, <3>2, ThreadTargetHasLabel DEF Sound
    <3>4. PICK new : new = [s EXCEPT ![k].label = l]
      OBVIOUS
    <3>5. /\ new = [m \in DOMAIN s |-> new[m]] /\ new[k] = [s[k] EXCEPT !.label = l]
          /\ \A m \in DOMAIN s \ {k} : new[m] = s[m]
      BY <1>3, <3>1, <3>4, Positions DEF IsSequence
    <3>6. Sound(new, n) /\ Len(new) = Len(s)
      BY <1>3, <2>1, <3>1, <3>3, <3>5, JumpRedirected
    <3>7. Flows(new)
      BY <1>3, <2>1, <3>1, <3>2, <3>5, JumpRedirectedFlows
    <3>8. Next(k, s) = new
      BY <2>1, <3>2, <3>4
    <3> QED
      BY <1>3, <3>6, <3>7, <3>8
  <2>2. CASE s[k].op \notin Jump
    BY <1>3, <2>2
  <2> QED
    BY <2>1, <2>2
<1> HIDE DEF Base, Next, Good
<1>4. 0 \in T
  <2>1. Stages([k \in 0..0 |-> Base], 0)
    OBVIOUS
  <2> QED
    BY <2>1
<1>5. ASSUME NEW m \in 0..N, m \in T, m < N
      PROVE  m + 1 \in T
  <2>1. PICK g : Stages(g, m)
    BY <1>5
  <2> DEFINE h == [k \in 0..(m + 1) |-> IF k <= m THEN g[k] ELSE Next(k, g[k - 1])]
  <2>2. Stages(h, m + 1)
    <3>1. ASSUME NEW k \in 0..(m + 1)
          PROVE  h[k] = IF k = 0 THEN Base ELSE Next(k, h[k - 1])
      BY <2>1
    <3> QED
      BY <3>1
  <2> HIDE DEF h
  <2> QED
    BY <1>1, <2>2
<1>6. N \in T
  <2> HIDE DEF T, N
  <2>1. \A k \in 0..N : k \in T /\ k < N => k + 1 \in T
    BY <1>5
  <2>2. \A k \in 0..N : k \in T
    BY <1>1, <1>4, <2>1, StepByStep
  <2> QED
    BY <1>1, <2>2
<1>7. PICK u : Stages(u, N) /\ Threaded(code) = u[N]
  BY <1>6 DEF Threaded, Base, Next
<1>8. Good(N, u[N])
  <2> DEFINE R == {m \in 0..N : Good(m, u[m])}
  <2>1. 0 \in R
    BY <1>1, <1>2, <1>7
  <2>2. ASSUME NEW m \in 0..N, m \in R, m < N
        PROVE  m + 1 \in R
    <3>1. m + 1 \in 1..N /\ m + 1 \in 0..N /\ (m + 1) - 1 = m
      BY <1>1, <2>2
    <3>2. u[m + 1] = Next(m + 1, u[m])
      BY <1>7, <3>1
    <3> QED
      BY <1>3, <2>2, <3>1, <3>2
  <2> HIDE DEF R, N
  <2>3. \A k \in 0..N : k \in R /\ k < N => k + 1 \in R
    BY <2>2
  <2>4. \A k \in 0..N : k \in R
    BY <1>1, <2>1, <2>3, StepByStep
  <2> QED
    BY <1>1, <2>4 DEF R
<1> QED
  BY <1>7, <1>8 DEF Good, N

(* The jump that a branch skips is not come to from anywhere else.          *)
LEMMA InvertedFlows ==
  ASSUME NEW n, NEW code, Sound(code, n), Flows(code)
  PROVE  Flows(Inverted(code))
<1> DEFINE other == [op \in CondJump |-> CHOOSE o \in CondJump : o # op]
           new == [k \in DOMAIN code |->
                     IF SkipsJump(code, k)
                     THEN [code[k] EXCEPT !.op = other[@], !.label = code[k + 1].label] ELSE code[k]]
           kept == {k \in DOMAIN code : k = 1 \/ ~SkipsJump(code, k - 1)}
<1>1. Inverted(code) = Only(new, kept)
  BY DEF Inverted
<1>2. PICK sure : Certifies(sure, code)
  BY DEF Flows
<1>3. DOMAIN code = 1..Len(code) /\ Len(code) \in Nat
  BY Positions
<1>4. ASSUME NEW op \in CondJump
      PROVE  other[op] \in CondJump
  <2>1. \E o \in CondJump : o # op
    BY DEF CondJump
  <2> QED
    BY <2>1
<1> HIDE DEF other
<1>5. ASSUME NEW k \in DOMAIN code, SkipsJump(code, k)
      PROVE  /\ k + 1 \in DOMAIN code /\ k + 2 \in DOMAIN code /\ code[k].op \in CondJump /\ code[k].op \in Jump
             /\ code[k + 1].op = "JMP" /\ code[k + 1].op \in Jump /\ code[k + 2].op = "LABEL"
             /\ sure[k + 1] \subseteq sure[k] /\ sure[k + 2] \subseteq sure[k]
  <2>1. /\ code[k].op \in CondJump /\ k < Len(code) /\ code[k + 1].op = "JMP"
        /\ k + 1 < Len(code) /\ IsLabel(code[(k + 1) + 1], code[k].label)
    BY <1>5 DEF SkipsJump, LabelBehind
  <2>2. (k + 1) + 1 = k + 2 /\ k + 1 \in DOMAIN code /\ k + 2 \in DOMAIN code
    BY <1>3, <2>1
  <2>3. code[k].op \in Jump /\ ~Ends(code[k]) /\ code[k + 1].op \in Jump
    BY <2>1 DEF CondJump, Jump, Ends
  <2>4. Goes(code, k, k + 1) /\ Goes(code, k, k + 2)
    BY <2>1, <2>2, <2>3 DEF Goes
  <2>5. Writes(code[k]) = {}
    BY <2>3, SetsNothing
  <2> QED
    BY <1>2, <2>1, <2>2, <2>3, <2>4, <2>5 DEF Certifies, IsLabel
<1> DEFINE mine == [k \in DOMAIN code |-> IF k \in kept THEN sure[k] ELSE sure[k - 1]]
<1>6. ASSUME NEW k \in DOMAIN code, k \notin kept
      PROVE  /\ mine[k] = sure[k - 1] /\ k - 1 \in DOMAIN code /\ SkipsJump(code, k - 1)
             /\ (k - 1) + 1 = k /\ (k - 1) + 2 = k + 1
  BY <1>3, <1>6
<1>7. \A k \in kept : mine[k] = sure[k]
  OBVIOUS
<1>8. \A k \in DOMAIN code : SkipsJump(code, k) => k \in kept
  <2> SUFFICES ASSUME NEW k \in DOMAIN code, SkipsJump(code, k), k \notin kept
               PROVE  FALSE
    OBVIOUS
  <2>1. code[k].op = "JMP"
    BY <1>5, <1>6
  <2> QED
    BY <1>5, <2>1 DEF CondJump
<1>9. kept \subseteq DOMAIN code /\ 1 \in kept /\ \A k \in DOMAIN code : code[k].op = "LABEL" => k \in kept
  <2>1. \A k \in DOMAIN code : code[k].op = "LABEL" => k \in kept
    BY <1>5, <1>6
  <2>2. 1 \in DOMAIN code
    BY Positions
  <2> QED
    BY <2>1, <2>2
<1>10. new = [k \in DOMAIN code |-> new[k]] /\ \A k \in DOMAIN code :
         new[k] = IF SkipsJump(code, k)
                  THEN [code[k] EXCEPT !.op = other[@], !.label = code[k + 1].label] ELSE code[k]
  OBVIOUS
<1> HIDE DEF mine, kept, new
<1>11. \A k \in DOMAIN code : sure[k] \subseteq mine[k]
  <2> SUFFICES ASSUME NEW k \in DOMAIN code, k \notin kept
               PROVE  sure[k] \subseteq mine[k]
    BY <1>7
  <2>1. PICK q : q = k - 1
    OBVIOUS
  <2>2. mine[k] = sure[q] /\ q \in DOMAIN code /\ SkipsJump(code, q) /\ q + 1 = k
    BY <1>6, <2>1
  <2> QED
    BY <1>5, <2>2
<1>12. ASSUME NEW k \in DOMAIN code, NEW j \in DOMAIN code, Goes(code, k, j)
       PROVE  mine[j] \subseteq mine[k] \cup Writes(code[k])
  <2>1. CASE j \in kept
    <3>1. sure[j] \subseteq sure[k] \cup Writes(code[k])
      BY <1>2, <1>12 DEF Certifies
    <3> QED
      BY <1>7, <1>11, <2>1, <3>1
  <2>2. CASE j \notin kept
    <3>1. j = k + 1
      BY <1>9, <1>12, <2>2 DEF Goes, IsLabel
    <3>2. j - 1 = k
      BY <1>3, <3>1
    <3> QED
      BY <1>6, <1>11, <2>2, <3>2
  <2> QED
    BY <2>1, <2>2
<1>13. Certifies(mine, code)
  <2>1. mine[1] = {}
    BY <1>2, <1>7, <1>9 DEF Certifies
  <2>2. \A k \in DOMAIN code : Reads(code[k]) \subseteq mine[k]
    BY <1>2, <1>11 DEF Certifies
  <2> QED
    BY <1>12, <2>1, <2>2 DEF Certifies
<1>14. ASSUME NEW k \in DOMAIN code
       PROVE  /\ InstructionOf(new[k], n) /\ Follows(code, code[k], new[k])
              /\ Reads(new[k]) \subseteq Reads(code[k]) /\ Writes(new[k]) = Writes(code[k])
              /\ code[k].op = "IMM" => new[k].op = "IMM"
              /\ SkipsJump(code, k) => new[k].label = code[k + 1].label
              /\ ~SkipsJump(code, k) => new[k] = code[k]
  <2>1. CASE ~SkipsJump(code, k)
    BY <1>10, <2>1, KeptFollows
  <2>2. CASE SkipsJump(code, k)
    <3>1. PICK i : i = code[k]
      OBVIOUS
    <3>2. PICK l : l = code[k + 1].label
      OBVIOUS
    <3>3. k + 1 \in DOMAIN code /\ code[k + 1].op = "JMP" /\ code[k + 1].op \in Jump /\ i.op \in CondJump
      BY <1>5, <2>2, <3>1
    <3>4. PICK op : op = other[i.op]
      OBVIOUS
    <3>5. PICK j : j = [i EXCEPT !.op = op, !.label = l]
      OBVIOUS
    <3>6. new[k] = j
      BY <1>10, <2>2, <3>1, <3>2, <3>4, <3>5
    <3>7. op \in CondJump /\ InstructionOf(i, n) /\ HasLabel(code, l)
      BY <1>4, <3>1, <3>2, <3>3, <3>4 DEF Sound
    <3>8. /\ IsInst(j) /\ j.op = op /\ j.label = l /\ j.dest = i.dest
          /\ j.src1 = i.src1 /\ j.src2 = i.src2 /\ j.args = i.args
      BY <3>5, <3>7, InstructionFields DEF IsInst
    <3>9. /\ i.op \in Jump /\ i.op \notin {"LABEL", "RET", "JMP", "STORE_STACK"}
          /\ op \in Jump /\ op \notin {"LABEL", "IMM", "STORE_STACK"}
      BY <3>3, <3>7 DEF CondJump, Jump
    <3>10. InstructionOf(j, n)
      BY <3>7, <3>8, <3>9, InstructionFields
    <3>11. Reads(j) = Reads(i) /\ Writes(j) = Writes(i) /\ i.op # "IMM"
      BY <3>8, <3>9, RelabelledReads
    <3>12. Follows(code, i, j)
      BY <3>7, <3>8, <3>9 DEF Follows, Ends
    <3> QED
      BY <2>2, <3>1, <3>2, <3>6, <3>8, <3>10, <3>11, <3>12
  <2> QED
    BY <2>1, <2>2
<1>15. ASSUME NEW k \in DOMAIN code, NEW j \in DOMAIN code, new[k].op \in Jump, IsLabel(code[j], new[k].label)
       PROVE  mine[j] \subseteq mine[k] \cup Writes(code[k])
  <2>1. CASE ~SkipsJump(code, k)
    BY <1>12, <1>14, <1>15, <2>1 DEF Goes
  <2>2. CASE SkipsJump(code, k)
    <3>1. k + 1 \in DOMAIN code /\ code[k + 1].op \in Jump /\ sure[k + 1] \subseteq sure[k]
      BY <1>5, <2>2
    <3>2. Goes(code, k + 1, j)
      BY <1>14, <1>15, <2>2, <3>1 DEF Goes
    <3>3. sure[j] \subseteq sure[k + 1]
      BY <1>2, <3>1, <3>2, SetsNothing DEF Certifies
    <3>4. j \in kept
      BY <1>9, <1>15 DEF IsLabel
    <3> QED
      BY <1>7, <1>11, <3>1, <3>3, <3>4
  <2> QED
    BY <2>1, <2>2
<1>16. SetOnce(code)
  BY DEF Flows
<1>17. Certifies(mine, new) /\ SetOnce(new)
  BY <1>10, <1>13, <1>14, <1>15, <1>16, RedirectedFlows
<1>18. Sound(new, n) /\ DOMAIN new = DOMAIN code
  BY <1>10, <1>14, RewrittenIsSound
<1>19. ASSUME NEW q \in DOMAIN new \ kept
       PROVE  mine[q + 1] \subseteq mine[q]
  <2>1. PICK k : k = q - 1
    OBVIOUS
  <2>2. mine[q] = sure[k] /\ k \in DOMAIN code /\ SkipsJump(code, k) /\ q + 1 = k + 2
    BY <1>6, <1>18, <2>1
  <2>3. k + 2 \in DOMAIN code /\ code[k + 2].op = "LABEL" /\ sure[k + 2] \subseteq sure[k]
    BY <1>5, <2>2
  <2> QED
    BY <1>7, <1>9, <2>2, <2>3
<1>20. PICK read : read = UNION {Reads(new[k]) : k \in kept}
  OBVIOUS
<1>21. \A k \in kept : Reads(new[k]) \subseteq read
  BY <1>20
<1>22. Sound(Only(new, kept), n)
  BY <1>1, InvertedIsSound
<1>23. Flows(Only(new, kept))
  BY <1>9, <1>17, <1>18, <1>19, <1>21, <1>22, DroppedFlows
<1> QED
  BY <1>1, <1>23

(* What is sure at the first of the labels in a row is at each of them.     *)
LEMMA OneLabelInARowFlows ==
  ASSUME NEW n, NEW code, Sound(code, n), Flows(code)
  PROVE  Flows(OneLabelInARow(code))
<1> DEFINE Name(l) == LET p == LabelPos(code, l) IN IF p = 0 THEN l ELSE code[RowHead(code, p)].label
           new == [k \in DOMAIN code |->
                     IF code[k].op \in Jump THEN [code[k] EXCEPT !.label = Name(@)] ELSE code[k]]
           kept == {k \in DOMAIN code : code[k].op = "LABEL" => IsRowHead(code, k)}
<1>1. OneLabelInARow(code) = Only(new, kept)
  BY DEF OneLabelInARow
<1>2. IsSequence(code) /\ DOMAIN code = 1..Len(code) /\ Len(code) \in Nat \ {0}
  BY Positions
<1>3. PICK sure : Certifies(sure, code)
  BY DEF Flows
<1> DEFINE Row(k, m) == \A q \in k..(m - 1) : code[q].op = "LABEL"
           mine == [k \in DOMAIN code |->
                      {v \in sure[k] : \A m \in k..Len(code) : Row(k, m) => v \in sure[m]}]
<1>4. \A k \in DOMAIN code : \A v : v \in mine[k] <=>
        v \in sure[k] /\ \A m \in k..Len(code) : Row(k, m) => v \in sure[m]
  OBVIOUS
<1> HIDE DEF mine
<1>5. \A h, p \in DOMAIN code : h <= p /\ Row(h, p) => mine[h] \subseteq mine[p]
  <2> SUFFICES ASSUME NEW h \in DOMAIN code, NEW p \in DOMAIN code, h <= p, Row(h, p), NEW v \in mine[h]
               PROVE  v \in mine[p]
    OBVIOUS
  <2>1. v \in sure[p]
    BY <1>2, <1>4
  <2>2. ASSUME NEW m \in p..Len(code), Row(p, m)
        PROVE  v \in sure[m]
    <3>1. m \in h..Len(code)
      BY <1>2
    <3>2. Row(h, m)
      <4> SUFFICES ASSUME NEW q \in h..(m - 1)
                   PROVE  code[q].op = "LABEL"
        OBVIOUS
      <4>1. q \in h..(p - 1) \/ q \in p..(m - 1)
        BY <1>2
      <4> QED
        BY <2>2, <4>1
    <3> HIDE DEF Row
    <3> QED
      BY <1>4, <3>1, <3>2
  <2> HIDE DEF Row
  <2> QED
    BY <1>4, <2>1, <2>2
<1>6. ASSUME NEW k \in DOMAIN code, NEW v \in sure[k], code[k].op # "LABEL"
      PROVE  v \in mine[k]
  <2>1. ASSUME NEW m \in k..Len(code), Row(k, m)
        PROVE  v \in sure[m]
    <3>1. m = k
      <4> SUFFICES ASSUME m # k
                   PROVE  FALSE
        OBVIOUS
      <4>1. k \in k..(m - 1)
        BY <1>2
      <4> QED
        BY <1>6, <2>1, <4>1
    <3> QED
      BY <3>1
  <2> HIDE DEF Row
  <2> QED
    BY <1>4, <2>1
<1>7. \A k \in DOMAIN code : mine[k] \subseteq sure[k]
  BY <1>4
<1>8. ASSUME NEW k \in DOMAIN code, NEW j \in DOMAIN code, Goes(code, k, j), NEW v \in mine[j]
      PROVE  v \in mine[k] \cup Writes(code[k])
  <2>1. v \in sure[k] \cup Writes(code[k])
    BY <1>3, <1>7, <1>8 DEF Certifies
  <2>2. CASE code[k].op # "LABEL"
    BY <1>6, <2>1, <2>2
  <2>3. CASE code[k].op = "LABEL"
    <3>1. Writes(code[k]) = {}
      BY <2>3, SetsNothing
    <3>2. j = k + 1
      BY <1>8, <2>3 DEF Goes, Jump
    <3>3. ASSUME NEW m \in k..Len(code), Row(k, m)
          PROVE  v \in sure[m]
      <4>1. CASE m = k
        BY <2>1, <3>1, <4>1
      <4>2. CASE m # k
        <5>1. m \in j..Len(code) /\ \A q \in j..(m - 1) : q \in k..(m - 1)
          BY <1>2, <3>2, <4>2
        <5>2. Row(j, m)
          BY <3>3, <5>1
        <5> HIDE DEF Row
        <5> QED
          BY <1>4, <1>8, <5>1, <5>2
      <4> QED
        BY <4>1, <4>2
    <3> HIDE DEF Row
    <3> QED
      BY <1>4, <2>1, <3>1, <3>3
  <2> QED
    BY <2>2, <2>3
<1>9. Certifies(mine, code)
  <2>1. mine[1] = {}
    BY <1>2, <1>3, <1>7 DEF Certifies
  <2>2. ASSUME NEW k \in DOMAIN code, NEW v \in Reads(code[k])
        PROVE  v \in mine[k]
    <3>1. v \in sure[k]
      BY <1>3, <2>2 DEF Certifies
    <3>2. code[k].op # "LABEL"
      <4> SUFFICES ASSUME code[k].op = "LABEL"
                   PROVE  FALSE
        OBVIOUS
      <4>1. code[k].src1.vreg = 0 /\ code[k].src2.vreg = 0
        BY DEF Sound, InstructionOf
      <4>2. Operands(code[k]) = {0} /\ ~(0 > 0)
        BY <4>1 DEF Operands
      <4> QED
        BY <2>2, <4>2 DEF Reads, Positive
    <3> QED
      BY <1>6, <3>1, <3>2
  <2> QED
    BY <1>8, <2>1, <2>2 DEF Certifies
<1> HIDE DEF Row
<1>10. ASSUME NEW l, HasLabel(code, l)
       PROVE  \E h \in kept : /\ IsLabel(code[h], Name(l))
                              /\ \A p \in DOMAIN code : IsLabel(code[p], l) => mine[h] \subseteq mine[p]
  <2>1. PICK p : p = LabelPos(code, l)
    OBVIOUS
  <2>2. p \in DOMAIN code /\ IsLabel(code[p], l)
    BY <1>2, <1>10, <2>1, LabelPosition
  <2>3. PICK h : h = RowHead(code, p)
    OBVIOUS
  <2>4. /\ h \in DOMAIN code /\ code[h].op = "LABEL" /\ IsRowHead(code, h)
        /\ h <= p /\ \A m \in h..p : code[m].op = "LABEL"
    BY <1>2, <2>2, <2>3, LabelsHaveHeads DEF IsLabel
  <2>5. Name(l) = code[h].label
    BY <1>2, <2>1, <2>2, <2>3
  <2>6. mine[h] \subseteq mine[p]
    <3>1. \A q \in h..(p - 1) : q \in h..p
      BY <1>2, <2>2, <2>4
    <3>2. Row(h, p)
      BY <2>4, <3>1 DEF Row
    <3> QED
      BY <1>5, <2>2, <2>4, <3>2
  <2>7. \A q \in DOMAIN code : IsLabel(code[q], l) => q = p
    BY <2>2 DEF Sound, IsLabel
  <2>8. h \in kept
    BY <2>4
  <2> HIDE DEF Name, kept
  <2> QED
    BY <2>4, <2>5, <2>6, <2>7, <2>8 DEF IsLabel
<1> HIDE DEF Name
<1>11. \A k \in DOMAIN code :
         new[k] = IF code[k].op \in Jump THEN [code[k] EXCEPT !.label = Name(@)] ELSE code[k]
  OBVIOUS
<1>12. new = [k \in DOMAIN code |-> new[k]] /\ kept \subseteq DOMAIN code
  OBVIOUS
<1>13. \A q \in DOMAIN code \ kept : code[q].op = "LABEL"
  OBVIOUS
<1> HIDE DEF new, kept
<1>14. ASSUME NEW k \in DOMAIN code
       PROVE  /\ InstructionOf(new[k], n) /\ Follows(code, code[k], new[k])
              /\ Reads(new[k]) \subseteq Reads(code[k]) /\ Writes(new[k]) = Writes(code[k])
              /\ code[k].op = "IMM" => new[k].op = "IMM"
              /\ new[k].op \in Jump => code[k].op \in Jump /\ new[k].label = Name(code[k].label)
  <2>1. CASE code[k].op \notin Jump
    BY <1>11, <2>1, KeptFollows
  <2>2. CASE code[k].op \in Jump
    <3>1. PICK i : i = code[k]
      OBVIOUS
    <3>2. PICK l : l = Name(i.label)
      OBVIOUS
    <3>3. PICK j : j = [i EXCEPT !.label = l]
      OBVIOUS
    <3>4. new[k] = j
      BY <1>11, <2>2, <3>1, <3>2, <3>3
    <3>5. InstructionOf(i, n) /\ HasLabel(code, l)
      BY <1>10, <1>12, <2>2, <3>1, <3>2 DEF Sound, HasLabel
    <3>6. /\ IsInst(j) /\ j.op = i.op /\ j.label = l /\ j.dest = i.dest
          /\ j.src1 = i.src1 /\ j.src2 = i.src2 /\ j.args = i.args
      BY <3>3, <3>5, InstructionFields DEF IsInst
    <3>7. i.op # "LABEL" /\ i.op \in Jump
      BY <2>2, <3>1 DEF Jump
    <3>8. InstructionOf(j, n)
      BY <3>5, <3>6, InstructionFields
    <3>9. Reads(j) = Reads(i) /\ Writes(j) = Writes(i) /\ i.op # "IMM"
      BY <3>6, <3>7, RelabelledReads
    <3>10. Follows(code, i, j)
      BY <3>5, <3>6, <3>7 DEF Follows, Ends
    <3> QED
      BY <3>1, <3>2, <3>4, <3>6, <3>7, <3>8, <3>9, <3>10
  <2> QED
    BY <2>1, <2>2
<1>15. ASSUME NEW k \in DOMAIN code, NEW j \in DOMAIN code, new[k].op \in Jump, IsLabel(code[j], new[k].label)
       PROVE  mine[j] \subseteq mine[k] \cup Writes(code[k])
  <2>1. PICK l : l = code[k].label
    OBVIOUS
  <2>2. code[k].op \in Jump /\ new[k].label = Name(l)
    BY <1>14, <1>15, <2>1
  <2>3. PICK p \in DOMAIN code : IsLabel(code[p], l)
    BY <2>1, <2>2 DEF Sound, HasLabel
  <2>4. HasLabel(code, l)
    BY <2>3 DEF HasLabel
  <2>5. PICK h \in kept : /\ IsLabel(code[h], Name(l))
                          /\ \A q \in DOMAIN code : IsLabel(code[q], l) => mine[h] \subseteq mine[q]
    BY <1>10, <2>4
  <2>6. j = h
    BY <1>12, <1>15, <2>2, <2>5 DEF Sound, IsLabel
  <2>7. mine[p] \subseteq mine[k] \cup Writes(code[k])
    BY <1>9, <2>1, <2>2, <2>3 DEF Certifies, Goes
  <2> QED
    BY <2>3, <2>5, <2>6, <2>7
<1>16. SetOnce(code)
  BY DEF Flows
<1>17. Certifies(mine, new) /\ SetOnce(new)
  BY <1>9, <1>12, <1>14, <1>15, <1>16, RedirectedFlows
<1>18. Sound(new, n) /\ DOMAIN new = DOMAIN code
  BY <1>12, <1>14, RewrittenIsSound
<1>19. ASSUME NEW q \in DOMAIN new \ kept
       PROVE  Goes(new, q, q + 1) /\ Writes(new[q]) = {}
  <2>1. new[q].op = "LABEL"
    BY <1>13, <1>14, <1>18 DEF Follows
  <2> QED
    BY <1>18, <2>1, SetsNothing DEF Goes, Ends
<1>20. Sound(Only(new, kept), n)
  BY <1>1, OneLabelInARowIsSound
<1>21. Flows(new)
  BY <1>17 DEF Flows
<1>22. Flows(Only(new, kept))
  BY <1>12, <1>18, <1>19, <1>20, <1>21, IdleFlows
<1> QED
  BY <1>1, <1>22

(* What a copy defines is set where the register it came from is: the       *)
(* registers that have a value are those of a set that holds, with what a   *)
(* copy defines, what it copies.                                            *)
CopyClosure(code, n, s) ==
  {v \in 1..(n - 1) : \A t \in SUBSET (1..(n - 1)) :
     CopyClosed(code, t) /\ s \cap 1..(n - 1) \subseteq t => v \in t}

(* It is the least set of registers of that kind with those of s.           *)
LEMMA CopyClosureIsClosed ==
  ASSUME NEW n, NEW code, NEW s
  PROVE  /\ CopyClosure(code, n, s) \subseteq 1..(n - 1)
         /\ s \cap 1..(n - 1) \subseteq CopyClosure(code, n, s)
         /\ Sound(code, n) => CopyClosed(code, CopyClosure(code, n, s))
         /\ \A t \in SUBSET (1..(n - 1)) :
              CopyClosed(code, t) /\ s \cap 1..(n - 1) \subseteq t => CopyClosure(code, n, s) \subseteq t
<1>1. PICK c : c = CopyClosure(code, n, s)
  OBVIOUS
<1>2. \A v : v \in c <=> v \in 1..(n - 1) /\ \A t \in SUBSET (1..(n - 1)) :
        CopyClosed(code, t) /\ s \cap 1..(n - 1) \subseteq t => v \in t
  BY <1>1 DEF CopyClosure
<1>3. ASSUME Sound(code, n), NEW k \in DOMAIN code, IsCopy(code[k]), code[k].dest \in c
      PROVE  code[k].src1.vreg \in c
  <2>1. code[k].src1.vreg \in 1..(n - 1)
    <3>1. InstructionOf(code[k], n) /\ code[k].op = "MOV" /\ code[k].src1.vreg > 0
      BY <1>3 DEF Sound, IsCopy
    <3> QED
      BY <3>1 DEF InstructionOf, OperandOf
  <2>2. ASSUME NEW t \in SUBSET (1..(n - 1)), CopyClosed(code, t), s \cap 1..(n - 1) \subseteq t
        PROVE  code[k].src1.vreg \in t
    BY <1>2, <1>3, <2>2 DEF CopyClosed
  <2> QED
    BY <1>2, <2>1, <2>2
<1>4. Sound(code, n) => CopyClosed(code, c)
  BY <1>3 DEF CopyClosed
<1> QED
  BY <1>1, <1>2, <1>4

(* Copy propagation once more: self-moves set what they read, and a         *)
(* register is read under the name of one that has a value where it has. It *)
(* matters here that what a move defines is set nowhere else.               *)
LEMMA CopiesFlows ==
  ASSUME NEW n \in Nat \ {0}, NEW code, Sound(code, n), Flows(code)
  PROVE  Flows(CopyPropagation(code))
<1>1. PICK map : map = CopyMap(code)
  OBVIOUS
<1> DEFINE stays == {k \in DOMAIN code : ~SelfMove(code[k])}
<1>2. PICK kept : kept = Only(code, stays)
  OBVIOUS
<1>3. stays \subseteq DOMAIN code /\ \A k \in DOMAIN code : k \notin stays <=> SelfMove(code[k])
  OBVIOUS
<1> HIDE DEF stays
<1>4. Sound(kept, n)
  <2>1. \A k \in DOMAIN code : code[k].op = "LABEL" \/ Ends(code[k]) => k \in stays
    BY <1>3 DEF SelfMove, IsCopy, Ends
  <2>2. Len(code) \in stays
    BY <2>1, Positions DEF Sound
  <2> QED
    BY <1>2, <1>3, <2>1, <2>2, MostKeptIsSound
<1>5. Flows(kept)
  <2>1. ASSUME NEW q \in DOMAIN code \ stays
        PROVE  Goes(code, q, q + 1) /\ Writes(code[q]) \subseteq Reads(code[q])
    <3>1. SelfMove(code[q])
      BY <1>3
    <3> QED
      BY <3>1 DEF SelfMove, IsCopy, Goes, Ends, Writes, Reads, Operands, Positive
  <2> QED
    BY <1>2, <1>3, <1>4, <2>1, IdleFlows
<1>6. ASSUME NEW t, CopyClosed(kept, t)
      PROVE  CopyClosed(code, t)
  <2>1. PICK pos : Enumerates(pos, kept, code, stays)
    BY <1>2, <1>3, OnlyEnumerates, Positions
  <2> SUFFICES ASSUME NEW k \in DOMAIN code, IsCopy(code[k]), code[k].dest \in t
               PROVE  code[k].src1.vreg \in t
    BY DEF CopyClosed
  <2>2. CASE k \in stays
    <3>1. PICK i \in DOMAIN kept : kept[i] = code[k]
      BY <2>1, <2>2 DEF Enumerates
    <3> QED
      BY <1>6, <3>1 DEF CopyClosed
  <2>3. CASE k \notin stays
    BY <1>3, <2>3 DEF SelfMove
  <2> QED
    BY <2>2, <2>3
<1>7. /\ map \in [Copied(code) -> 1..(n - 1)]
      /\ \A t : CopyClosed(kept, t) => \A d \in DOMAIN map : d \in t => map[d] \in t
  BY <1>1, <1>6, CopyMapIsOfRegisters
<1>8. IsFiniteSet(DOMAIN map)
  BY <1>7, CopiedAreRegisters
<1> DEFINE Rooted(o) == [o EXCEPT !.vreg = CopyRoot(map, @)]
           Renamed(i) ==
             [i EXCEPT !.src1 = Rooted(@), !.src2 = Rooted(@),
                       !.args = [k \in DOMAIN @ |-> Rooted(@[k])],
                       !.dest = IF i.op = "STORE" THEN CopyRoot(map, @) ELSE @]
           new == [k \in DOMAIN kept |-> Renamed(kept[k])]
<1>9. CopyPropagation(code) = new
  BY <1>1, <1>2 DEF CopyPropagation, stays
<1>10. PICK sure : Certifies(sure, kept)
  BY <1>5 DEF Flows
<1> DEFINE regs == 1..(n - 1)
           mine == [k \in DOMAIN kept |-> CopyClosure(kept, n, sure[k])]
<1>11. \A k \in DOMAIN kept : mine[k] = CopyClosure(kept, n, sure[k])
  OBVIOUS
<1>12. DOMAIN new = DOMAIN kept /\ \A k \in DOMAIN kept : new[k] = Renamed(kept[k])
  OBVIOUS
<1> HIDE DEF mine, new
(* What an instruction reads under its new name.                            *)
<1>13. \A o : \A low \in {-2, 0} : OperandOf(o, low, n) =>
         Rooted(o).vreg = CopyRoot(map, o.vreg) /\ o.vreg \in -2..(n - 1)
  BY DEF OperandOf
<1>14. ASSUME NEW k \in DOMAIN kept
       PROVE  /\ new[k].op = kept[k].op /\ new[k].label = kept[k].label
              /\ Writes(new[k]) = Writes(kept[k]) /\ Writes(kept[k]) \subseteq regs
              /\ \A v \in Reads(new[k]) : \E r \in -2..(n - 1) :
                   v = CopyRoot(map, r) /\ v > 0 /\ (r > 0 => r \in Reads(kept[k]))
  <2>1. PICK i : i = kept[k]
    OBVIOUS
  <2>2. InstructionOf(i, n) /\ IsInst(i)
    BY <1>4, <2>1, InstructionFields DEF Sound
  <2>3. PICK x : x = Rooted(i.src1)
    OBVIOUS
  <2>4. PICK y : y = Rooted(i.src2)
    OBVIOUS
  <2>5. PICK a : a = [m \in DOMAIN i.args |-> Rooted(i.args[m])]
    OBVIOUS
  <2>6. PICK d : d = IF i.op = "STORE" THEN CopyRoot(map, i.dest) ELSE i.dest
    OBVIOUS
  <2> HIDE DEF Rooted
  <2> HIDE DEF Renamed
  <2>7. PICK j : j = Renamed(i)
    OBVIOUS
  <2>8. new[k] = j
    BY <1>12, <2>1, <2>7
  <2> USE DEF Renamed
  <2>9. /\ j.op = i.op /\ j.label = i.label /\ j.dest = d
        /\ j.src1 = x /\ j.src2 = y /\ j.args = a
    BY <2>2, <2>3, <2>4, <2>5, <2>6, <2>7 DEF IsInst
  <2>10. PICK low \in {-2, 0} : low = IF i.op = "STORE_STACK" THEN -2 ELSE 0
    OBVIOUS
  <2>11. /\ x.vreg = CopyRoot(map, i.src1.vreg) /\ i.src1.vreg \in -2..(n - 1)
         /\ y.vreg = CopyRoot(map, i.src2.vreg) /\ i.src2.vreg \in -2..(n - 1)
    BY <1>13, <2>2, <2>3, <2>4, <2>10, InstructionFields
  <2>12. \A m \in DOMAIN a : m \in DOMAIN i.args /\ a[m].vreg = CopyRoot(map, i.args[m].vreg)
                             /\ i.args[m].vreg \in -2..(n - 1)
    BY <1>13, <2>2, <2>5, <2>10, InstructionFields
  <2>13. i.dest \in -2..(n - 1) /\ i.dest \in 0..(n - 1)
    BY <2>2, InstructionFields
  <2>14. Writes(j) = Writes(i) /\ Writes(i) \subseteq regs
    BY <2>6, <2>9, <2>13 DEF Writes, Positive
  <2>15. ASSUME NEW v \in Reads(j)
         PROVE  \E r \in -2..(n - 1) : v = CopyRoot(map, r) /\ v > 0 /\ (r > 0 => r \in Reads(i))
    <3>1. v > 0 /\ (\/ v = x.vreg \/ v = y.vreg
                    \/ i.op = "CALL" /\ \E m \in DOMAIN a : v = a[m].vreg
                    \/ i.op = "STORE" /\ v = d)
      BY <2>9, <2>15 DEF Reads, Operands, Positive
    <3>2. CASE v = x.vreg
      <4>1. i.src1.vreg > 0 => i.src1.vreg \in Reads(i)
        BY DEF Reads, Operands, Positive
      <4> QED
        BY <2>11, <3>1, <3>2, <4>1
    <3>3. CASE v = y.vreg
      <4>1. i.src2.vreg > 0 => i.src2.vreg \in Reads(i)
        BY DEF Reads, Operands, Positive
      <4> QED
        BY <2>11, <3>1, <3>3, <4>1
    <3>4. CASE i.op = "CALL" /\ \E m \in DOMAIN a : v = a[m].vreg
      <4>1. PICK m \in DOMAIN a : v = a[m].vreg
        BY <3>4
      <4>2. m \in DOMAIN i.args
        BY <2>12
      <4>3. i.args[m].vreg > 0 => i.args[m].vreg \in Reads(i)
        BY <3>4, <4>2 DEF Reads, Operands, Positive
      <4> QED
        BY <2>12, <3>1, <4>1, <4>3
    <3>5. CASE i.op = "STORE" /\ v = d
      <4>1. i.dest > 0 => i.dest \in Reads(i)
        BY <3>5 DEF Reads, Positive
      <4> QED
        BY <2>6, <2>13, <3>1, <3>5, <4>1
    <3> QED
      BY <3>1, <3>2, <3>3, <3>4, <3>5
  <2> QED
    BY <2>1, <2>8, <2>9, <2>14, <2>15
<1>15. ASSUME NEW k \in DOMAIN kept, NEW v \in Reads(new[k])
       PROVE  v \in mine[k]
  <2>1. PICK r \in -2..(n - 1) : v = CopyRoot(map, r) /\ v > 0 /\ (r > 0 => r \in Reads(kept[k]))
    BY <1>14, <1>15
  <2>2. r > 0
    <3>1. r <= 0 => v = r
      BY <1>7, <2>1, RootIsRegister
    <3> QED
      BY <2>1, <3>1
  <2>3. r \in sure[k] /\ r \in regs
    BY <1>10, <2>1, <2>2 DEF Certifies
  <2>4. PICK ok : ok = mine[k]
    OBVIOUS
  <2>5. r \in ok /\ CopyClosed(kept, ok)
    BY <1>4, <1>11, <2>3, <2>4, CopyClosureIsClosed
  <2>6. \A d \in DOMAIN map : d \in ok => map[d] \in ok
    BY <1>7, <2>5
  <2>7. CopyRoot(map, r) \in ok
    BY <1>8, <2>5, <2>6, RootStaysIn
  <2> QED
    BY <2>1, <2>4, <2>7
(* What is set under its new name.                                          *)
<1>16. ASSUME NEW k \in DOMAIN kept, NEW j \in DOMAIN kept, Goes(kept, k, j)
       PROVE  mine[j] \subseteq mine[k] \cup Writes(kept[k])
  <2>1. PICK c : c = mine[k]
    OBVIOUS
  <2>2. c \subseteq regs /\ sure[k] \cap regs \subseteq c /\ CopyClosed(kept, c)
    BY <1>4, <1>11, <2>1, CopyClosureIsClosed
  <2>3. PICK t : t = c \cup Writes(kept[k])
    OBVIOUS
  <2>4. t \in SUBSET regs
    BY <1>14, <2>2, <2>3
  <2>5. sure[j] \cap regs \subseteq t
    BY <1>10, <1>16, <2>2, <2>3 DEF Certifies
  <2>6. CopyClosed(kept, t)
    <3> SUFFICES ASSUME NEW q \in DOMAIN kept, IsCopy(kept[q]), kept[q].dest \in t
                 PROVE  kept[q].src1.vreg \in t
      BY DEF CopyClosed
    <3>1. CASE kept[q].dest \in c
      BY <2>2, <2>3, <3>1 DEF CopyClosed
    <3>2. CASE kept[q].dest \in Writes(kept[k])
      <4>1. kept[q].dest \in Writes(kept[q]) /\ kept[q].op = "MOV"
        BY DEF IsCopy, Writes, Positive
      <4>2. q = k
        BY <1>5, <3>2, <4>1 DEF Flows, SetOnce
      <4>3. kept[q].src1.vreg \in Reads(kept[q])
        BY DEF IsCopy, Reads, Operands, Positive
      <4>4. kept[q].src1.vreg \in regs
        <5>1. InstructionOf(kept[q], n) /\ kept[q].src1.vreg > 0
          BY <1>4 DEF Sound, IsCopy
        <5> QED
          BY <4>1, <5>1 DEF InstructionOf, OperandOf
      <4>5. kept[q].src1.vreg \in sure[k]
        BY <1>10, <4>2, <4>3 DEF Certifies
      <4> QED
        BY <2>2, <2>3, <4>4, <4>5
    <3> QED
      BY <2>3, <3>1, <3>2
  <2>7. mine[j] \subseteq t
    BY <1>11, <2>4, <2>5, <2>6, CopyClosureIsClosed
  <2> QED
    BY <2>1, <2>3, <2>7
<1>17. mine[1] = {}
  <2>1. 1 \in DOMAIN kept
    BY <1>4, Positions
  <2>2. sure[1] = {} /\ CopyClosed(kept, {})
    BY <1>10 DEF Certifies, CopyClosed
  <2>3. CopyClosure(kept, n, {}) \subseteq {}
    BY <2>2, CopyClosureIsClosed
  <2> QED
    BY <1>11, <2>1, <2>2, <2>3
<1>18. \A k, j \in DOMAIN kept : Goes(new, k, j) => Goes(kept, k, j)
  BY <1>14 DEF Goes, Ends, IsLabel
<1>19. Certifies(mine, new)
  <2>1. \A k \in DOMAIN new : Reads(new[k]) \subseteq mine[k]
    BY <1>12, <1>15
  <2>2. \A k, j \in DOMAIN new : Goes(new, k, j) => mine[j] \subseteq mine[k] \cup Writes(new[k])
    BY <1>12, <1>14, <1>16, <1>18
  <2> QED
    BY <1>17, <2>1, <2>2 DEF Certifies
<1>20. SetOnce(new)
  <2> SUFFICES ASSUME NEW j \in DOMAIN kept, NEW k \in DOMAIN kept,
                      Writes(new[j]) \cap Writes(new[k]) # {}
               PROVE  j = k \/ new[j].op = "IMM"
    BY <1>12 DEF SetOnce
  <2>1. Writes(kept[j]) \cap Writes(kept[k]) # {} /\ new[j].op = kept[j].op
    BY <1>14
  <2> QED
    BY <1>5, <2>1 DEF Flows, SetOnce
<1>21. Flows(new)
  BY <1>19, <1>20 DEF Flows
<1> QED
  BY <1>9, <1>21

-----------------------------------------------------------------------------
(* Every pass, on whatever code, and so the pipeline.                       *)

(* Each pass leaves sound code.                                             *)
LEMMA PassIsSound ==
  ASSUME NEW n \in Nat \ {0}, NEW code, Sound(code, n),
         NEW pass \in {"forward", "dead stores", "constants", "copies", "algebra",
                       "flow", "simplify", "unreachable", "dead code"}
  PROVE  Sound(Rewritten(pass, code), n)
<1>1. Sound(CfgOptimization(code), n)
  BY ConstantBranchesIsSound, DeadJumpsIsSound, ThreadedIsSound, UnusedLabelsIsSound DEF CfgOptimization
<1>2. Sound(CfgSimplify(code), n)
  BY InvertedIsSound, SameTargetsIsSound, OneLabelInARowIsSound, AfterJumpIsSound DEF CfgSimplify
<1> QED
  BY <1>1, <1>2, ForwardingIsSound, DeadStoresIsSound, ConstantsIsSound, CopiesIsSound,
     AlgebraIsSound, UnreachableIsSound, DeadCodeIsSound DEF Rewritten

(* And code in which nothing unset is read.                                 *)
LEMMA PassFlows ==
  ASSUME NEW n \in Nat \ {0}, NEW code, Sound(code, n), Flows(code),
         NEW pass \in {"forward", "dead stores", "constants", "copies", "algebra",
                       "flow", "simplify", "unreachable", "dead code"}
  PROVE  Flows(Rewritten(pass, code))
<1>1. Flows(CfgOptimization(code))
  <2>1. PICK a : a = ConstantBranches(code)
    OBVIOUS
  <2>2. Sound(a, n) /\ Flows(a)
    BY <2>1, ConstantBranchesIsSound, ConstantBranchesFlows
  <2>3. PICK b : b = DeadJumps(a)
    OBVIOUS
  <2>4. Sound(b, n) /\ Flows(b)
    BY <2>2, <2>3, DeadJumpsIsSound, DeadJumpsFlows
  <2>5. PICK c : c = Threaded(b)
    OBVIOUS
  <2>6. Sound(c, n) /\ Flows(c)
    BY <2>4, <2>5, ThreadedIsSound, ThreadedFlows
  <2>7. Flows(UnusedLabels(c))
    BY <2>6, UnusedLabelsFlows
  <2> QED
    BY <2>1, <2>3, <2>5, <2>7 DEF CfgOptimization
<1>2. Flows(CfgSimplify(code))
  <2>1. PICK a : a = Inverted(code)
    OBVIOUS
  <2>2. Sound(a, n) /\ Flows(a)
    BY <2>1, InvertedIsSound, InvertedFlows
  <2>3. PICK b : b = SameTargets(a)
    OBVIOUS
  <2>4. Sound(b, n) /\ Flows(b)
    BY <2>2, <2>3, SameTargetsIsSound, SameTargetsFlows
  <2>5. PICK c : c = OneLabelInARow(b)
    OBVIOUS
  <2>6. Sound(c, n) /\ Flows(c)
    BY <2>4, <2>5, OneLabelInARowIsSound, OneLabelInARowFlows
  <2>7. Flows(AfterJump(c))
    BY <2>6, AfterJumpFlows
  <2> QED
    BY <2>1, <2>3, <2>5, <2>7 DEF CfgSimplify
<1> QED
  BY <1>1, <1>2, ForwardingFlows, DeadStoresFlows, ConstantsFlows, CopiesFlows,
     AlgebraFlows, UnreachableFlows, DeadCodeFlows DEF Rewritten

(* The passes are nine, by name.                                            *)
LEMMA PassNames ==
  {Passes[k] : k \in DOMAIN Passes} =
    {"forward", "dead stores", "constants", "copies", "algebra",
     "flow", "simplify", "unreachable", "dead code"}
<1> DEFINE R == {Passes[k] : k \in DOMAIN Passes}
           Names == {"forward", "dead stores", "constants", "copies", "algebra",
                     "flow", "simplify", "unreachable", "dead code"}
<1>1. DOMAIN Passes = 1..9
  BY DEF Passes
<1>2. /\ Passes[1] = "forward" /\ Passes[2] = "dead stores" /\ Passes[3] = "constants"
      /\ Passes[4] = "copies" /\ Passes[5] = "algebra" /\ Passes[6] = "flow"
      /\ Passes[7] = "simplify" /\ Passes[8] = "unreachable" /\ Passes[9] = "dead code"
  BY DEF Passes
<1>3. \A k \in 1..9 : k = 1 \/ k = 2 \/ k = 3 \/ k = 4 \/ k = 5 \/ k = 6 \/ k = 7 \/ k = 8 \/ k = 9
  OBVIOUS
<1>4. \A k \in 1..9 : Passes[k] \in Names
  BY <1>2, <1>3
<1>5. \A k \in 1..9 : Passes[k] \in R
  BY <1>1
<1>6. R \subseteq Names
  BY <1>1, <1>4
<1> HIDE DEF R
<1>7. /\ Passes[1] \in R /\ Passes[2] \in R /\ Passes[3] \in R /\ Passes[4] \in R /\ Passes[5] \in R
      /\ Passes[6] \in R /\ Passes[7] \in R /\ Passes[8] \in R /\ Passes[9] \in R
  BY <1>5
<1>8. R = Names
  BY <1>2, <1>6, <1>7
<1> QED
  BY <1>8 DEF R

(* What can be emitted still can after any of the nine passes, in whatever  *)
(* order they are run (opt.c:1366-1398; opt.h exports them one by one).     *)
THEOREM AnyPassKeepsEmittable ==
  ASSUME NEW f, Emittable(f), NEW pass \in {Passes[k] : k \in DOMAIN Passes}
  PROVE  Emittable([f EXCEPT !.code = Rewritten(pass, @)])
<1>1. pass \in {"forward", "dead stores", "constants", "copies", "algebra",
                "flow", "simplify", "unreachable", "dead code"}
  BY PassNames
<1>2. PICK n \in Nat \ {0} : n = f.vregs
  BY DEF Emittable
<1>3. PICK code : code = Rewritten(pass, f.code)
  OBVIOUS
<1>4. Sound(f.code, n)
  BY <1>2, CodeIsSound DEF Emittable
<1>5. CodeOf(code, n)
  BY <1>1, <1>3, <1>4, PassIsSound, SoundIsCode
<1>6. NothingUnsetIsRead(code) /\ SetOnce(code)
  <2>1. Flows(f.code)
    BY <1>4, SetReadsAreCertified DEF Emittable, Flows
  <2>2. Flows(code) /\ Sound(code, n)
    BY <1>1, <1>3, <1>4, <2>1, PassFlows, PassIsSound
  <2> QED
    BY <2>2, CertifiedReadsSet DEF Flows
<1>7. PICK g : g = [f EXCEPT !.code = code]
  OBVIOUS
<1>8. g.code = code /\ g.vregs = n /\ {"code", "vregs"} \subseteq DOMAIN g
  BY <1>2, <1>7 DEF Emittable
<1>9. Emittable(g)
  BY <1>5, <1>6, <1>8 DEF Emittable
<1> QED
  BY <1>3, <1>7, <1>9

(* The same of a step of the pipeline.                                      *)
LEMMA PassKeepsEmittable ==
  ASSUME Emittable(fn), NEW this \in {Passes[k] : k \in DOMAIN Passes}, NEW next, Pass(this, next)
  PROVE  Emittable(fn)'
BY AnyPassKeepsEmittable DEF Pass

(* The function can be emitted before every pass and after the last         *)
(* (opt.c:1366-1398), at every level and however folding calculates.        *)
THEOREM AlwaysEmittable == OptSpec => []Emittable(fn)
<1>1. OptInit => Emittable(fn)
  BY SourcesAssumption DEF OptInit
<1>2. Emittable(fn) /\ [OptNext]_optVars => Emittable(fn)'
  <2> SUFFICES ASSUME Emittable(fn), [OptNext]_optVars
               PROVE  Emittable(fn)'
    OBVIOUS
  <2>1. CASE ForwardStores
    BY <2>1, PassNames, PassKeepsEmittable DEF ForwardStores
  <2>2. CASE RemoveDeadStores
    BY <2>2, PassNames, PassKeepsEmittable DEF RemoveDeadStores
  <2>3. CASE PropagateConstants
    BY <2>3, PassNames, PassKeepsEmittable DEF PropagateConstants
  <2>4. CASE PropagateCopies
    BY <2>4, PassNames, PassKeepsEmittable DEF PropagateCopies
  <2>5. CASE SimplifyAlgebra
    BY <2>5, PassNames, PassKeepsEmittable DEF SimplifyAlgebra
  <2>6. CASE OptimizeFlow
    BY <2>6, PassNames, PassKeepsEmittable DEF OptimizeFlow
  <2>7. CASE SimplifyFlow
    BY <2>7, PassNames, PassKeepsEmittable DEF SimplifyFlow
  <2>8. CASE RemoveUnreachable
    BY <2>8, PassNames, PassKeepsEmittable DEF RemoveUnreachable
  <2>9. CASE RemoveDeadCode
    BY <2>9, PassNames, PassKeepsEmittable DEF RemoveDeadCode
  <2>10. CASE NextIteration
    BY <2>10 DEF NextIteration
  <2>11. CASE LastIteration
    BY <2>11 DEF LastIteration
  <2>12. CASE UNCHANGED optVars
    BY <2>12 DEF optVars
  <2> QED
    BY <2>1, <2>2, <2>3, <2>4, <2>5, <2>6, <2>7, <2>8, <2>9, <2>10, <2>11, <2>12 DEF OptNext
<1> QED
  BY <1>1, <1>2, PTL DEF OptSpec

(* Every jump of it has one label to go to, only a store to a local has an  *)
(* argument's place as its operand, and no path reads a register that       *)
(* nothing on it has set (opt.c:287-310, 1063-1097, 1151-1169, 1283-1356;   *)
(* codegen_x86.c:20-41, 195-219).                                           *)
THEOREM AlwaysCanBeEmitted == OptSpec => []CanBeEmitted
<1>1. Emittable(fn) => CanBeEmitted
  <2> SUFFICES ASSUME Emittable(fn)
               PROVE  CanBeEmitted
    OBVIOUS
  <2>1. PICK n : n = fn.vregs
    OBVIOUS
  <2>2. PICK code : code = fn.code
    OBVIOUS
  <2>3. n \in Nat \ {0} /\ Sound(code, n)
    BY <2>1, <2>2, CodeIsSound DEF Emittable
  <2>4. ASSUME NEW k \in DOMAIN code, code[k].op \in Jump
        PROVE  Cardinality({j \in DOMAIN code : IsLabel(code[j], code[k].label)}) = 1
    <3>1. PICK j \in DOMAIN code : IsLabel(code[j], code[k].label)
      BY <2>3, <2>4 DEF Sound, HasLabel
    <3>2. {m \in DOMAIN code : IsLabel(code[m], code[k].label)} = {j}
      BY <2>3, <3>1 DEF Sound, IsLabel
    <3> QED
      BY <3>2, FS_Singleton
  <2>5. ASSUME NEW k \in DOMAIN code, NEW v \in Operands(code[k])
        PROVE  v \in (IF code[k].op = "STORE_STACK" THEN -2 ELSE 0)..(n - 1)
    <3>1. InstructionOf(code[k], n)
      BY <2>3 DEF Sound
    <3> QED
      BY <2>5, <3>1 DEF InstructionOf, OperandOf, Operands
  <2>6. NothingUnsetIsRead(code)
    BY <2>2 DEF Emittable
  <2> QED
    BY <2>1, <2>2, <2>4, <2>5, <2>6 DEF CanBeEmitted
<1> QED
  BY <1>1, AlwaysEmittable, PTL

(* And no path runs off its end (opt.c:1172-1182, 1204-1213, 1283-1298).    *)
THEOREM AlwaysStaysInside == OptSpec => []StaysInside
<1>1. Emittable(fn) => StaysInside
  BY DEF Emittable, CodeOf, StaysInside
<1> QED
  BY <1>1, AlwaysEmittable, PTL
=============================================================================
