------------------------ MODULE MacroExpansionProofs ------------------------
(***************************************************************************)
(* That no macro is read twice at once (lexer.c:205-215, 551-557), for     *)
(* every table of macros and every text.                                   *)
(*                                                                         *)
(* Only the stack of the lexer on top changes, so what a lexer was told    *)
(* stays true of those below it while it reads: that is the invariant.     *)
(***************************************************************************)
EXTENDS MacroExpansion, SequenceTheorems, TLAPS

(* A sequence, whatever its elements are. *)
IsSequence(s) == s \in Seq({s[i] : i \in DOMAIN s})

Record(x) == x = [stack |-> x.stack, disabled |-> x.disabled, out |-> x.out, call |-> x.call]
CallRecord(c) == c = [macro |-> c.macro, args |-> c.args, done |-> c.done]
Buffer(b) == b = [text |-> b.text, pos |-> b.pos, macro |-> b.macro]

(* The macros one lexer reads are different, and it was not told to leave  *)
(* them alone; the macro it is about to push is another one.               *)
Separate(x) ==
  /\ \A c, d \in 2..Len(x.stack) : x.stack[c].macro = x.stack[d].macro => c = d
  /\ \A d \in 2..Len(x.stack) : x.stack[d].macro \notin Tokens(x.disabled)
  /\ x.call # NoCall => x.call.macro \notin Tokens(x.disabled) \cup ActiveIn(x)

Sound(x) ==
  /\ Record(x) /\ CallRecord(x.call)
  /\ IsSequence(x.stack) /\ x.stack # <<>> /\ IsSequence(x.disabled)
  /\ \A d \in DOMAIN x.stack : Buffer(x.stack[d])
  /\ Separate(x)

(* What a lexer with room in its list was told: all that is open below.    *)
Told(x, y) == Len(y.disabled) < MaxDepth => ActiveIn(x) \subseteq Tokens(y.disabled)

IInv ==
  /\ IsSequence(lexers) /\ lexers # <<>>
  /\ \A k \in DOMAIN lexers : Sound(lexers[k])
  /\ \A k, l \in DOMAIN lexers : k < l => Told(lexers[k], lexers[l])
  /\ \A k \in DOMAIN lexers : k < Len(lexers) => lexers[k].call # NoCall
-----------------------------------------------------------------------------
(* Sequences of whatever they are of.                                      *)

(* The length and the positions of a sequence.                              *)
LEMMA SequenceShape ==
  ASSUME NEW s, IsSequence(s)
  PROVE  Len(s) \in Nat /\ DOMAIN s = 1..Len(s) /\ (s # <<>> => Len(s) \in DOMAIN s)
BY DEF IsSequence

(* What the library calls a sequence is one.                                *)
LEMMA InSeqIsSequence ==
  ASSUME NEW S, NEW s \in Seq(S)
  PROVE  IsSequence(s)
<1>1. s = [i \in 1..Len(s) |-> s[i]] /\ Len(s) \in Nat /\ DOMAIN s = 1..Len(s)
  OBVIOUS
<1> DEFINE T == {s[i] : i \in DOMAIN s}
<1>2. \A i \in 1..Len(s) : s[i] \in T
  BY <1>1
<1> HIDE DEF T
<1>3. s \in Seq(T)
  BY <1>1, <1>2, IsASeq
<1> QED
  BY <1>3 DEF IsSequence, T

(* What Append makes, of elements of whatever kind.                         *)
LEMMA AppendIsSequence ==
  ASSUME NEW s, NEW x, IsSequence(s)
  PROVE  /\ IsSequence(Append(s, x)) /\ Append(s, x) # <<>>
         /\ Len(Append(s, x)) = Len(s) + 1
         /\ DOMAIN Append(s, x) = 1..(Len(s) + 1)
         /\ \A i \in 1..Len(s) : Append(s, x)[i] = s[i]
         /\ Append(s, x)[Len(s) + 1] = x
<1> DEFINE S == {s[i] : i \in DOMAIN s} \cup {x}
<1>1. s \in Seq(S) /\ x \in S
  BY DEF IsSequence
<1> HIDE DEF S
<1>2. /\ Append(s, x) \in Seq(S) /\ Append(s, x) # <<>>
      /\ Len(Append(s, x)) = Len(s) + 1
      /\ DOMAIN Append(s, x) = 1..(Len(s) + 1)
      /\ \A i \in 1..Len(s) : Append(s, x)[i] = s[i]
      /\ Append(s, x)[Len(s) + 1] = x
  BY <1>1, AppendProperties
<1>3. IsSequence(Append(s, x))
  BY <1>2, InSeqIsSequence
<1> QED
  BY <1>2, <1>3

(* The beginning of a sequence.                                             *)
LEMMA PrefixIsSequence ==
  ASSUME NEW s, IsSequence(s), NEW n \in 0..Len(s)
  PROVE  /\ IsSequence(SubSeq(s, 1, n)) /\ Len(SubSeq(s, 1, n)) = n
         /\ DOMAIN SubSeq(s, 1, n) = 1..n
         /\ \A i \in 1..n : SubSeq(s, 1, n)[i] = s[i]
<1>1. Len(SubSeq(s, 1, n)) = n /\ DOMAIN SubSeq(s, 1, n) = 1..n
      /\ \A i \in 1..n : SubSeq(s, 1, n)[i] = s[i]
  BY SequenceShape DEF IsSequence
<1>2. IsSequence(SubSeq(s, 1, n))
  <2> DEFINE S == {s[i] : i \in DOMAIN s}
  <2>1. s \in Seq(S) /\ n \in 0..Len(s)
    BY DEF IsSequence
  <2> HIDE DEF S
  <2>2. SubSeq(s, 1, n) \in Seq(S)
    BY <2>1
  <2> QED
    BY <2>2, InSeqIsSequence
<1> QED
  BY <1>1, <1>2

(* A sequence one of whose elements is replaced.                            *)
LEMMA ReplacedIsSequence ==
  ASSUME NEW s, NEW x, NEW t, NEW k, IsSequence(s), k \in DOMAIN s, t = [s EXCEPT ![k] = x]
  PROVE  /\ IsSequence(t) /\ t # <<>> /\ Len(t) = Len(s) /\ DOMAIN t = DOMAIN s
         /\ t[k] = x
         /\ \A i \in DOMAIN s : i # k => t[i] = s[i]
<1> DEFINE S == {s[i] : i \in DOMAIN s} \cup {x}
<1>1. s \in Seq(S) /\ x \in S /\ DOMAIN s = 1..Len(s) /\ Len(s) \in Nat
  BY SequenceShape DEF IsSequence
<1>2. t \in Seq(S) /\ Len(t) = Len(s) /\ DOMAIN t = 1..Len(s)
  BY <1>1, ExceptSeq
<1>3. t[k] = x /\ \A i \in DOMAIN s : i # k => t[i] = s[i]
  BY <1>1
<1>4. IsSequence(t)
  BY <1>2, InSeqIsSequence
<1>5. t # <<>>
  BY <1>1, <1>2
<1> QED
  BY <1>1, <1>2, <1>3, <1>4, <1>5

(* Two sequences one behind the other.                                      *)
LEMMA JoinedIsSequence ==
  ASSUME NEW s, NEW t, IsSequence(s), IsSequence(t)
  PROVE  /\ IsSequence(s \o t) /\ Len(s \o t) = Len(s) + Len(t)
         /\ DOMAIN (s \o t) = 1..(Len(s) + Len(t))
         /\ Tokens(s) \subseteq Tokens(s \o t) /\ Tokens(t) \subseteq Tokens(s \o t)
<1> DEFINE S == {s[i] : i \in DOMAIN s} \cup {t[i] : i \in DOMAIN t}
<1>1. s \in Seq(S) /\ t \in Seq(S)
  BY DEF IsSequence
<1>2. Len(s) \in Nat /\ Len(t) \in Nat /\ DOMAIN s = 1..Len(s) /\ DOMAIN t = 1..Len(t)
  BY SequenceShape
<1> HIDE DEF S
<1>3. /\ s \o t \in Seq(S) /\ Len(s \o t) = Len(s) + Len(t)
      /\ \A i \in 1..(Len(s) + Len(t)) : (s \o t)[i] = IF i <= Len(s) THEN s[i] ELSE t[i - Len(s)]
  BY <1>1, ConcatProperties
<1>4. DOMAIN (s \o t) = 1..(Len(s) + Len(t))
  BY <1>3
<1>5. IsSequence(s \o t)
  BY <1>3, InSeqIsSequence
<1>6. Tokens(s) \subseteq Tokens(s \o t)
  <2> SUFFICES ASSUME NEW i \in 1..Len(s)
               PROVE  \E j \in 1..(Len(s) + Len(t)) : (s \o t)[j] = s[i]
    BY <1>2, <1>4 DEF Tokens
  <2> QED
    BY <1>2, <1>3
<1>7. Tokens(t) \subseteq Tokens(s \o t)
  <2> SUFFICES ASSUME NEW i \in 1..Len(t)
               PROVE  \E j \in 1..(Len(s) + Len(t)) : (s \o t)[j] = t[i]
    BY <1>2, <1>4 DEF Tokens
  <2> DEFINE j == Len(s) + i
  <2>1. j \in 1..(Len(s) + Len(t)) /\ ~(j <= Len(s)) /\ j - Len(s) = i
    BY <1>2
  <2>2. (s \o t)[j] = t[i]
    BY <2>1, <1>3
  <2> QED
    BY <2>1, <2>2
<1> QED
  BY <1>3, <1>4, <1>5, <1>6, <1>7
-----------------------------------------------------------------------------
(* A lexer and what a step makes of it.                                    *)

(* There is a lexer on top and a buffer it reads, and both are as they      *)
(* should be.                                                               *)
LEMMA TopIsSound ==
  ASSUME IInv
  PROVE  /\ Len(lexers) \in DOMAIN lexers /\ Sound(Current)
         /\ Len(lexers) \in Nat /\ DOMAIN lexers = 1..Len(lexers)
         /\ Len(Current.stack) \in DOMAIN Current.stack
         /\ Len(Current.stack) \in Nat /\ DOMAIN Current.stack = 1..Len(Current.stack)
<1>1. Len(lexers) \in DOMAIN lexers /\ Len(lexers) \in Nat /\ DOMAIN lexers = 1..Len(lexers)
  BY SequenceShape DEF IInv
<1>2. Sound(Current)
  BY <1>1 DEF IInv, Current
<1>3. IsSequence(Current.stack) /\ Current.stack # <<>>
  BY <1>2 DEF Sound
<1> QED
  BY <1>1, <1>2, <1>3, SequenceShape

(* Nothing but the lexer on top changes, and its list does not. *)
LEMMA TopChanges ==
  ASSUME IInv, NEW x, Sound(x), x.disabled = Current.disabled, lexers' = Put(x)
  PROVE  IInv'
<1>1. /\ Len(lexers) \in Nat /\ DOMAIN lexers = 1..Len(lexers) /\ Len(lexers) \in DOMAIN lexers
      /\ Sound(Current)
  BY TopIsSound
<1>2. /\ IsSequence(lexers') /\ lexers' # <<>> /\ Len(lexers') = Len(lexers)
      /\ DOMAIN lexers' = DOMAIN lexers
      /\ lexers'[Len(lexers)] = x
      /\ \A i \in DOMAIN lexers : i # Len(lexers) => lexers'[i] = lexers[i]
  <2>1. IsSequence(lexers) /\ lexers' = [lexers EXCEPT ![Len(lexers)] = x]
    BY DEF IInv, Put
  <2> QED
    BY <1>1, <2>1, ReplacedIsSequence
<1>3. \A k \in DOMAIN lexers' : Sound(lexers'[k])
  BY <1>1, <1>2 DEF IInv
<1>4. \A k, l \in DOMAIN lexers' : k < l => Told(lexers'[k], lexers'[l])
  <2> SUFFICES ASSUME NEW k \in DOMAIN lexers, NEW l \in DOMAIN lexers, k < l
               PROVE  Told(lexers'[k], lexers'[l])
    BY <1>2
  <2>0. k # Len(lexers)
    BY <1>1
  <2>1. Told(lexers[k], lexers[l])
    BY <1>1 DEF IInv
  <2>2. lexers'[k] = lexers[k]
    BY <2>0, <1>2
  <2>3. lexers'[l].disabled = lexers[l].disabled
    BY <1>2 DEF Current
  <2> QED
    BY <2>1, <2>2, <2>3 DEF Told
<1>5. ASSUME NEW k \in DOMAIN lexers', k < Len(lexers')
      PROVE  lexers'[k].call # NoCall
  <2>1. k \in DOMAIN lexers /\ k < Len(lexers)
    BY <1>2, <1>5
  <2>2. k # Len(lexers)
    BY <1>1, <2>1
  <2>3. lexers'[k] = lexers[k]
    BY <1>2, <2>1, <2>2
  <2> QED
    BY <2>1, <2>3 DEF IInv
<1> QED
  BY <1>2, <1>3, <1>4, <1>5 DEF IInv

(* The same macros are open, and the call, if any, is of none of them. *)
Alike(x, y) ==
  /\ Record(y) /\ CallRecord(y.call)
  /\ IsSequence(y.stack) /\ Len(y.stack) = Len(x.stack) /\ y.stack # <<>>
  /\ \A d \in 1..Len(x.stack) : Buffer(y.stack[d]) /\ y.stack[d].macro = x.stack[d].macro
  /\ y.disabled = x.disabled
  /\ y.call # NoCall => y.call.macro \notin Tokens(x.disabled) \cup ActiveIn(x)

(* A lexer like a sound one is sound, and reads the same macros.            *)
LEMMA AlikeIsSound ==
  ASSUME NEW x, NEW y, Sound(x), Alike(x, y)
  PROVE  Sound(y) /\ ActiveIn(y) = ActiveIn(x)
<1>1. /\ Len(x.stack) \in Nat /\ DOMAIN x.stack = 1..Len(x.stack)
      /\ Len(y.stack) = Len(x.stack) /\ DOMAIN y.stack = 1..Len(x.stack)
  BY SequenceShape DEF Sound, Alike
<1>2. \A d \in 2..Len(x.stack) : y.stack[d].macro = x.stack[d].macro
  BY <1>1 DEF Alike
<1>3. ActiveIn(y) = ActiveIn(x)
  BY <1>1, <1>2 DEF ActiveIn
<1>4. Separate(y)
  <2>1. \A c, d \in 2..Len(y.stack) : y.stack[c].macro = y.stack[d].macro => c = d
    BY <1>1, <1>2 DEF Sound, Separate
  <2>2. \A d \in 2..Len(y.stack) : y.stack[d].macro \notin Tokens(y.disabled)
    BY <1>1, <1>2 DEF Sound, Separate, Alike
  <2>3. y.call # NoCall => y.call.macro \notin Tokens(y.disabled) \cup ActiveIn(y)
    BY <1>3 DEF Alike
  <2> QED
    BY <2>1, <2>2, <2>3 DEF Separate
<1>5. \A d \in DOMAIN y.stack : Buffer(y.stack[d])
  BY <1>1 DEF Alike
<1> QED
  BY <1>3, <1>4, <1>5 DEF Alike, Sound

(* Reading on in the top buffer. *)
LEMMA ReadingIsAlike ==
  ASSUME IInv, NEW p
  PROVE  /\ Record(ReadTo(p)) /\ IsSequence(ReadTo(p).stack) /\ ReadTo(p).stack # <<>>
         /\ Len(ReadTo(p).stack) = Len(Current.stack)
         /\ \A d \in 1..Len(Current.stack) :
              /\ Buffer(ReadTo(p).stack[d])
              /\ ReadTo(p).stack[d].macro = Current.stack[d].macro
         /\ ReadTo(p).disabled = Current.disabled /\ ReadTo(p).call = Current.call
         /\ ReadTo(p).out = Current.out
<1> DEFINE n == Len(Current.stack)
           b == [Current.stack[n] EXCEPT !.pos = p]
           s == [Current.stack EXCEPT ![n] = b]
<1>1. /\ Record(Current) /\ IsSequence(Current.stack) /\ n \in DOMAIN Current.stack
      /\ DOMAIN Current.stack = 1..n /\ n \in Nat
      /\ \A d \in DOMAIN Current.stack : Buffer(Current.stack[d])
  BY TopIsSound DEF Sound
<1>2. ReadTo(p) = [Current EXCEPT !.stack = s]
  BY DEF ReadTo
<1>3. Buffer(b) /\ b.macro = Current.stack[n].macro
  <2>1. Buffer(Current.stack[n])
    BY <1>1
  <2> QED
    BY <2>1 DEF Buffer
<1> HIDE DEF b
<1>4. s = [Current.stack EXCEPT ![n] = b]
  OBVIOUS
<1>8. n = Len(Current.stack)
  OBVIOUS
<1> HIDE DEF s, n
<1>7. /\ IsSequence(s) /\ s # <<>> /\ Len(s) = n
      /\ s[n] = b
      /\ \A d \in 1..n : d # n => s[d] = Current.stack[d]
  <2>1. IsSequence(Current.stack) /\ n \in DOMAIN Current.stack
    BY <1>1
  <2>2. /\ IsSequence(s) /\ s # <<>> /\ Len(s) = Len(Current.stack)
        /\ s[n] = b
        /\ \A d \in DOMAIN Current.stack : d # n => s[d] = Current.stack[d]
    BY <1>4, <2>1, ReplacedIsSequence
  <2> QED
    BY <1>1, <1>8, <2>2
<1>5. /\ Record(ReadTo(p)) /\ ReadTo(p).stack = s /\ ReadTo(p).disabled = Current.disabled
      /\ ReadTo(p).call = Current.call /\ ReadTo(p).out = Current.out
  BY <1>1, <1>2 DEF Record
<1>6. \A d \in 1..n : Buffer(s[d]) /\ s[d].macro = Current.stack[d].macro
  BY <1>1, <1>3, <1>7
<1> QED
  BY <1>7, <1>5, <1>6, <1>8

(* A buffer more, of a macro that is not open and not to be left alone. *)
LEMMA PushedIsSound ==
  ASSUME NEW x, Sound(x), NEW n, n \notin Tokens(x.disabled) \cup ActiveIn(x), x.call = NoCall, NEW text
  PROVE  LET y == [x EXCEPT !.stack = Append(@, [text |-> text, pos |-> 1, macro |-> n])]
         IN  Sound(y) /\ y.disabled = x.disabled
<1> DEFINE b == [text |-> text, pos |-> 1, macro |-> n]
           s == Append(x.stack, b)
           y == [x EXCEPT !.stack = s]
<1>1. /\ IsSequence(x.stack) /\ Record(x) /\ CallRecord(x.call)
      /\ IsSequence(x.disabled) /\ Len(x.stack) \in Nat /\ DOMAIN x.stack = 1..Len(x.stack)
  BY SequenceShape DEF Sound
<1>2. Buffer(b) /\ b.macro = n
  BY DEF Buffer
<1> HIDE DEF b
<1>3. /\ IsSequence(s) /\ s # <<>> /\ Len(s) = Len(x.stack) + 1
      /\ DOMAIN s = 1..(Len(x.stack) + 1)
      /\ \A i \in 1..Len(x.stack) : s[i] = x.stack[i]
      /\ s[Len(x.stack) + 1] = b
  BY <1>1, AppendIsSequence
<1> HIDE DEF s
<1>4. /\ Record(y) /\ y.stack = s /\ y.disabled = x.disabled /\ y.call = x.call
  BY <1>1 DEF Record
<1> HIDE DEF y
<1>5. \A d \in DOMAIN s : Buffer(s[d])
  BY <1>1, <1>2, <1>3 DEF Sound
<1>6. \A c \in 2..Len(x.stack) : s[c].macro = x.stack[c].macro /\ s[c].macro # n
  BY <1>1, <1>3 DEF ActiveIn
<1>7. \A c, d \in 2..Len(s) : s[c].macro = s[d].macro => c = d
  <2> SUFFICES ASSUME NEW c \in 2..(Len(x.stack) + 1), NEW d \in 2..(Len(x.stack) + 1),
                      s[c].macro = s[d].macro, c # d
               PROVE  FALSE
    BY <1>3
  <2>1. CASE c \in 2..Len(x.stack) /\ d \in 2..Len(x.stack)
    BY <2>1, <1>6 DEF Sound, Separate
  <2>2. CASE c = Len(x.stack) + 1 /\ d \in 2..Len(x.stack)
    BY <2>2, <1>6, <1>3, <1>2
  <2>3. CASE d = Len(x.stack) + 1 /\ c \in 2..Len(x.stack)
    BY <2>3, <1>6, <1>3, <1>2
  <2> QED
    BY <2>1, <2>2, <2>3, <1>1
<1>8. \A d \in 2..Len(s) : s[d].macro \notin Tokens(x.disabled)
  <2> SUFFICES ASSUME NEW d \in 2..(Len(x.stack) + 1)
               PROVE  s[d].macro \notin Tokens(x.disabled)
    BY <1>3
  <2>1. CASE d \in 2..Len(x.stack)
    BY <2>1, <1>6 DEF Sound, Separate
  <2>2. CASE d = Len(x.stack) + 1
    BY <2>2, <1>2, <1>3
  <2> QED
    BY <2>1, <2>2, <1>1
<1>9. Separate(y)
  BY <1>4, <1>7, <1>8 DEF Separate
<1>10. Sound(y)
  BY <1>1, <1>3, <1>4, <1>5, <1>9 DEF Sound
<1> QED
  BY <1>4, <1>10 DEF y, s, b
-----------------------------------------------------------------------------
(* The actions.                                                            *)

(* A token is given out or passed over (lexer.c:1900-1915): no macro opens  *)
(* or closes.                                                               *)
LEMMA EmitKeeps ==
  ASSUME IInv, NEW p, NEW o, Current.call = NoCall, lexers' = Put([ReadTo(p) EXCEPT !.out = o])
  PROVE  IInv'
<1> DEFINE r == ReadTo(p)
           x == [r EXCEPT !.out = o]
<1>1. Sound(Current)
  BY TopIsSound
<1>2. /\ Record(r) /\ IsSequence(r.stack) /\ r.stack # <<>>
      /\ Len(r.stack) = Len(Current.stack)
      /\ \A d \in 1..Len(Current.stack) :
           Buffer(r.stack[d]) /\ r.stack[d].macro = Current.stack[d].macro
      /\ r.disabled = Current.disabled /\ r.call = Current.call
  BY ReadingIsAlike
<1> HIDE DEF r
<1>3. Record(x) /\ x.stack = r.stack /\ x.disabled = r.disabled /\ x.call = r.call
  BY <1>2 DEF Record
<1>4. lexers' = Put(x)
  BY DEF r
<1> HIDE DEF x
<1>5. CallRecord(x.call) /\ x.call = NoCall
  BY <1>1, <1>2, <1>3 DEF Sound
<1>6. Alike(Current, x)
  BY <1>2, <1>3, <1>5 DEF Alike
<1>7. Sound(x) /\ x.disabled = Current.disabled
  BY <1>1, <1>2, <1>3, <1>6, AlikeIsSound
<1> QED
  BY <1>4, <1>7, TopChanges

(* A call begins (lexer.c:797-805) of a macro that is_macro_active did not  *)
(* find.                                                                    *)
LEMMA CallKeeps ==
  ASSUME IInv, NEW p, NEW n, NEW args, ~IsActive(n),
         lexers' = Put([ReadTo(p) EXCEPT !.call = [macro |-> n, args |-> args, done |-> <<>>]])
  PROVE  IInv'
<1> DEFINE r == ReadTo(p)
           c == [macro |-> n, args |-> args, done |-> <<>>]
           x == [r EXCEPT !.call = c]
<1>1. Sound(Current)
  BY TopIsSound
<1>2. /\ Record(r) /\ IsSequence(r.stack) /\ r.stack # <<>>
      /\ Len(r.stack) = Len(Current.stack)
      /\ \A d \in 1..Len(Current.stack) :
           Buffer(r.stack[d]) /\ r.stack[d].macro = Current.stack[d].macro
      /\ r.disabled = Current.disabled
  BY ReadingIsAlike
<1>3. CallRecord(c) /\ c.macro = n
  BY DEF CallRecord
<1>4. lexers' = Put(x)
  OBVIOUS
<1> HIDE DEF r, c
<1>5. Record(x) /\ x.stack = r.stack /\ x.disabled = r.disabled /\ x.call = c
  BY <1>2 DEF Record
<1> HIDE DEF x
<1>6. Alike(Current, x)
  BY <1>2, <1>3, <1>5 DEF Alike, IsActive
<1>7. Sound(x) /\ x.disabled = Current.disabled
  BY <1>1, <1>2, <1>5, <1>6, AlikeIsSound
<1> QED
  BY <1>4, <1>7, TopChanges

(* The macro of a call is the same when an argument is done. *)
LEMMA DoneIsAlike ==
  ASSUME NEW x, Sound(x), x.call # NoCall, NEW y, NEW o, y = [x EXCEPT !.call.done = o]
  PROVE  Sound(y) /\ y.disabled = x.disabled /\ ActiveIn(y) = ActiveIn(x)
<1> DEFINE c == [x.call EXCEPT !.done = o]
<1>1. y = [x EXCEPT !.call = c]
  OBVIOUS
<1>2. CallRecord(c) /\ c.macro = x.call.macro
  <2>1. CallRecord(x.call)
    BY DEF Sound
  <2> QED
    BY <2>1 DEF CallRecord
<1> HIDE DEF c
<1>3. Record(x)
  BY DEF Sound
<1>4. Record(y) /\ y.stack = x.stack /\ y.disabled = x.disabled /\ y.call = c
  BY <1>1, <1>3 DEF Record
<1>5. x.call.macro \notin Tokens(x.disabled) \cup ActiveIn(x)
  BY DEF Sound, Separate
<1>6. DOMAIN x.stack = 1..Len(x.stack)
  BY SequenceShape DEF Sound
<1>7. Alike(x, y)
  BY <1>2, <1>4, <1>5, <1>6 DEF Alike, Sound
<1> QED
  BY <1>4, <1>7, AlikeIsSound

(* A macro's text is pushed (lexer.c:267-284) that was neither open nor     *)
(* disabled.                                                                *)
LEMMA PushKeeps ==
  ASSUME IInv, NEW x, Sound(x), x.disabled = Current.disabled, x.call = NoCall,
         NEW n, n \notin Tokens(x.disabled) \cup ActiveIn(x), NEW text, Push(x, n, text)
  PROVE  IInv'
<1>1. CASE UNCHANGED lexers
  BY <1>1 DEF IInv
<1>2. CASE lexers' = Put([x EXCEPT !.stack = Append(@, [text |-> text, pos |-> 1, macro |-> n])])
  <2> DEFINE y == [x EXCEPT !.stack = Append(@, [text |-> text, pos |-> 1, macro |-> n])]
  <2>1. Sound(y) /\ y.disabled = x.disabled
    BY PushedIsSound
  <2>2. lexers' = Put(y)
    BY <1>2
  <2> HIDE DEF y
  <2> QED
    BY <2>1, <2>2, TopChanges
<1> QED
  BY <1>1, <1>2 DEF Push

(* A macro without parameters is expanded (lexer.c:635-638).                *)
LEMMA ExpandKeeps ==
  ASSUME IInv, ExpandObject
  PROVE  IInv'
<1> DEFINE x == ReadTo(Top.pos + 1)
           n == Token
<1>1. Sound(Current)
  BY TopIsSound
<1>2. Current.call = NoCall /\ n \notin Tokens(Current.disabled) \cup ActiveIn(Current)
  BY DEF ExpandObject, Reads, Expands, IsActive
<1>3. /\ Record(x) /\ IsSequence(x.stack) /\ x.stack # <<>>
      /\ Len(x.stack) = Len(Current.stack)
      /\ \A d \in 1..Len(Current.stack) :
           Buffer(x.stack[d]) /\ x.stack[d].macro = Current.stack[d].macro
      /\ x.disabled = Current.disabled /\ x.call = Current.call
  BY ReadingIsAlike
<1>4. Push(x, n, Macros[n].body)
  BY DEF ExpandObject
<1> HIDE DEF x, n
<1>5. CallRecord(x.call)
  BY <1>1, <1>3 DEF Sound
<1>6. Alike(Current, x)
  BY <1>2, <1>3, <1>5 DEF Alike
<1>7. Sound(x) /\ ActiveIn(x) = ActiveIn(Current)
  BY <1>1, <1>6, AlikeIsSound
<1> QED
  BY <1>2, <1>3, <1>4, <1>7, PushKeeps

(* A call's arguments are all there and its text is pushed                  *)
(* (lexer.c:807-818).                                                       *)
LEMMA SubstituteKeeps ==
  ASSUME IInv, Substitute
  PROVE  IInv'
<1> DEFINE x == [Current EXCEPT !.call = NoCall]
           n == Current.call.macro
           text == Filled(Macros[n], Current.call.done)
<1>1. Sound(Current) /\ Current.call # NoCall
  BY TopIsSound DEF Substitute, Calling
<1>2. n \notin Tokens(Current.disabled) \cup ActiveIn(Current)
  BY <1>1 DEF Sound, Separate
<1>3. Push(x, n, text)
  BY DEF Substitute
<1> HIDE DEF n, text
<1>4. Record(Current)
  BY <1>1 DEF Sound
<1>5. Record(x) /\ x.stack = Current.stack /\ x.disabled = Current.disabled /\ x.call = NoCall
  BY <1>4 DEF Record
<1> HIDE DEF x
<1>6. DOMAIN Current.stack = 1..Len(Current.stack)
  BY TopIsSound
<1>7. CallRecord(x.call)
  BY <1>5 DEF CallRecord, NoCall
<1>8. Alike(Current, x)
  BY <1>1, <1>5, <1>6, <1>7 DEF Alike, Sound
<1>9. Sound(x) /\ ActiveIn(x) = ActiveIn(Current)
  BY <1>1, <1>8, AlikeIsSound
<1> QED
  BY <1>2, <1>3, <1>5, <1>9, PushKeeps

(* A text is at its end and its macro is open no more (lexer.c:1815-1827).  *)
LEMMA LeaveKeeps ==
  ASSUME IInv, Leave
  PROVE  IInv'
<1> DEFINE n == Len(Current.stack)
           s == SubSeq(Current.stack, 1, n - 1)
           x == [Current EXCEPT !.stack = s]
<1>1. /\ Sound(Current) /\ Current.call = NoCall
      /\ n \in Nat /\ DOMAIN Current.stack = 1..n /\ n > 1
  BY TopIsSound DEF Leave, Reads
<1>2. Record(Current) /\ IsSequence(Current.stack) /\ CallRecord(Current.call)
      /\ IsSequence(Current.disabled)
  BY <1>1 DEF Sound
<1>3. lexers' = Put(x)
  BY DEF Leave
<1>4. /\ IsSequence(s) /\ Len(s) = n - 1 /\ DOMAIN s = 1..(n - 1)
      /\ \A i \in 1..(n - 1) : s[i] = Current.stack[i]
  <2>1. n - 1 \in 0..Len(Current.stack)
    BY <1>1
  <2> DEFINE m == n - 1
  <2>2. m \in 0..Len(Current.stack)
    BY <2>1
  <2> HIDE DEF m
  <2>3. /\ IsSequence(SubSeq(Current.stack, 1, m)) /\ Len(SubSeq(Current.stack, 1, m)) = m
        /\ DOMAIN SubSeq(Current.stack, 1, m) = 1..m
        /\ \A i \in 1..m : SubSeq(Current.stack, 1, m)[i] = Current.stack[i]
    BY <1>2, <2>2, PrefixIsSequence
  <2> QED
    BY <2>3 DEF m
<1> HIDE DEF s
<1>5. s # <<>>
  <2>0. \A k \in Nat : k > 1 => k - 1 # 0
    OBVIOUS
  <2>1. Len(s) # 0
    BY <1>1, <1>4, <2>0
  <2> QED
    BY <2>1
<1>6. Record(x) /\ x.stack = s /\ x.disabled = Current.disabled /\ x.call = Current.call
  BY <1>2 DEF Record
<1> HIDE DEF x
<1>7. \A d \in DOMAIN s : Buffer(s[d]) /\ d \in 1..n /\ s[d] = Current.stack[d]
  BY <1>1, <1>4 DEF Sound
<1>8. \A d \in 2..Len(s) : d \in 2..n /\ s[d] = Current.stack[d]
  BY <1>1, <1>4
<1>9. Separate(x)
  BY <1>1, <1>6, <1>8 DEF Separate, Sound
<1>10. Sound(x)
  BY <1>2, <1>4, <1>5, <1>6, <1>7, <1>9 DEF Sound
<1> QED
  BY <1>3, <1>6, <1>10, TopChanges

(* What the lexer of an argument is told: all there is room for. *)
LEMMA DisabledIsTold ==
  ASSUME IInv
  PROVE  /\ IsSequence(Disabled)
         /\ Len(Disabled) < MaxDepth =>
              /\ Len(Current.disabled) < MaxDepth
              /\ Tokens(Current.disabled) \cup ActiveIn(Current) \subseteq Tokens(Disabled)
<1> DEFINE n == Len(Current.stack)
           open == [d \in 1..(n - 1) |-> Current.stack[d + 1].macro]
           all == Current.disabled \o open
           room == IF Len(all) > MaxDepth THEN MaxDepth ELSE Len(all)
<1>1. /\ n \in Nat /\ n >= 1 /\ DOMAIN Current.stack = 1..n
      /\ IsSequence(Current.disabled) /\ MaxDepth \in Nat
  BY TopIsSound, DepthAssumption DEF Sound
<1>2. IsSequence(open) /\ Len(open) = n - 1 /\ Tokens(open) = ActiveIn(Current)
  <2>1. open \in Seq({Current.stack[d].macro : d \in 2..n})
    BY <1>1
  <2>2. IsSequence(open)
    BY <2>1, InSeqIsSequence
  <2>3. DOMAIN open = 1..(n - 1) /\ Len(open) = n - 1
    BY <1>1
  <2>4. Tokens(open) \subseteq ActiveIn(Current)
    <3> SUFFICES ASSUME NEW i \in 1..(n - 1)
                 PROVE  Current.stack[i + 1].macro \in ActiveIn(Current)
      BY <2>3 DEF Tokens
    <3>1. i + 1 \in 2..n
      BY <1>1
    <3> QED
      BY <3>1 DEF ActiveIn
  <2>5. ActiveIn(Current) \subseteq Tokens(open)
    <3> SUFFICES ASSUME NEW d \in 2..n
                 PROVE  Current.stack[d].macro \in Tokens(open)
      BY DEF ActiveIn
    <3>1. d - 1 \in 1..(n - 1) /\ (d - 1) + 1 = d
      BY <1>1
    <3>2. open[d - 1] = Current.stack[d].macro
      BY <3>1
    <3> QED
      BY <2>3, <3>1, <3>2 DEF Tokens
  <2> QED
    BY <2>2, <2>3, <2>4, <2>5
<1>3. Disabled = SubSeq(all, 1, room)
  BY DEF Disabled
<1> HIDE DEF open
<1>4. /\ IsSequence(all) /\ Len(all) = Len(Current.disabled) + Len(open)
      /\ Tokens(Current.disabled) \subseteq Tokens(all) /\ Tokens(open) \subseteq Tokens(all)
  BY <1>1, <1>2, JoinedIsSequence
<1>5. Len(all) \in Nat /\ DOMAIN all = 1..Len(all) /\ Len(Current.disabled) \in Nat
  BY <1>1, <1>4, SequenceShape
<1>6. room \in 0..Len(all)
  BY <1>1, <1>5
<1>7. room < MaxDepth => room = Len(all) /\ Len(Current.disabled) < MaxDepth
  <2>1. \A a, b, c, r, m \in Nat :
          /\ c = a + b /\ r = (IF c > m THEN m ELSE c) /\ r < m
          => r = c /\ a < m
    OBVIOUS
  <2>2. Len(open) \in Nat /\ room \in Nat
    BY <1>1, <1>2, <1>5, <1>6
  <2> QED
    BY <1>1, <1>4, <1>5, <2>1, <2>2
<1> HIDE DEF all, room
<1>8. /\ IsSequence(SubSeq(all, 1, room)) /\ Len(SubSeq(all, 1, room)) = room
      /\ DOMAIN SubSeq(all, 1, room) = 1..room
      /\ \A i \in 1..room : SubSeq(all, 1, room)[i] = all[i]
  BY <1>4, <1>6, PrefixIsSequence
<1>9. room = Len(all) => Tokens(all) \subseteq Tokens(Disabled)
  BY <1>3, <1>5, <1>8 DEF Tokens
<1> QED
  BY <1>2, <1>3, <1>4, <1>7, <1>8, <1>9

(* A new lexer reads an argument (lexer.c:545-560): it is told, as far as   *)
(* its list has room, of all that is open below.                            *)
LEMMA ReadArgumentKeeps ==
  ASSUME IInv, ReadArgument
  PROVE  IInv'
<1> DEFINE N == Len(lexers)
           text == Current.call.args[NextArgument]
           new == Lexer(text, Disabled)
<1>1. /\ N \in Nat /\ DOMAIN lexers = 1..N /\ N \in DOMAIN lexers /\ IsSequence(lexers)
      /\ Current.call # NoCall
  BY TopIsSound DEF ReadArgument, Calling, IInv
<1>2. lexers' = Append(lexers, new)
  BY DEF ReadArgument
<1>3. Sound(new) /\ new.disabled = Disabled
  <2> HIDE DEF text
  <2> DEFINE b == [text |-> text, pos |-> 1, macro |-> NoMacro]
  <2>1. /\ new.stack = <<b>> /\ new.disabled = Disabled /\ new.call = NoCall
        /\ Record(new)
    BY DEF Lexer, Record
  <2>2. Buffer(b)
    BY DEF Buffer
  <2> HIDE DEF b, new
  <2>3. <<b>> \in Seq({b}) /\ Len(<<b>>) = 1 /\ <<b>> # <<>> /\ DOMAIN <<b>> = {1} /\ <<b>>[1] = b
    OBVIOUS
  <2>4. IsSequence(new.stack) /\ new.stack # <<>> /\ \A d \in DOMAIN new.stack : Buffer(new.stack[d])
    BY <2>1, <2>2, <2>3, InSeqIsSequence
  <2>5. CallRecord(new.call)
    BY <2>1 DEF NoCall, CallRecord
  <2>6. Separate(new)
    BY <2>1, <2>3 DEF Separate
  <2> QED
    BY <2>1, <2>4, <2>5, <2>6, DisabledIsTold DEF Sound
<1> HIDE DEF new
<1>4. /\ IsSequence(lexers') /\ lexers' # <<>> /\ Len(lexers') = N + 1
      /\ DOMAIN lexers' = 1..(N + 1)
      /\ \A i \in 1..N : lexers'[i] = lexers[i]
      /\ lexers'[N + 1] = new
  BY <1>1, <1>2, AppendIsSequence
<1>5. \A k \in 1..(N + 1) : k \in 1..N \/ k = N + 1
  BY <1>1
<1>6. \A k \in DOMAIN lexers' : Sound(lexers'[k])
  BY <1>1, <1>3, <1>4, <1>5 DEF IInv
<1>7. ASSUME NEW k \in DOMAIN lexers', NEW l \in DOMAIN lexers', k < l
      PROVE  Told(lexers'[k], lexers'[l])
  <2>1. k \in 1..N
    BY <1>1, <1>4, <1>7
  <2>2. CASE l \in 1..N
    BY <1>1, <1>4, <1>7, <2>1, <2>2 DEF IInv
  <2>3. CASE l = N + 1
    <3>1. Told(lexers[k], Current) \/ k = N
      BY <1>1, <2>1 DEF IInv, Current
    <3>2. Told(lexers[k], new)
      <4>1. CASE k = N
        BY <4>1, <1>3, DisabledIsTold DEF Told, Current
      <4>2. CASE Told(lexers[k], Current)
        BY <4>2, <1>3, DisabledIsTold DEF Told
      <4> QED
        BY <3>1, <4>1, <4>2
    <3> QED
      BY <1>4, <2>1, <2>3, <3>2
  <2> QED
    BY <1>4, <1>5, <2>2, <2>3
<1>8. ASSUME NEW k \in DOMAIN lexers', k < Len(lexers')
      PROVE  lexers'[k].call # NoCall
  <2>1. k \in 1..N /\ lexers'[k] = lexers[k]
    BY <1>1, <1>4, <1>8
  <2>2. lexers[k].call # NoCall
    BY <1>1, <2>1 DEF IInv, Current
  <2> QED
    BY <2>1, <2>2
<1> QED
  BY <1>4, <1>6, <1>7, <1>8 DEF IInv

(* An argument is taken as it is written (lexer.c:800-801).                 *)
LEMMA TakeKeeps ==
  ASSUME IInv, TakeAsItIs
  PROVE  IInv'
<1> DEFINE o == Append(Current.call.done, Current.call.args[NextArgument])
           x == [Current EXCEPT !.call.done = o]
<1>1. Sound(Current) /\ Current.call # NoCall
  BY TopIsSound DEF TakeAsItIs, Calling
<1>2. Sound(x) /\ x.disabled = Current.disabled
  BY <1>1, DoneIsAlike
<1>3. lexers' = Put(x)
  BY DEF TakeAsItIs, Takes
<1> HIDE DEF x
<1> QED
  BY <1>2, <1>3, TopChanges

(* An argument has been read and its lexer goes (lexer.c:562-611).          *)
LEMMA ReturnKeeps ==
  ASSUME IInv, Return
  PROVE  IInv'
<1> DEFINE N == Len(lexers)
           m == N - 1
           below == SubSeq(lexers, 1, m)
           o == Append(below[m].call.done, Current.out)
           x == [lexers[m] EXCEPT !.call.done = o]
<1>1. /\ N \in Nat /\ DOMAIN lexers = 1..N /\ IsSequence(lexers) /\ N > 1
      /\ m \in 1..N /\ m < N /\ m \in 0..N
  BY TopIsSound DEF Return, IInv
<1> HIDE DEF m
<1>2. /\ IsSequence(below) /\ Len(below) = m /\ DOMAIN below = 1..m
      /\ \A i \in 1..m : below[i] = lexers[i]
  BY <1>1, PrefixIsSequence
<1>3. lexers' = [below EXCEPT ![Len(below)].call.done = o]
  BY <1>2 DEF Return, m
<1> HIDE DEF o, below
<1>4. m \in DOMAIN below /\ below[m] = lexers[m]
  BY <1>1, <1>2
<1>5. lexers' = [below EXCEPT ![m] = x]
  BY <1>2, <1>3, <1>4
<1>6. Sound(lexers[m]) /\ lexers[m].call # NoCall
  BY <1>1 DEF IInv
<1>7. Sound(x) /\ x.disabled = lexers[m].disabled /\ ActiveIn(x) = ActiveIn(lexers[m])
  BY <1>6, DoneIsAlike
<1> HIDE DEF x
<1>8. /\ IsSequence(lexers') /\ lexers' # <<>> /\ Len(lexers') = Len(below)
      /\ DOMAIN lexers' = DOMAIN below
      /\ lexers'[m] = x
      /\ \A i \in DOMAIN below : i # m => lexers'[i] = below[i]
  BY <1>2, <1>4, <1>5, ReplacedIsSequence
<1>9. /\ DOMAIN lexers' = 1..m /\ Len(lexers') = m
      /\ \A i \in 1..m : i \in DOMAIN lexers /\ (i # m => lexers'[i] = lexers[i])
  BY <1>1, <1>2, <1>8
<1>10. \A k \in DOMAIN lexers' : Sound(lexers'[k])
  BY <1>7, <1>8, <1>9 DEF IInv
<1>11. ASSUME NEW k \in DOMAIN lexers', NEW l \in DOMAIN lexers', k < l
       PROVE  Told(lexers'[k], lexers'[l])
  <2>1. k # m /\ lexers'[k] = lexers[k] /\ Told(lexers[k], lexers[l])
    BY <1>1, <1>9, <1>11 DEF IInv
  <2>2. lexers'[l].disabled = lexers[l].disabled
    BY <1>7, <1>8, <1>9
  <2> QED
    BY <2>1, <2>2 DEF Told
<1>12. ASSUME NEW k \in DOMAIN lexers', k < Len(lexers')
       PROVE  lexers'[k].call # NoCall
  <2>1. k # m /\ lexers'[k] = lexers[k] /\ k < N
    BY <1>1, <1>9, <1>12
  <2> QED
    BY <1>9, <2>1 DEF IInv
<1> QED
  BY <1>8, <1>10, <1>11, <1>12 DEF IInv
-----------------------------------------------------------------------------
(* One lexer that reads the text and no macro (lexer.c:18-45).              *)
LEMMA InitHasIInv == Init => IInv
<1> SUFFICES ASSUME Init
             PROVE  IInv
  OBVIOUS
<1> DEFINE b == [text |-> program.text, pos |-> 1, macro |-> NoMacro]
           x == Lexer(program.text, <<>>)
<1>1. /\ x.stack = <<b>> /\ x.disabled = <<>> /\ x.call = NoCall /\ Record(x)
      /\ lexers = <<x>>
  BY DEF Init, Lexer, Record
<1>2. Buffer(b)
  BY DEF Buffer
<1> HIDE DEF b, x
<1>3. \A y : /\ <<y>> \in Seq({y}) /\ Len(<<y>>) = 1 /\ <<y>> # <<>>
             /\ DOMAIN <<y>> = {1} /\ <<y>>[1] = y
  OBVIOUS
<1>4. <<>> \in Seq({})
  OBVIOUS
<1>5. IsSequence(x.stack) /\ IsSequence(x.disabled) /\ IsSequence(lexers)
  BY <1>1, <1>3, <1>4, InSeqIsSequence
<1>6. x.stack # <<>> /\ \A d \in DOMAIN x.stack : Buffer(x.stack[d])
  BY <1>1, <1>2, <1>3
<1>7. CallRecord(x.call)
  BY <1>1 DEF NoCall, CallRecord
<1>8. Separate(x)
  BY <1>1, <1>3 DEF Separate
<1>9. Sound(x)
  BY <1>1, <1>5, <1>6, <1>7, <1>8 DEF Sound
<1> QED
  BY <1>1, <1>3, <1>5, <1>9 DEF IInv

(* Every step of reading (lexer.c:613-820) keeps the lists apart.           *)
LEMMA StepKeepsIInv == IInv /\ [Next]_vars => IInv'
<1> SUFFICES ASSUME IInv, [Next]_vars
             PROVE  IInv'
  OBVIOUS
<1>1. CASE Emit
  BY <1>1, EmitKeeps DEF Emit, Reads
<1>2. CASE ExpandObject
  BY <1>2, ExpandKeeps
<1>3. CASE CallMisfits
  BY <1>3, EmitKeeps DEF CallMisfits, Reads
<1>4. CASE Call
  BY <1>4, CallKeeps DEF Call, Expands
<1>5. CASE TakeAsItIs
  BY <1>5, TakeKeeps
<1>6. CASE ReadArgument
  BY <1>6, ReadArgumentKeeps
<1>7. CASE Substitute
  BY <1>7, SubstituteKeeps
<1>8. CASE Leave
  BY <1>8, LeaveKeeps
<1>9. CASE Return
  BY <1>9, ReturnKeeps
<1>10. CASE Finish \/ UNCHANGED vars
  BY <1>10 DEF Finish, vars, IInv
<1> QED
  BY <1>1, <1>2, <1>3, <1>4, <1>5, <1>6, <1>7, <1>8, <1>9, <1>10 DEF Next

(* And lists that are apart have no macro twice (lexer.c:205-215).          *)
LEMMA IInvSeparates == IInv => NoMacroTwice
<1> SUFFICES ASSUME IInv, \A k \in DOMAIN lexers : Len(lexers[k].disabled) < MaxDepth,
                    NEW k \in DOMAIN lexers, NEW l \in DOMAIN lexers,
                    NEW c \in 2..Len(lexers[k].stack), NEW d \in 2..Len(lexers[l].stack),
                    lexers[k].stack[c].macro = lexers[l].stack[d].macro
             PROVE  k = l /\ c = d
  BY DEF NoMacroTwice
<1>1. DOMAIN lexers = 1..Len(lexers) /\ Len(lexers) \in Nat
  BY TopIsSound
<1>2. CASE k = l
  BY <1>2 DEF IInv, Sound, Separate
<1>3. CASE k < l
  <2>1. lexers[k].stack[c].macro \in Tokens(lexers[l].disabled)
    BY <1>3 DEF IInv, Told, ActiveIn
  <2> QED
    BY <2>1 DEF IInv, Sound, Separate
<1>4. CASE l < k
  <2>1. lexers[l].stack[d].macro \in Tokens(lexers[k].disabled)
    BY <1>4 DEF IInv, Told, ActiveIn
  <2> QED
    BY <2>1 DEF IInv, Sound, Separate
<1> QED
  BY <1>1, <1>2, <1>3, <1>4

(* However calls nest, in bodies and in arguments, no macro is being read  *)
(* twice at once while every list of disabled macros has room              *)
(* (lexer.c:205-215, 551-557): expansion cannot run into itself.           *)
THEOREM NothingExpandsInItself == Spec => []NoMacroTwice
<1>1. Init => IInv
  BY InitHasIInv
<1>2. IInv /\ [Next]_vars => IInv'
  BY StepKeepsIInv
<1>3. IInv => NoMacroTwice
  BY IInvSeparates
<1> QED
  BY <1>1, <1>2, <1>3, PTL DEF Spec
=============================================================================
