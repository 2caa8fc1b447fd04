---------------------------- MODULE LogStoreProofs ---------------------------
(***************************************************************************)
(* Theorems about the log store, for every size of the cache and of the    *)
(* queue of deferred writes and every interval between flushes.            *)
(***************************************************************************)
EXTENDS LogStore, SequenceTheorems, FiniteSetTheorems, TLAPS

-----------------------------------------------------------------------------
(* Sequences of messages                                                   *)

\* no message stands LOG_FRAMES or more behind one that follows it
Ordered(s) == \A p \in 1 .. Len(s) : \A q \in p .. Len(s) : s[p] - s[q] < LogFrames

(***************************************************************************)
(* The members of a sequence of messages are messages.                     *)
(***************************************************************************)
LEMMA Members ==
    ASSUME NEW S, NEW s \in Seq(S)
    PROVE  ToSet(s) \subseteq S
<1>1. DOMAIN s = 1 .. Len(s) /\ \A i \in 1 .. Len(s) : s[i] \in S
  BY LenProperties, ElementOfSeq
<1> QED
  BY <1>1 DEF ToSet

(***************************************************************************)
(* Concatenation is associative.                                           *)
(***************************************************************************)
LEMMA Regrouped ==
    \A s, t, u \in Seq(Nat) : s \o (t \o u) = (s \o t) \o u
OBVIOUS

(***************************************************************************)
(* Part of a stream, in its order, has no message twice either, and is     *)
(* as well ordered.                                                        *)
(***************************************************************************)
LEMMA Thinned ==
    ASSUME NEW s \in Seq(Nat), NEW t \in Seq(Nat), IsInjective(s), Ordered(s),
           NEW e \in [1 .. Len(t) -> 1 .. Len(s)],
           \A i \in 1 .. Len(t) : t[i] = s[e[i]],
           \A i, j \in 1 .. Len(t) : i < j => e[i] < e[j]
    PROVE  IsInjective(t) /\ Ordered(t) /\ ToSet(t) \subseteq ToSet(s)
<1>1. /\ Len(s) \in Nat /\ DOMAIN s = 1 .. Len(s)
      /\ Len(t) \in Nat /\ DOMAIN t = 1 .. Len(t)
  BY LenProperties
<1>2. IsInjective(t)
  <2> SUFFICES ASSUME NEW i \in 1 .. Len(t), NEW j \in 1 .. Len(t), t[i] = t[j]
               PROVE  i = j
    BY <1>1 DEF IsInjective
  <2>1. e[i] = e[j]
    BY <1>1 DEF IsInjective
  <2>2. ~(i < j) /\ ~(j < i)
    BY <2>1
  <2> QED
    BY <2>2
<1>3. Ordered(t)
  <2> SUFFICES ASSUME NEW p \in 1 .. Len(t), NEW q \in p .. Len(t)
               PROVE  t[p] - t[q] < LogFrames
    BY DEF Ordered
  <2>1. q \in 1 .. Len(t)
    BY <1>1
  <2>2. p = q \/ p < q
    BY <1>1
  <2>3. e[p] \in 1 .. Len(s) /\ e[q] \in e[p] .. Len(s)
    <3>1. e[p] \in 1 .. Len(s) /\ e[q] \in 1 .. Len(s)
      BY <2>1
    <3> QED
      BY <1>1, <2>1, <2>2, <3>1
  <2> QED
    BY <2>1, <2>3 DEF Ordered
<1>4. ToSet(t) \subseteq ToSet(s)
  BY <1>1 DEF ToSet
<1> QED
  BY <1>2, <1>3, <1>4

(***************************************************************************)
(* Messages of the last LOG_FRAMES written may follow a stream that has    *)
(* none of them.                                                           *)
(***************************************************************************)
LEMMA Extended ==
    ASSUME NEW n \in Nat, NEW s \in Seq(1 .. n), NEW b \in Seq(1 .. n),
           IsInjective(s), IsInjective(b), ToSet(s) \cap ToSet(b) = {},
           Ordered(s), \A i \in 1 .. Len(b) : n - b[i] < LogFrames
    PROVE  /\ s \o b \in Seq(1 .. n) /\ IsInjective(s \o b) /\ Ordered(s \o b)
           /\ ToSet(s \o b) = ToSet(s) \cup ToSet(b)
<1> DEFINE t == s \o b
<1>1. /\ t \in Seq(1 .. n) /\ Len(t) = Len(s) + Len(b)
      /\ \A i \in 1 .. Len(s) + Len(b) : t[i] = IF i <= Len(s) THEN s[i] ELSE b[i - Len(s)]
  BY ConcatProperties
<1>2. /\ Len(s) \in Nat /\ DOMAIN s = 1 .. Len(s)
      /\ Len(b) \in Nat /\ DOMAIN b = 1 .. Len(b)
      /\ DOMAIN t = 1 .. Len(s) + Len(b)
  BY <1>1, LenProperties
<1>3. /\ \A i \in 1 .. Len(s) : s[i] \in 1 .. n /\ s[i] \in ToSet(s)
      /\ \A i \in 1 .. Len(b) : b[i] \in 1 .. n /\ b[i] \in ToSet(b)
  BY <1>2, ElementOfSeq DEF ToSet
<1> HIDE DEF t
<1>4. \A i \in 1 .. Len(t) : \/ i \in 1 .. Len(s) /\ t[i] = s[i]
                             \/ i > Len(s) /\ i - Len(s) \in 1 .. Len(b) /\ t[i] = b[i - Len(s)]
  BY <1>1, <1>2
<1>5. IsInjective(t)
  <2> SUFFICES ASSUME NEW i \in 1 .. Len(t), NEW j \in 1 .. Len(t), t[i] = t[j]
               PROVE  i = j
    BY <1>1, <1>2 DEF IsInjective
  <2>1. CASE i \in 1 .. Len(s) /\ t[i] = s[i] /\ j \in 1 .. Len(s) /\ t[j] = s[j]
    BY <1>2, <2>1 DEF IsInjective
  <2>2. CASE /\ i > Len(s) /\ i - Len(s) \in 1 .. Len(b) /\ t[i] = b[i - Len(s)]
             /\ j > Len(s) /\ j - Len(s) \in 1 .. Len(b) /\ t[j] = b[j - Len(s)]
    <3>1. i - Len(s) = j - Len(s)
      BY <1>2, <2>2 DEF IsInjective
    <3> QED
      BY <1>2, <2>2, <3>1
  <2> QED
    BY <1>3, <1>4, <2>1, <2>2
<1>6. Ordered(t)
  <2> SUFFICES ASSUME NEW p \in 1 .. Len(t), NEW q \in p .. Len(t)
               PROVE  t[p] - t[q] < LogFrames
    BY DEF Ordered
  <2>1. q \in 1 .. Len(t) /\ p <= q
    BY <1>1, <1>2
  <2>2. t[p] \in 1 .. n
    BY <1>3, <1>4
  <2>3. CASE q \in 1 .. Len(s) /\ t[q] = s[q]
    <3>1. p \in 1 .. Len(s) /\ q \in p .. Len(s)
      BY <1>2, <2>1, <2>3
    <3> QED
      BY <1>1, <1>2, <2>3, <3>1 DEF Ordered
  <2>4. CASE q - Len(s) \in 1 .. Len(b) /\ t[q] = b[q - Len(s)]
    <3>1. b[q - Len(s)] \in 1 .. n /\ n - b[q - Len(s)] < LogFrames
      BY <1>3, <2>4
    <3> QED
      BY <2>2, <2>4, <3>1, LogStoreAssumption
  <2> QED
    BY <1>4, <2>1, <2>3, <2>4
<1>7. ToSet(t) = ToSet(s) \cup ToSet(b)
  <2>1. ASSUME NEW m \in ToSet(t) PROVE m \in ToSet(s) \cup ToSet(b)
    <3>1. PICK i \in 1 .. Len(t) : m = t[i]
      BY <1>1, <1>2, <2>1 DEF ToSet
    <3> QED
      BY <1>3, <1>4, <3>1
  <2>2. ASSUME NEW i \in 1 .. Len(s) PROVE s[i] \in ToSet(t)
    <3>1. i \in 1 .. Len(s) + Len(b) /\ t[i] = s[i]
      BY <1>1, <1>2
    <3> QED
      BY <1>2, <3>1 DEF ToSet
  <2>3. ASSUME NEW i \in 1 .. Len(b) PROVE b[i] \in ToSet(t)
    <3>1. i + Len(s) \in 1 .. Len(s) + Len(b) /\ ~(i + Len(s) <= Len(s)) /\ i + Len(s) - Len(s) = i
      BY <1>2
    <3>2. t[i + Len(s)] = b[i]
      BY <1>1, <3>1
    <3> QED
      BY <1>2, <3>1, <3>2 DEF ToSet
  <2> QED
    BY <1>2, <2>1, <2>2, <2>3 DEF ToSet
<1> QED
  BY <1>1, <1>5, <1>6, <1>7 DEF t

(***************************************************************************)
(* flash_queue_push takes the first entries for which there is room, and   *)
(* what it drops is counted as trouble.                                    *)
(***************************************************************************)
LEMMA Pushed ==
    ASSUME NEW M, flash_queue \in Seq(M), Len(flash_queue) <= FlashQueueSize,
           NEW entries \in Seq(M), Push(entries)
    PROVE  \E b \in Seq(M) :
               /\ flash_queue' = flash_queue \o b /\ Len(flash_queue') <= FlashQueueSize
               /\ Len(b) <= Len(entries) /\ \A i \in 1 .. Len(b) : b[i] = entries[i]
               /\ b # entries => trouble'
<1> DEFINE q == flash_queue  all == q \o entries
<1>1. /\ all \in Seq(M) /\ Len(all) = Len(q) + Len(entries)
      /\ \A i \in 1 .. Len(q) + Len(entries) : all[i] = IF i <= Len(q) THEN q[i] ELSE entries[i - Len(q)]
  BY ConcatProperties
<1>2. Len(q) \in Nat /\ Len(entries) \in Nat /\ FlashQueueSize \in Nat
  BY LenProperties, LogStoreAssumption
<1>3. CASE ~(Len(all) > FlashQueueSize)
  <2>1. flash_queue' = all
    BY <1>3 DEF Push
  <2> QED
    BY <1>1, <1>2, <1>3, <2>1
<1>4. CASE Len(all) > FlashQueueSize
  <2> DEFINE n == FlashQueueSize - Len(q)  b == SubSeq(entries, 1, n)  r == SubSeq(all, 1, FlashQueueSize)
  <2>1. flash_queue' = r /\ trouble'
    BY <1>4 DEF Push
  <2>2. n \in 0 .. Len(entries)
    BY <1>1, <1>2, <1>4
  <2>3. b \in Seq(M) /\ Len(b) = n /\ \A i \in 1 .. n : b[i] = entries[i]
    <3>1. \A i \in 1 .. n : entries[i] \in M
      BY <1>2, <2>2, ElementOfSeq
    <3> HIDE DEF n
    <3>2. /\ b \in Seq(M) /\ Len(b) = IF 1 <= n THEN n - 1 + 1 ELSE 0
          /\ \A i \in 1 .. n - 1 + 1 : b[i] = entries[1 + i - 1]
      BY <2>2, <3>1, SubSeqProperties
    <3> QED
      BY <1>2, <2>2, <3>2
  <2>4. r \in Seq(M) /\ Len(r) = FlashQueueSize /\ \A i \in 1 .. FlashQueueSize : r[i] = all[i]
    <3>1. \A i \in 1 .. FlashQueueSize : all[i] \in M
      BY <1>1, <1>2, <1>4, ElementOfSeq
    <3> HIDE DEF all
    <3>2. /\ r \in Seq(M) /\ Len(r) = IF 1 <= FlashQueueSize THEN FlashQueueSize - 1 + 1 ELSE 0
          /\ \A i \in 1 .. FlashQueueSize - 1 + 1 : r[i] = all[1 + i - 1]
      BY <1>2, <3>1, SubSeqProperties
    <3> QED
      BY <1>2, <3>2
  <2> HIDE DEF b, r
  <2>5. /\ q \o b \in Seq(M) /\ Len(q \o b) = Len(q) + n
        /\ \A i \in 1 .. Len(q) + n : (q \o b)[i] = IF i <= Len(q) THEN q[i] ELSE b[i - Len(q)]
    BY <2>3, ConcatProperties
  <2>6. r = q \o b
    <3>1. Len(q) + n = FlashQueueSize
      BY <1>2
    <3>2. ASSUME NEW i \in 1 .. FlashQueueSize PROVE r[i] = (q \o b)[i]
      <4>1. i \in 1 .. Len(q) + Len(entries) /\ i \in 1 .. Len(q) + n
        BY <1>1, <1>2, <1>4, <3>1
      <4>2. CASE i <= Len(q)
        BY <1>1, <2>4, <2>5, <4>1, <4>2
      <4>3. CASE ~(i <= Len(q))
        <5>1. i - Len(q) \in 1 .. n
          BY <1>2, <3>1, <4>3
        <5>2. r[i] = entries[i - Len(q)]
          BY <1>1, <2>4, <4>1, <4>3
        <5>3. (q \o b)[i] = b[i - Len(q)]
          BY <2>5, <4>1, <4>3
        <5> QED
          BY <2>3, <5>1, <5>2, <5>3
      <4> QED
        BY <4>2, <4>3
    <3> HIDE DEF n, q, all
    <3> QED
      BY <2>4, <2>5, <3>1, <3>2, SeqEqual
  <2> QED
    <3>1. n <= Len(entries)
      BY <2>2
    <3> HIDE DEF n
    <3>2. \A i \in 1 .. Len(b) : b[i] = entries[i]
      BY <2>3
    <3>3. flash_queue' = flash_queue \o b
      BY <2>1, <2>6
    <3>4. Len(flash_queue') <= FlashQueueSize
      BY <1>2, <2>1, <2>4
    <3>5. Len(b) <= Len(entries) /\ b \in Seq(M)
      BY <2>3, <3>1
    <3> QED
      BY <2>1, <3>2, <3>3, <3>4, <3>5
<1> QED
  BY <1>3, <1>4

-----------------------------------------------------------------------------
(* The page cache                                                          *)

\* The valid pages hold the messages written last, each once, without a gap,
\* and only a valid page is dirty.
CacheInv ==
    /\ \A f \in Frames : frames[f].dirty => frames[f].valid
    /\ \A f \in Frames : frames[f].valid => frames[f].last_use \in 1 .. timer_counter
    /\ \A f, g \in Frames :
           frames[f].valid /\ frames[g].valid /\ frames[f].last_use = frames[g].last_use => f = g
    /\ \A f \in Frames : frames[f].valid =>
           \A m \in frames[f].last_use .. timer_counter :
               \E g \in Frames : frames[g].valid /\ frames[g].last_use = m

(***************************************************************************)
(* Every set of natural numbers that is not empty has a smallest element.  *)
(***************************************************************************)
LEMMA SmallestNat ==
    ASSUME NEW S \in SUBSET Nat, S # {}
    PROVE  \E x \in S : \A y \in S : x <= y
<1>1. PICK x \in S : \A y \in S : ~(<<y, x>> \in OpToRel(<, Nat))
  BY WFMin, NatLessThanWellFounded
<1>2. \A y \in S : ~(y < x)
  BY <1>1 DEF OpToRel
<1> QED
  BY <1>2

(***************************************************************************)
(* find_unused_frame returns a frame: a free one when there is one, else   *)
(* one that was used no later than any other.                              *)
(***************************************************************************)
LEMMA UnusedFrameIsUnused ==
    ASSUME LogTypeOK
    PROVE  /\ UnusedFrame \in Frames
           /\ FreeFrames # {} => ~frames[UnusedFrame].valid
           /\ FreeFrames = {} => LeastUsed(UnusedFrame)
<1>0. Frames \in SUBSET Nat /\ 1 \in Frames
  BY LogStoreAssumption DEF Frames
<1>1. ASSUME NEW S \in SUBSET Frames, S # {} PROVE Lowest(S) \in S
  <2>1. \E x \in S : \A y \in S : x <= y
    BY <1>0, <1>1, SmallestNat
  <2> QED
    BY <2>1 DEF Lowest
<1>2. Victims # {}
  <2> DEFINE uses == {frames[f].last_use : f \in Frames}
  <2>1. uses \in SUBSET Nat /\ uses # {}
    BY <1>0 DEF LogTypeOK
  <2>2. \E m \in uses : \A k \in uses : m <= k
    BY <2>1, SmallestNat
  <2> QED
    BY <2>2 DEF Victims, LeastUsed
<1>3. CASE FreeFrames # {}
  <2>1. FreeFrames \in SUBSET Frames
    BY DEF FreeFrames
  <2>2. UnusedFrame \in FreeFrames
    BY <1>1, <1>3, <2>1 DEF UnusedFrame
  <2> QED
    BY <1>3, <2>2 DEF FreeFrames
<1>4. CASE FreeFrames = {}
  <2>1. Victims \in SUBSET Frames
    BY DEF Victims
  <2>2. UnusedFrame \in Victims
    BY <1>1, <1>2, <1>4, <2>1 DEF UnusedFrame
  <2> QED
    BY <1>4, <2>2 DEF Victims
<1> QED
  BY <1>3, <1>4

(***************************************************************************)
(* A message in the cache is one of the LOG_FRAMES messages written last:  *)
(* those from it to the last one are in frames of their own.               *)
(***************************************************************************)
LEMMA Capacity ==
    ASSUME LogTypeOK, CacheInv, NEW f \in Frames, frames[f].valid
    PROVE  timer_counter - frames[f].last_use < LogFrames
<1> DEFINE m == frames[f].last_use  S == m .. timer_counter
           at == [k \in S |-> CHOOSE g \in Frames : frames[g].valid /\ frames[g].last_use = k]
<1>1. \A k \in S : \E g \in Frames : frames[g].valid /\ frames[g].last_use = k
  BY DEF CacheInv
<1>2. \A k \in S : at[k] \in Frames /\ frames[at[k]].last_use = k
  BY <1>1
<1>3. at \in Injection(S, Frames)
  <2>1. at \in [S -> Frames]
    BY <1>2
  <2> HIDE DEF at
  <2>2. \A j, k \in S : at[j] = at[k] => j = k
    BY <1>2
  <2> QED
    BY <2>1, <2>2 DEF Injection, IsInjective
<1>4. m \in 1 .. timer_counter /\ timer_counter \in Nat /\ LogFrames \in Nat
  BY LogStoreAssumption DEF LogTypeOK, CacheInv
<1>5. IsFiniteSet(Frames) /\ Cardinality(Frames) = LogFrames
  BY <1>4, LogStoreAssumption, FS_Interval DEF Frames
<1>6. Cardinality(S) = timer_counter - m + 1
  BY <1>4, FS_Interval
<1>7. Cardinality(S) <= Cardinality(Frames)
  BY <1>3, <1>5, FS_Injection
<1> QED
  BY <1>4, <1>5, <1>6, <1>7

(***************************************************************************)
(* Writing a message keeps the cache as described, and takes no dirty page *)
(* but the one it hands to the queue.                                      *)
(***************************************************************************)
LEMMA CacheWrite ==
    ASSUME LogTypeOK, CacheInv, LogWrite
    PROVE  /\ (CacheInv)'
           /\ frames' \in [Frames -> [valid : BOOLEAN, dirty : BOOLEAN, last_use : 0 .. timer_counter']]
           /\ ToSet(Evicted) \subseteq Dirty
           /\ (Dirty)' = (Dirty \ ToSet(Evicted)) \cup {timer_counter'}
           /\ Evicted \in Seq(1 .. timer_counter) /\ Len(Evicted) <= 1
<1> DEFINE u == UnusedFrame
           page == [valid |-> TRUE, dirty |-> TRUE, last_use |-> timer_counter']
<1>1. /\ u \in Frames
      /\ FreeFrames # {} => ~frames[u].valid
      /\ FreeFrames = {} => LeastUsed(u)
  BY UnusedFrameIsUnused
<1>2. /\ timer_counter \in Nat /\ timer_counter' = timer_counter + 1
      /\ frames' = [frames EXCEPT ![u] = page]
  BY DEF LogWrite, LogTypeOK, LogStoreAssumption
<1>t. \A f \in Frames : /\ frames[f].valid \in BOOLEAN /\ frames[f].dirty \in BOOLEAN
                        /\ frames[f].last_use \in 0 .. timer_counter
  BY DEF LogTypeOK
<1>3. /\ frames'[u] = page
      /\ \A f \in Frames : f # u => frames'[f] = frames[f]
  BY <1>1, <1>2 DEF LogTypeOK
<1> HIDE DEF u
<1>4. frames' \in [Frames -> [valid : BOOLEAN, dirty : BOOLEAN, last_use : 0 .. timer_counter']]
  <2>1. page \in [valid : BOOLEAN, dirty : BOOLEAN, last_use : 0 .. timer_counter']
    BY <1>2
  <2>2. frames \in [Frames -> [valid : BOOLEAN, dirty : BOOLEAN, last_use : 0 .. timer_counter']]
    BY <1>2 DEF LogTypeOK
  <2> HIDE DEF page
  <2> QED
    BY <1>2, <2>1, <2>2
<1>5. \A f \in Frames : frames'[f].dirty => frames'[f].valid
  BY <1>3 DEF CacheInv
<1>6. \A f \in Frames : frames'[f].valid => frames'[f].last_use \in 1 .. timer_counter'
  <2> TAKE f \in Frames
  <2>1. CASE f = u
    BY <1>2, <1>3, <2>1
  <2>2. CASE f # u
    <3>1. frames[f].valid => frames[f].last_use \in 1 .. timer_counter
      BY DEF CacheInv
    <3> QED
      BY <1>2, <1>3, <2>2, <3>1
  <2> QED
    BY <2>1, <2>2
<1>7. ASSUME NEW f \in Frames, NEW g \in Frames,
             frames'[f].valid, frames'[g].valid, frames'[f].last_use = frames'[g].last_use
      PROVE  f = g
  <2>1. CASE f # u /\ g # u
    BY <1>3, <1>7, <2>1 DEF CacheInv
  <2>2. \A h \in Frames : h # u => frames'[h].last_use # timer_counter'
    BY <1>2, <1>3, <1>t
  <2> QED
    BY <1>3, <1>7, <2>1, <2>2
<1>8. ASSUME NEW f \in Frames, frames'[f].valid, NEW m \in frames'[f].last_use .. timer_counter'
      PROVE  \E g \in Frames : frames'[g].valid /\ frames'[g].last_use = m
  <2>1. CASE m = timer_counter'
    BY <1>1, <1>3, <2>1
  <2>2. CASE m # timer_counter'
    <3>1. f # u
      BY <1>2, <1>3, <2>2
    <3>2. frames[f].valid /\ m \in frames[f].last_use .. timer_counter
      BY <1>2, <1>3, <1>8, <2>2, <3>1, <1>t
    <3>3. PICK g \in Frames : frames[g].valid /\ frames[g].last_use = m
      BY <3>2 DEF CacheInv
    <3>4. g # u
      <4>1. CASE FreeFrames # {}
        BY <1>1, <3>3, <4>1
      <4>2. CASE FreeFrames = {}
        <5>1. frames[u].valid
          BY <1>1, <1>t, <4>2 DEF FreeFrames
        <5>2. frames[u].last_use <= frames[f].last_use /\ frames[u].last_use # frames[f].last_use
          BY <1>1, <3>1, <3>2, <4>2, <5>1 DEF LeastUsed, CacheInv
        <5> QED
          BY <1>1, <1>t, <3>2, <3>3, <5>2
      <4> QED
        BY <4>1, <4>2
    <3> QED
      BY <1>3, <3>3, <3>4
  <2> QED
    BY <2>1, <2>2
<1>9. (CacheInv)'
  BY <1>5, <1>6, <1>7, <1>8 DEF CacheInv, Frames
<1>10. ToSet(Evicted) = IF frames[u].dirty THEN {frames[u].last_use} ELSE {}
  <2>1. frames[u].dirty => FreeFrames = {}
    BY <1>1 DEF CacheInv
  <2>2. ToSet(<<>>) = {} /\ ToSet(<<frames[u].last_use>>) = {frames[u].last_use}
    BY DEF ToSet
  <2> QED
    BY <2>1, <2>2 DEF Evicted, u
<1>11. ToSet(Evicted) \subseteq Dirty
  BY <1>1, <1>10 DEF Dirty
<1>12. (Dirty)' = (Dirty \ ToSet(Evicted)) \cup {timer_counter'}
  <2>1. (Dirty)' = {frames'[f].last_use : f \in {g \in Frames : frames'[g].dirty}}
    BY DEF Dirty, Frames
  <2>2. ASSUME NEW f \in Frames, frames'[f].dirty
        PROVE  frames'[f].last_use \in (Dirty \ ToSet(Evicted)) \cup {timer_counter'}
    <3>1. CASE f = u
      BY <1>3, <3>1
    <3>2. CASE f # u
      <4>1. frames[f].dirty /\ frames'[f].last_use = frames[f].last_use
        BY <1>3, <2>2, <3>2
      <4>2. frames[u].dirty => frames[u].last_use # frames[f].last_use
        BY <1>1, <3>2, <4>1 DEF CacheInv
      <4> QED
        BY <1>10, <4>1, <4>2 DEF Dirty
    <3> QED
      BY <3>1, <3>2
  <2>3. timer_counter' \in (Dirty)'
    BY <1>1, <1>3, <2>1
  <2>4. ASSUME NEW f \in Frames, frames[f].dirty, frames[f].last_use \notin ToSet(Evicted)
        PROVE  frames[f].last_use \in (Dirty)'
    <3>1. f # u
      BY <1>10, <2>4
    <3> QED
      BY <1>3, <2>1, <2>4, <3>1
  <2> QED
    BY <2>1, <2>2, <2>3, <2>4 DEF Dirty
<1>13. Evicted \in Seq(1 .. timer_counter) /\ Len(Evicted) <= 1
  <2>1. frames[u].dirty => frames[u].last_use \in 1 .. timer_counter
    BY <1>1 DEF CacheInv
  <2>2. CASE Evicted = <<>>
    BY <2>2
  <2>3. CASE frames[u].dirty /\ Evicted = <<frames[u].last_use>>
    BY <2>1, <2>3
  <2> QED
    BY <2>2, <2>3 DEF Evicted, u
<1> QED
  BY <1>4, <1>9, <1>11, <1>12, <1>13

(***************************************************************************)
(* A flush takes every dirty page once, and leaves none.                   *)
(***************************************************************************)
LEMMA FlushTakesAll ==
    ASSUME LogTypeOK, CacheInv, NEW order \in FlushOrders,
           NEW entries, entries = [i \in DOMAIN order |-> frames[order[i]].last_use]
    PROVE  entries \in Seq(1 .. timer_counter) /\ IsInjective(entries) /\ ToSet(entries) = Dirty
<1> DEFINE n == Cardinality(DirtyFrames)
<1>1. IsFiniteSet(DirtyFrames) /\ n \in Nat
  <2>1. IsFiniteSet(Frames)
    BY LogStoreAssumption, FS_Interval DEF Frames
  <2>2. DirtyFrames \in SUBSET Frames
    BY DEF DirtyFrames
  <2> QED
    BY <2>1, <2>2, FS_Subset, FS_CardinalityType
<1>2. /\ order \in [1 .. n -> DirtyFrames]
      /\ \A i, j \in 1 .. n : i < j => order[i] < order[j]
  BY DEF FlushOrders
<1>3. \A f \in DirtyFrames : f \in Frames /\ frames[f].valid /\ frames[f].dirty
  BY DEF DirtyFrames
<1>4. \A f \in DirtyFrames : frames[f].last_use \in 1 .. timer_counter
  BY <1>3 DEF CacheInv
<1> HIDE DEF n
<1>5. \A i, j \in 1 .. n : order[i] = order[j] => i = j
  <2> SUFFICES ASSUME NEW i \in 1 .. n, NEW j \in 1 .. n, order[i] = order[j]
               PROVE  i = j
    OBVIOUS
  <2>1. order[i] \in Int
    BY <1>2, <1>3, LogStoreAssumption DEF Frames
  <2> QED
    BY <1>1, <1>2, <2>1
<1>6. DOMAIN order = 1 .. n /\ DOMAIN entries = 1 .. n
  BY <1>2
<1>7. entries \in Seq(1 .. timer_counter)
  <2>1. entries \in [1 .. n -> 1 .. timer_counter]
    BY <1>2, <1>4, <1>6
  <2> QED
    BY <1>1, <2>1
<1>8. IsInjective(entries)
  <2> SUFFICES ASSUME NEW i \in 1 .. n, NEW j \in 1 .. n, entries[i] = entries[j]
               PROVE  i = j
    BY <1>6 DEF IsInjective
  <2>1. order[i] = order[j]
    BY <1>2, <1>3, <1>6 DEF CacheInv
  <2> QED
    BY <1>5, <2>1
<1>9. ToSet(entries) = Dirty
  <2>1. order \in Injection(1 .. n, DirtyFrames)
    BY <1>2, <1>5 DEF Injection, IsInjective
  <2>2. Cardinality(1 .. n) = Cardinality(DirtyFrames)
    BY <1>1, FS_Interval DEF n
  <2>3. order \in Surjection(1 .. n, DirtyFrames)
    BY <1>1, <2>1, <2>2, FS_Injection
  <2>4. \A f \in DirtyFrames : \E i \in 1 .. n : order[i] = f
    BY <2>3 DEF Surjection
  <2>5. Dirty = {frames[f].last_use : f \in DirtyFrames}
    BY DEF Dirty, DirtyFrames, CacheInv
  <2>6. ASSUME NEW f \in DirtyFrames PROVE frames[f].last_use \in ToSet(entries)
    <3>1. PICK i \in 1 .. n : order[i] = f
      BY <2>4
    <3>2. entries[i] = frames[f].last_use
      BY <1>6, <3>1
    <3> QED
      BY <1>6, <3>2 DEF ToSet
  <2>7. ASSUME NEW i \in 1 .. n PROVE entries[i] \in Dirty
    BY <1>2, <1>6, <2>5
  <2> QED
    BY <1>6, <2>5, <2>6, <2>7 DEF ToSet
<1> QED
  BY <1>7, <1>8, <1>9

-----------------------------------------------------------------------------
(* The way to the file                                                     *)

\* What AtMostOnce, NothingLost and NearlyOrdered rest on.
LogInv ==
    /\ LogTypeOK
    /\ CacheInv
    /\ AtMostOnce
    /\ Ordered(Stream)
    /\ NothingLost

(***************************************************************************)
(* What is on its way is a sequence of messages.                           *)
(***************************************************************************)
LEMMA StreamType ==
    ASSUME LogTypeOK
    PROVE  Stream \in Seq(1 .. timer_counter)
<1>1. (IF writing = 0 THEN <<>> ELSE <<writing>>) \in Seq(1 .. timer_counter)
  <2>1. CASE writing = 0
    BY <2>1
  <2>2. CASE writing # 0
    <3>1. writing \in 1 .. timer_counter
      BY <2>2 DEF LogTypeOK
    <3> QED
      BY <2>2, <3>1
  <2> QED
    BY <2>1, <2>2
<1> QED
  BY <1>1, ConcatProperties DEF Stream, LogTypeOK

(***************************************************************************)
(* Pushing dirty messages, each once, keeps what is on its way without a   *)
(* double and in its near order.                                           *)
(***************************************************************************)
LEMMA Sent ==
    ASSUME LogInv, NEW entries \in Seq(1 .. timer_counter), IsInjective(entries),
           ToSet(entries) \subseteq Dirty, Push(entries), UNCHANGED <<writing, file>>
    PROVE  /\ flash_queue' \in Seq(1 .. timer_counter) /\ Len(flash_queue') <= FlashQueueSize
           /\ trouble' \in BOOLEAN
           /\ IsInjective(Stream)' /\ Ordered(Stream)'
           /\ ToSet(Stream)' \subseteq ToSet(Stream) \cup ToSet(entries)
           /\ ~trouble' => ~trouble /\ ToSet(Stream)' = ToSet(Stream) \cup ToSet(entries)
<1> USE DEF LogInv
<1> DEFINE M == 1 .. timer_counter
<1>1. PICK b \in Seq(M) :
          /\ flash_queue' = flash_queue \o b /\ Len(flash_queue') <= FlashQueueSize
          /\ Len(b) <= Len(entries) /\ \A i \in 1 .. Len(b) : b[i] = entries[i]
          /\ b # entries => trouble'
  BY Pushed DEF LogTypeOK
<1>2. /\ Len(b) \in Nat /\ DOMAIN b = 1 .. Len(b)
      /\ Len(entries) \in Nat /\ DOMAIN entries = 1 .. Len(entries)
  BY LenProperties
<1>3. IsInjective(b) /\ ToSet(b) \subseteq ToSet(entries)
  <2>1. \A i \in 1 .. Len(b) : i \in 1 .. Len(entries)
    BY <1>1, <1>2
  <2> QED
    BY <1>1, <1>2, <2>1 DEF IsInjective, ToSet
<1>4. \A i \in 1 .. Len(b) : timer_counter - b[i] < LogFrames
  <2> TAKE i \in 1 .. Len(b)
  <2>1. b[i] \in Dirty
    BY <1>2, <1>3 DEF ToSet
  <2>2. PICK f \in Frames : frames[f].dirty /\ b[i] = frames[f].last_use
    BY <2>1 DEF Dirty
  <2> QED
    BY <2>2, Capacity DEF CacheInv
<1>5. Stream \in Seq(M) /\ timer_counter \in Nat
  BY StreamType DEF LogTypeOK
<1>6. IsInjective(Stream) /\ ToSet(Stream) \cap ToSet(b) = {} /\ Ordered(Stream)
  BY <1>3 DEF AtMostOnce
<1>7. /\ IsInjective(Stream \o b) /\ Ordered(Stream \o b)
      /\ ToSet(Stream \o b) = ToSet(Stream) \cup ToSet(b)
  BY <1>3, <1>4, <1>5, <1>6, Extended
<1>8. (Stream)' = Stream \o b
  <2> DEFINE w == IF writing = 0 THEN <<>> ELSE <<writing>>
  <2>1. w \in Seq(Nat)
    <3>1. writing \in Nat
      BY DEF LogTypeOK
    <3> QED
      BY <3>1
  <2>2. file \in Seq(Nat) /\ flash_queue \in Seq(Nat) /\ b \in Seq(Nat)
    BY DEF LogTypeOK
  <2>3. (Stream)' = (file \o w) \o (flash_queue \o b)
    BY <1>1 DEF Stream
  <2>4. Stream = (file \o w) \o flash_queue
    BY DEF Stream
  <2> HIDE DEF w
  <2> QED
    <3>1. file \o w \in Seq(Nat)
      BY <2>1, <2>2, ConcatProperties
    <3>2. (file \o w) \o (flash_queue \o b) = ((file \o w) \o flash_queue) \o b
      BY <2>2, <3>1, Regrouped, Zenon
    <3> QED
      BY <2>3, <2>4, <3>2
<1>9. flash_queue' \in Seq(M)
  BY <1>1, ConcatProperties DEF LogTypeOK
<1>10. trouble' \in BOOLEAN /\ (~trouble' => ~trouble)
  BY DEF Push, LogTypeOK
<1>11. ~trouble' => b = entries
  BY <1>1
<1> QED
  BY <1>1, <1>3, <1>7, <1>8, <1>9, <1>10, <1>11

(***************************************************************************)
(* logger_task writes a message to the cache.                              *)
(***************************************************************************)
LEMMA WriteStep ==
    ASSUME LogInv, LogWrite
    PROVE  (LogInv)'
<1>1. /\ LogTypeOK /\ CacheInv /\ AtMostOnce /\ NothingLost
      /\ Push(Evicted) /\ UNCHANGED <<writing, file>>
      /\ timer_counter' = timer_counter + 1 /\ timer_counter < MaxMessages
      /\ flush_counter' = flush_counter + 1 /\ flush_counter < FlushEvery
      /\ UNCHANGED restarts
  BY DEF LogInv, LogWrite
<1>2. /\ (CacheInv)'
      /\ frames' \in [Frames -> [valid : BOOLEAN, dirty : BOOLEAN, last_use : 0 .. timer_counter']]
      /\ ToSet(Evicted) \subseteq Dirty
      /\ (Dirty)' = (Dirty \ ToSet(Evicted)) \cup {timer_counter'}
      /\ Evicted \in Seq(1 .. timer_counter) /\ Len(Evicted) <= 1
  BY <1>1, CacheWrite DEF LogInv
<1>3. IsInjective(Evicted)
  <2>1. Len(Evicted) \in Nat /\ DOMAIN Evicted = 1 .. Len(Evicted)
    BY <1>2, LenProperties
  <2> QED
    BY <1>2, <2>1 DEF IsInjective
<1>4. /\ flash_queue' \in Seq(1 .. timer_counter) /\ Len(flash_queue') <= FlashQueueSize
      /\ trouble' \in BOOLEAN
      /\ IsInjective(Stream)' /\ Ordered(Stream)'
      /\ ToSet(Stream)' \subseteq ToSet(Stream) \cup ToSet(Evicted)
      /\ ~trouble' => ~trouble /\ ToSet(Stream)' = ToSet(Stream) \cup ToSet(Evicted)
  BY <1>1, <1>2, <1>3, Sent
<1>5. timer_counter \in Nat /\ flush_counter \in Nat /\ MaxMessages \in Nat /\ FlushEvery \in Nat
  BY <1>1, LogStoreAssumption DEF LogTypeOK
<1>6. (LogTypeOK)'
  <2>1. 1 .. timer_counter \subseteq 1 .. timer_counter' /\ 0 .. timer_counter \subseteq 0 .. timer_counter'
    BY <1>1, <1>5
  <2>2. file \in Seq(1 .. timer_counter') /\ flash_queue' \in Seq(1 .. timer_counter')
    BY <1>1, <1>4, <2>1 DEF LogTypeOK
  <2>3. timer_counter' \in 0 .. MaxMessages /\ flush_counter' \in 0 .. FlushEvery
    BY <1>1, <1>5
  <2> QED
    BY <1>1, <1>2, <1>4, <2>1, <2>2, <2>3 DEF LogTypeOK, Frames
<1>7. ToSet(Stream) \subseteq 1 .. timer_counter
  <2>1. Stream \in Seq(1 .. timer_counter)
    BY <1>1, StreamType
  <2> QED
    BY <2>1, Members
<1>8. (AtMostOnce)'
  <2>1. timer_counter' \notin ToSet(Stream) \cup ToSet(Evicted)
    <3>1. timer_counter' \notin 1 .. timer_counter
      BY <1>1, <1>5
    <3>2. ToSet(Evicted) \subseteq 1 .. timer_counter
      BY <1>2, Members
    <3> QED
      BY <1>7, <3>1, <3>2
  <2> QED
    BY <1>1, <1>2, <1>4, <2>1 DEF AtMostOnce
<1>9. (NothingLost)'
  <2> SUFFICES ASSUME ~trouble' PROVE (ToSet(Stream))' \cup (Dirty)' = 1 .. timer_counter'
    BY DEF NothingLost
  <2>1. ToSet(Stream) \cup Dirty = 1 .. timer_counter
    BY <1>1, <1>4 DEF NothingLost
  <2>2. 1 .. timer_counter' = (1 .. timer_counter) \cup {timer_counter'}
    BY <1>1, <1>5
  <2> QED
    BY <1>2, <1>4, <2>1, <2>2
<1> QED
  BY <1>2, <1>4, <1>6, <1>8, <1>9 DEF LogInv

(***************************************************************************)
(* logger_task flushes the cache.                                          *)
(***************************************************************************)
LEMMA FlushStep ==
    ASSUME LogInv, LogFlush
    PROVE  (LogInv)'
<1>1. PICK order \in FlushOrders : Push([i \in DOMAIN order |-> frames[order[i]].last_use])
  BY DEF LogFlush
<1> DEFINE entries == [i \in DOMAIN order |-> frames[order[i]].last_use]
<1>2. /\ LogTypeOK /\ CacheInv /\ AtMostOnce /\ NothingLost
      /\ frames' = Cleaned /\ flush_counter' = 0
      /\ UNCHANGED <<timer_counter, writing, file, restarts>>
  BY DEF LogInv, LogFlush
<1>3. entries \in Seq(1 .. timer_counter) /\ IsInjective(entries) /\ ToSet(entries) = Dirty
  BY <1>2, FlushTakesAll
<1> HIDE DEF entries
<1>4. Push(entries)
  BY <1>1 DEF entries
<1>5. /\ flash_queue' \in Seq(1 .. timer_counter) /\ Len(flash_queue') <= FlashQueueSize
      /\ trouble' \in BOOLEAN
      /\ IsInjective(Stream)' /\ Ordered(Stream)'
      /\ ToSet(Stream)' \subseteq ToSet(Stream) \cup ToSet(entries)
      /\ ~trouble' => ~trouble /\ ToSet(Stream)' = ToSet(Stream) \cup ToSet(entries)
  BY <1>2, <1>3, <1>4, Sent
<1>6. /\ frames' \in [Frames -> [valid : BOOLEAN, dirty : BOOLEAN, last_use : 0 .. timer_counter]]
      /\ \A f \in Frames : /\ frames'[f].valid = frames[f].valid
                           /\ frames'[f].last_use = frames[f].last_use
                           /\ frames'[f].dirty = FALSE
  <2> SUFFICES ASSUME NEW f \in Frames
               PROVE  LET page == [frames[f] EXCEPT !.dirty = FALSE]
                      IN  /\ page \in [valid : BOOLEAN, dirty : BOOLEAN, last_use : 0 .. timer_counter]
                          /\ page.valid = frames[f].valid
                          /\ page.last_use = frames[f].last_use
                          /\ page.dirty = FALSE
    BY <1>2 DEF Cleaned
  <2>1. frames[f] \in [valid : BOOLEAN, dirty : BOOLEAN, last_use : 0 .. timer_counter]
    BY <1>2 DEF LogTypeOK
  <2> QED
    BY <2>1
<1>7. (LogTypeOK)'
  BY <1>2, <1>5, <1>6, LogStoreAssumption DEF LogTypeOK, Frames
<1>8. (CacheInv)'
  BY <1>2, <1>6 DEF CacheInv, Frames
<1>9. (Dirty)' = {}
  BY <1>6 DEF Dirty, Frames
<1>10. (AtMostOnce)'
  BY <1>5, <1>9 DEF AtMostOnce
<1>11. (NothingLost)'
  <2> SUFFICES ASSUME ~trouble' PROVE (ToSet(Stream))' \cup (Dirty)' = 1 .. timer_counter'
    BY DEF NothingLost
  <2> QED
    BY <1>2, <1>3, <1>5, <1>9 DEF NothingLost
<1> QED
  BY <1>5, <1>7, <1>8, <1>10, <1>11 DEF LogInv

(***************************************************************************)
(* The watchdog restarts logger_task.                                      *)
(***************************************************************************)
LEMMA RestartStep ==
    ASSUME LogInv, LoggerRestart
    PROVE  (LogInv)'
<1>1. /\ LogTypeOK /\ CacheInv /\ AtMostOnce /\ NothingLost /\ Ordered(Stream)
      /\ restarts < MaxRestarts /\ restarts' = restarts + 1
      /\ trouble' = (trouble \/ DirtyFrames # {})
      /\ frames' = [f \in Frames |-> NoPage] /\ flush_counter' = 0
      /\ UNCHANGED <<timer_counter, flash_queue, writing, file>>
  BY DEF LogInv, LoggerRestart
<1>2. (Stream)' = Stream
  BY <1>1 DEF Stream
<1>3. \A f \in Frames : frames'[f] = NoPage
  BY <1>1
<1>4. (Dirty)' = {}
  BY <1>3 DEF Dirty, Frames, NoPage
<1>5. (LogTypeOK)'
  <2>1. NoPage \in [valid : BOOLEAN, dirty : BOOLEAN, last_use : 0 .. timer_counter]
    BY <1>1 DEF NoPage, LogTypeOK
  <2>2. restarts' \in 0 .. MaxRestarts
    BY <1>1, LogStoreAssumption DEF LogTypeOK
  <2> QED
    BY <1>1, <2>1, <2>2, LogStoreAssumption DEF LogTypeOK, Frames
<1>6. (CacheInv)'
  BY <1>3 DEF CacheInv, Frames, NoPage
<1>7. (AtMostOnce)'
  BY <1>1, <1>2, <1>4 DEF AtMostOnce
<1>8. (NothingLost)'
  <2> SUFFICES ASSUME ~trouble' PROVE (ToSet(Stream))' \cup (Dirty)' = 1 .. timer_counter'
    BY DEF NothingLost
  <2>1. ~trouble /\ DirtyFrames = {}
    BY <1>1 DEF LogTypeOK
  <2>2. Dirty = {}
    BY <1>1, <2>1 DEF Dirty, DirtyFrames, CacheInv
  <2> QED
    BY <1>1, <1>2, <1>4, <2>1, <2>2 DEF NothingLost
<1> QED
  BY <1>1, <1>2, <1>5, <1>6, <1>7, <1>8 DEF LogInv

(***************************************************************************)
(* What LogInv says of the cache and of what is on its way depends on the  *)
(* queue, the entry popped and the file through Stream alone.              *)
(***************************************************************************)
LEMMA DrainKeeps ==
    ASSUME LogInv, UNCHANGED <<frames, timer_counter, flush_counter, restarts>>,
           flash_queue' \in Seq(1 .. timer_counter), Len(flash_queue') <= FlashQueueSize,
           writing' \in 0 .. timer_counter, file' \in Seq(1 .. timer_counter), trouble' \in BOOLEAN,
           NEW t, t = (Stream)', IsInjective(t), Ordered(t), ToSet(t) \subseteq ToSet(Stream),
           ~trouble' => ~trouble /\ ToSet(t) = ToSet(Stream)
    PROVE  (LogInv)'
<1>1. LogTypeOK /\ CacheInv /\ AtMostOnce /\ NothingLost
  BY DEF LogInv
<1>2. (LogTypeOK)'
  BY <1>1 DEF LogTypeOK, Frames
<1>3. (CacheInv)'
  BY <1>1 DEF CacheInv, Frames
<1>4. (Dirty)' = Dirty
  BY DEF Dirty, Frames
<1>5. (AtMostOnce)'
  BY <1>1, <1>4 DEF AtMostOnce
<1>6. (NothingLost)'
  BY <1>1, <1>4 DEF NothingLost
<1>7. (Ordered(Stream))'
  BY DEF Ordered
<1> QED
  BY <1>2, <1>3, <1>5, <1>6, <1>7 DEF LogInv

(***************************************************************************)
(* The idle loop pops an entry.                                            *)
(***************************************************************************)
LEMMA PopStep ==
    ASSUME LogInv, DrainPop
    PROVE  (LogInv)'
<1> DEFINE h == Head(flash_queue)  q == Tail(flash_queue)  M == 1 .. timer_counter
<1>1. /\ LogTypeOK /\ AtMostOnce /\ Ordered(Stream)
      /\ writing = 0 /\ flash_queue # <<>> /\ writing' = h /\ flash_queue' = q
      /\ UNCHANGED <<frames, timer_counter, flush_counter, file, restarts, trouble>>
  BY DEF LogInv, DrainPop
<1>2. /\ flash_queue \in Seq(M) /\ Len(flash_queue) <= FlashQueueSize
      /\ file \in Seq(M) /\ trouble \in BOOLEAN /\ timer_counter \in Nat /\ FlashQueueSize \in Nat
  BY <1>1, LogStoreAssumption DEF LogTypeOK
<1>3. h \in M /\ q \in Seq(M) /\ Len(q) = Len(flash_queue) - 1 /\ Len(flash_queue) \in Nat
  BY <1>1, <1>2, HeadTailProperties, LenProperties
<1>4. flash_queue = <<h>> \o q
  BY <1>1, <1>2
<1> HIDE DEF h, q
<1>5. (Stream)' = Stream
  <2>1. /\ Stream = (file \o <<>>) \o flash_queue
        /\ (Stream)' = (file \o <<h>>) \o q
    <3>1. h # 0
      BY <1>2, <1>3
    <3>2. Stream = (file \o <<>>) \o flash_queue
      BY <1>1 DEF Stream
    <3>3. (Stream)' = (file \o <<h>>) \o q
      BY <1>1, <3>1 DEF Stream
    <3> QED
      BY <3>2, <3>3
  <2>2. file \in Seq(Nat) /\ <<h>> \in Seq(Nat) /\ q \in Seq(Nat)
    BY <1>2, <1>3
  <2>3. file \o <<>> = file
    BY <2>2, ConcatEmptySeq
  <2>4. file \o (<<h>> \o q) = (file \o <<h>>) \o q
    BY <2>2, Regrouped, Zenon
  <2> QED
    BY <1>4, <2>1, <2>3, <2>4
<1>6. Len(q) <= FlashQueueSize /\ h \in 0 .. timer_counter
  BY <1>2, <1>3
<1>7. IsInjective(Stream)
  BY <1>1 DEF AtMostOnce
<1> QED
  BY <1>1, <1>2, <1>3, <1>5, <1>6, <1>7, DrainKeeps

(***************************************************************************)
(* The idle loop appends the entry to the file, or loses it.               *)
(***************************************************************************)
LEMMA FileStep ==
    ASSUME LogInv, DrainWrite
    PROVE  (LogInv)'
<1> DEFINE M == 1 .. timer_counter
<1>1. /\ LogTypeOK /\ AtMostOnce /\ Ordered(Stream)
      /\ writing # 0 /\ writing' = 0
      /\ UNCHANGED <<frames, timer_counter, flush_counter, flash_queue, restarts>>
  BY DEF LogInv, DrainWrite
<1>2. /\ flash_queue \in Seq(M) /\ Len(flash_queue) <= FlashQueueSize
      /\ file \in Seq(M) /\ trouble \in BOOLEAN /\ timer_counter \in Nat /\ writing \in M
  BY <1>1 DEF LogTypeOK
<1>3. Stream = (file \o <<writing>>) \o flash_queue
  BY <1>1 DEF Stream
<1>4. (Stream)' = (file' \o <<>>) \o flash_queue
  BY <1>1 DEF Stream
<1>5. IsInjective(Stream) /\ Stream \in Seq(M)
  BY <1>1, StreamType DEF AtMostOnce
<1>6. CASE file' = Append(file, writing) /\ UNCHANGED trouble
  <2>1. file' = file \o <<writing>> /\ file' \in Seq(M)
    BY <1>2, <1>6
  <2>2. file' \o <<>> = file'
    BY <2>1, ConcatEmptySeq
  <2>3. (Stream)' = Stream
    BY <1>3, <1>4, <2>1, <2>2
  <2> QED
    BY <1>1, <1>2, <1>5, <1>6, <2>1, <2>3, DrainKeeps
<1>7. CASE trouble' = TRUE /\ UNCHANGED file
  <2>1. (Stream)' = file \o flash_queue
    <3>1. file \o <<>> = file
      BY <1>2, ConcatEmptySeq
    <3> QED
      BY <1>4, <1>7, <3>1
  <2> DEFINE t == file \o flash_queue
             e == [i \in 1 .. Len(t) |-> IF i <= Len(file) THEN i ELSE i + 1]
  <2>2. t \in Seq(M) /\ Len(t) = Len(file) + Len(flash_queue)
    BY <1>2, ConcatProperties
  <2>3. \A i \in 1 .. Len(t) :
            t[i] = IF i <= Len(file) THEN file[i] ELSE flash_queue[i - Len(file)]
    BY <1>2, ConcatProperties
  <2>4. Len(file) \in Nat /\ Len(flash_queue) \in Nat
    BY <1>2, LenProperties
  <2> DEFINE head == file \o <<writing>>
  <2>5. /\ head \in Seq(M) /\ Len(head) = Len(file) + 1
        /\ \A i \in 1 .. Len(file) : head[i] = file[i]
    BY <1>2
  <2> HIDE DEF head, t
  <2>6. /\ Len(Stream) = Len(head) + Len(flash_queue)
        /\ \A i \in 1 .. Len(head) + Len(flash_queue) :
               Stream[i] = IF i <= Len(head) THEN head[i] ELSE flash_queue[i - Len(head)]
    <3>1. Stream = head \o flash_queue
      BY <1>3 DEF head
    <3>2. /\ Len(head \o flash_queue) = Len(head) + Len(flash_queue)
          /\ \A i \in 1 .. Len(head) + Len(flash_queue) :
                 (head \o flash_queue)[i] =
                     IF i <= Len(head) THEN head[i] ELSE flash_queue[i - Len(head)]
      BY <1>2, <2>5, ConcatProperties
    <3> QED
      BY <3>1, <3>2
  <2>7. e \in [1 .. Len(t) -> 1 .. Len(Stream)]
    BY <2>2, <2>4, <2>5, <2>6
  <2>8. \A i \in 1 .. Len(t) : t[i] = Stream[e[i]]
    <3> TAKE i \in 1 .. Len(t)
    <3>1. CASE i <= Len(file)
      <4>1. e[i] = i /\ i \in 1 .. Len(file) /\ i \in 1 .. Len(head) + Len(flash_queue) /\ i <= Len(head)
        BY <2>4, <2>5, <3>1
      <4> QED
        BY <2>3, <2>5, <2>6, <3>1, <4>1
    <3>2. CASE ~(i <= Len(file))
      <4>1. /\ e[i] = i + 1 /\ i + 1 \in 1 .. Len(head) + Len(flash_queue) /\ ~(i + 1 <= Len(head))
            /\ i + 1 - Len(head) = i - Len(file)
        BY <2>2, <2>4, <2>5, <3>2
      <4>2. Stream[i + 1] = flash_queue[i + 1 - Len(head)]
        BY <2>6, <4>1
      <4>3. t[i] = flash_queue[i - Len(file)]
        BY <2>3, <3>2
      <4> QED
        BY <4>1, <4>2, <4>3
    <3> QED
      BY <3>1, <3>2
  <2>9. \A i, j \in 1 .. Len(t) : i < j => e[i] < e[j]
    BY <2>2, <2>4
  <2>10. t \in Seq(Nat) /\ Stream \in Seq(Nat)
    <3>1. M \subseteq Nat
      OBVIOUS
    <3> QED
      BY <1>5, <2>2, <3>1, SeqMonotonic
  <2> HIDE DEF e
  <2>11. IsInjective(t) /\ Ordered(t) /\ ToSet(t) \subseteq ToSet(Stream)
    BY <1>1, <1>5, <2>7, <2>8, <2>9, <2>10, Thinned
  <2>12. (Stream)' = t
    BY <2>1 DEF t
  <2> QED
    BY <1>1, <1>2, <1>7, <2>11, <2>12, DrainKeeps
<1> QED
  BY <1>6, <1>7 DEF DrainWrite

-----------------------------------------------------------------------------
(* The theorems                                                            *)

(***************************************************************************)
(* Every step of logger_task, the idle loop and the watchdog keeps LogInv. *)
(***************************************************************************)
THEOREM LogInvariant == Spec => []LogInv
<1>1. Init => LogInv
  <2> SUFFICES ASSUME Init PROVE LogInv
    OBVIOUS
  <2>1. /\ frames = [f \in Frames |-> NoPage] /\ timer_counter = 0 /\ flush_counter = 0
        /\ flash_queue = <<>> /\ writing = 0 /\ file = <<>> /\ restarts = 0 /\ trouble = FALSE
    BY DEF Init
  <2>2. \A f \in Frames : frames[f] = NoPage
    BY <2>1
  <2>3. LogTypeOK
    <3>1. NoPage \in [valid : BOOLEAN, dirty : BOOLEAN, last_use : 0 .. timer_counter]
      BY <2>1 DEF NoPage
    <3>2. frames \in [Frames -> [valid : BOOLEAN, dirty : BOOLEAN, last_use : 0 .. timer_counter]]
      BY <2>1, <3>1
    <3>3. /\ timer_counter \in 0 .. MaxMessages /\ flush_counter \in 0 .. FlushEvery
          /\ writing \in 0 .. timer_counter /\ restarts \in 0 .. MaxRestarts
      BY <2>1, LogStoreAssumption
    <3>4. /\ flash_queue \in Seq(1 .. timer_counter) /\ file \in Seq(1 .. timer_counter)
          /\ Len(flash_queue) <= FlashQueueSize
      BY <2>1, LogStoreAssumption
    <3> QED
      BY <2>1, <3>2, <3>3, <3>4 DEF LogTypeOK
  <2>4. CacheInv
    BY <2>2 DEF CacheInv, NoPage
  <2>5. Dirty = {}
    BY <2>2 DEF Dirty, NoPage
  <2>6. Stream = <<>>
    BY <2>1 DEF Stream
  <2>7. IsInjective(Stream) /\ ToSet(Stream) = {} /\ Ordered(Stream)
    BY <2>6 DEF IsInjective, ToSet, Ordered
  <2>8. 1 .. timer_counter = {}
    BY <2>1
  <2> QED
    BY <2>3, <2>4, <2>5, <2>7, <2>8 DEF LogInv, AtMostOnce, NothingLost
<1>2. LogInv /\ [Next]_vars => (LogInv)'
  <2> SUFFICES ASSUME LogInv, [Next]_vars PROVE (LogInv)'
    OBVIOUS
  <2>1. CASE LogWrite
    BY <2>1, WriteStep
  <2>2. CASE LogFlush
    BY <2>2, FlushStep
  <2>3. CASE LoggerRestart
    BY <2>3, RestartStep
  <2>4. CASE DrainPop
    BY <2>4, PopStep
  <2>5. CASE DrainWrite
    BY <2>5, FileStep
  <2>6. CASE UNCHANGED vars
    <3>1. (Stream)' = Stream /\ (Dirty)' = Dirty
      BY <2>6 DEF vars, Stream, Dirty, Frames
    <3>2. (LogTypeOK)' /\ (CacheInv)'
      BY <2>6 DEF vars, LogInv, LogTypeOK, CacheInv, Frames
    <3>3. (AtMostOnce)' /\ (NothingLost)'
      BY <2>6, <3>1 DEF vars, LogInv, AtMostOnce, NothingLost
    <3>4. (Ordered(Stream))'
      BY <3>1 DEF LogInv, Ordered
    <3> QED
      BY <3>2, <3>3, <3>4 DEF LogInv
  <2> QED
    BY <2>1, <2>2, <2>3, <2>4, <2>5, <2>6 DEF Next
<1> QED
  BY <1>1, <1>2, PTL DEF Spec

(***************************************************************************)
(* The cache, the counters and the queue stay in their ranges, and         *)
(* flash_work_queue never holds more than FLASH_QUEUE_SIZE entries.        *)
(***************************************************************************)
THEOREM LogTypeCorrect == Spec => []LogTypeOK
<1>1. LogInv => LogTypeOK
  BY DEF LogInv
<1> QED
  BY <1>1, LogInvariant, PTL

(***************************************************************************)
(* No message is persisted twice, for every size of cache and queue.       *)
(***************************************************************************)
THEOREM AtMostOnceHolds == Spec => []AtMostOnce
<1>1. LogInv => AtMostOnce
  BY DEF LogInv
<1> QED
  BY <1>1, LogInvariant, PTL

(***************************************************************************)
(* A message that is nowhere was lost by a full queue, a failed append or  *)
(* a restart: eviction and flush hand every dirty page on.                 *)
(***************************************************************************)
THEOREM NothingLostHolds == Spec => []NothingLost
<1>1. LogInv => NothingLost
  BY DEF LogInv
<1> QED
  BY <1>1, LogInvariant, PTL

(***************************************************************************)
(* The log file is sorted up to LOG_FRAMES places: the message taken from  *)
(* the cache is never older than the last LOG_FRAMES written (Capacity).   *)
(***************************************************************************)
THEOREM NearlyOrderedHolds == Spec => []NearlyOrdered
<1>1. LogInv => NearlyOrdered
  <2> SUFFICES ASSUME LogInv, NEW p \in 1 .. Len(Stream)
               PROVE  /\ \A q \in p .. Len(Stream) : Stream[p] - Stream[q] < LogFrames
                      /\ \A m \in Dirty : Stream[p] - m < LogFrames
    BY DEF NearlyOrdered
  <2>1. LogTypeOK /\ CacheInv /\ Ordered(Stream)
    BY DEF LogInv
  <2>2. Stream[p] \in 1 .. timer_counter
    BY <2>1, StreamType, ElementOfSeq
  <2>3. ASSUME NEW m \in Dirty PROVE Stream[p] - m < LogFrames
    <3>1. PICK f \in Frames : frames[f].dirty /\ m = frames[f].last_use
      BY DEF Dirty
    <3>2. m \in 1 .. timer_counter /\ timer_counter - m < LogFrames
      BY <2>1, <3>1, Capacity DEF CacheInv
    <3> QED
      BY <2>1, <2>2, <3>2, LogStoreAssumption DEF LogTypeOK
  <2> QED
    BY <2>1, <2>3 DEF Ordered
<1> QED
  BY <1>1, LogInvariant, PTL
=============================================================================
