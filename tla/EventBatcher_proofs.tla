----------------------- MODULE EventBatcher_proofs -------------------------
(***************************************************************************)
(* For every size of the queue, the slice and the cap: nothing waits in    *)
(* the batcher without a task that will drain it, so a hidden tab, whose   *)
(* frames are suspended, never strands the events of a session; a group    *)
(* stays one stretch of one stream; and the batcher implements the ordered *)
(* feed.                                                                   *)
(***************************************************************************)
EXTENDS EventBatcher, TLAPS, SequenceTheorems, FiniteSetTheorems, WellFoundedInduction

(* Least and greatest elements, for SliceEnd and for the filter's places.  *)
LEMMA LeastOfNaturals ==
    ASSUME NEW S \in SUBSET Nat, S # {}
    PROVE  \E x \in S : \A y \in S : x <= y
  <1>1. PICK x \in S : \A y \in S : <<y, x>> \notin OpToRel(<, Nat)
    BY WFMin, NatLessThanWellFounded
  <1>2. \A y \in S : <<y, x>> \in OpToRel(<, Nat) <=> y < x
    BY DEF OpToRel
  <1>3. \A y \in S : ~(y < x)
    BY <1>1, <1>2, Zenon
  <1>4. x \in Nat /\ \A y \in S : y \in Nat
    OBVIOUS
  <1>5. \A y \in S : x <= y
    BY <1>3, <1>4
  <1> QED BY <1>5

LEMMA GreatestUpTo ==
    ASSUME NEW limit \in Nat, NEW S \in SUBSET (0..limit), S # {}
    PROVE  \E x \in S : \A y \in S : x >= y
  <1> DEFINE mirror == {m \in 0..limit : limit - m \in S}
  <1>1. mirror \in SUBSET Nat /\ mirror # {}
    <2>1. PICK s \in S : TRUE
      OBVIOUS
    <2>2. limit - s \in 0..limit /\ limit - (limit - s) = s
      BY <2>1
    <2> QED BY <2>1, <2>2
  <1>2. PICK m \in mirror : \A k \in mirror : m <= k
    BY <1>1, LeastOfNaturals
  <1>3. limit - m \in S
    BY <1>2
  <1>4. \A y \in S : limit - m >= y
    <2>1. ASSUME NEW y \in S
          PROVE  limit - m >= y
      <3>1. limit - y \in mirror
        OBVIOUS
      <3> QED BY <1>2, <3>1
    <2> QED BY <2>1
  <1> QED BY <1>3, <1>4

LEMMA MaxUpTo ==
    ASSUME NEW limit \in Nat, NEW S \in SUBSET (0..limit), S # {}
    PROVE  Max(S) \in S /\ \A y \in S : Max(S) >= y
  BY GreatestUpTo DEF Max

(* Of a set of positions, each place up to their number is one position's. *)
LEMMA RankGrows ==
    ASSUME NEW limit \in Nat, NEW kept \in SUBSET (1..limit),
           NEW i \in kept, NEW j \in kept, i < j
    PROVE  /\ Rank(kept, i) \in Nat /\ Rank(kept, j) \in Nat
           /\ Rank(kept, i) < Rank(kept, j)
  <1> DEFINE upto(k) == {m \in kept : m <= k}
  <1>1. IsFiniteSet(1..limit)
    BY FS_Interval
  <1>2. IsFiniteSet(kept)
    BY <1>1, FS_Subset
  <1>3. IsFiniteSet(upto(i)) /\ IsFiniteSet(upto(j))
    BY <1>2, FS_Subset
  <1>4. upto(i) \in SUBSET upto(j) /\ j \in upto(j) /\ j \notin upto(i)
    <2>1. \A m \in kept : m <= i => m <= j
      OBVIOUS
    <2>2. j <= j /\ ~(j <= i)
      OBVIOUS
    <2> QED BY <2>1, <2>2
  <1>5. Cardinality(upto(i)) <= Cardinality(upto(j))
        /\ Cardinality(upto(i)) # Cardinality(upto(j))
    BY <1>3, <1>4, FS_Subset
  <1>6. Cardinality(upto(i)) \in Nat /\ Cardinality(upto(j)) \in Nat
    BY <1>3, FS_CardinalityType
  <1> QED BY <1>5, <1>6 DEF Rank

LEMMA RankIsInjective ==
    ASSUME NEW limit \in Nat, NEW kept \in SUBSET (1..limit),
           NEW i \in kept, NEW j \in kept, Rank(kept, i) = Rank(kept, j)
    PROVE  i = j
  <1>1. CASE i < j
    BY <1>1, RankGrows
  <1>2. CASE j < i
    BY <1>2, RankGrows
  <1> QED BY <1>1, <1>2

LEMMA RankType ==
    ASSUME NEW limit \in Nat, NEW kept \in SUBSET (1..limit), NEW i \in kept
    PROVE  /\ IsFiniteSet(kept) /\ Cardinality(kept) \in Nat
           /\ Rank(kept, i) \in 1..Cardinality(kept)
  <1> DEFINE upto == {m \in kept : m <= i}
  <1>1. IsFiniteSet(1..limit)
    BY FS_Interval
  <1>2. IsFiniteSet(kept)
    BY <1>1, FS_Subset
  <1>3. upto \in SUBSET kept /\ i \in upto
    OBVIOUS
  <1> HIDE DEF upto
  <1>4. IsFiniteSet(upto) /\ Cardinality(upto) <= Cardinality(kept)
    BY <1>2, <1>3, FS_Subset
  <1>5. Cardinality(upto) # 0
    BY <1>3, <1>4, FS_EmptySet
  <1>6. Cardinality(upto) \in Nat /\ Cardinality(kept) \in Nat
    BY <1>2, <1>4, FS_CardinalityType
  <1> QED BY <1>2, <1>4, <1>5, <1>6 DEF Rank, upto

(* The position before which only one fewer stays.                         *)
LEMMA RankBefore ==
    ASSUME NEW limit \in Nat, NEW kept \in SUBSET (1..limit),
           NEW i \in kept, Rank(kept, i) > 1
    PROVE  \E p \in kept : /\ p < i /\ Rank(kept, p) = Rank(kept, i) - 1
                           /\ \A j \in kept : j < i => j <= p
  <1> DEFINE upto == {m \in kept : m <= i}
             before == {m \in kept : m < i}
  <1>1. IsFiniteSet(upto)
    <2>1. IsFiniteSet(kept)
      BY RankType
    <2> QED BY <2>1, FS_Subset
  <1>2. before = upto \ {i} /\ i \in upto
    <2>1. \A m \in kept : m < i <=> m <= i /\ m # i
      OBVIOUS
    <2>2. i <= i
      OBVIOUS
    <2> QED BY <2>1, <2>2
  <1>3. IsFiniteSet(before) /\ Cardinality(before) = Rank(kept, i) - 1
    <2> HIDE DEF before
    <2>1. Rank(kept, i) = Cardinality(upto)
      BY DEF Rank
    <2> HIDE DEF upto
    <2> QED BY <1>1, <1>2, <2>1, FS_RemoveElement
  <1>4. before # {}
    <2> HIDE DEF before
    <2>1. Rank(kept, i) - 1 # 0
      BY RankType
    <2> QED BY <1>3, <2>1, FS_EmptySet
  <1>5. PICK p \in before : \A y \in before : p >= y
    <2>1. before \in SUBSET (0..limit)
      <3>1. \A x \in kept : x \in 0..limit
        OBVIOUS
      <3> QED BY <3>1
    <2> HIDE DEF before
    <2> QED BY <1>4, <2>1, GreatestUpTo
  <1>6. {m \in kept : m <= p} = before
    <2>1. p \in kept /\ p < i
      BY <1>5
    <2>2. \A m \in kept : m < i => m <= p
      BY <1>5
    <2>3. \A m \in kept : m <= p => m < i
      BY <2>1
    <2> QED BY <2>2, <2>3
  <1>7. Rank(kept, p) = Rank(kept, i) - 1
    BY <1>3, <1>6 DEF Rank
  <1> QED BY <1>5, <1>7

LEMMA RankIsOnto ==
    ASSUME NEW limit \in Nat, NEW kept \in SUBSET (1..limit),
           NEW n \in 1..Cardinality(kept)
    PROVE  \E i \in kept : Rank(kept, i) = n
  <1> DEFINE late == {i \in kept : Rank(kept, i) >= n}
  <1>0. IsFiniteSet(kept) /\ Cardinality(kept) \in Nat
    <2>1. IsFiniteSet(1..limit)
      BY FS_Interval
    <2> QED BY <2>1, FS_Subset, FS_CardinalityType
  <1>1. late # {}
    <2>1. kept # {}
      BY <1>0, FS_EmptySet
    <2>2. PICK x \in kept : \A y \in kept : x >= y
      <3>1. kept \in SUBSET (0..limit)
        OBVIOUS
      <3> QED BY <2>1, <3>1, GreatestUpTo
    <2>3. {m \in kept : m <= x} = kept
      BY <2>2
    <2>4. Rank(kept, x) = Cardinality(kept)
      BY <2>3 DEF Rank
    <2> QED BY <1>0, <2>4
  <1>2. PICK i \in late : \A j \in late : i <= j
    <2>1. late \in SUBSET Nat
      <3>1. \A x \in kept : x \in Nat
        OBVIOUS
      <3> QED BY <3>1
    <2> HIDE DEF late
    <2> QED BY <1>1, <2>1, LeastOfNaturals
  <1>3. ASSUME Rank(kept, i) # n
        PROVE  FALSE
    <2>0. i \in kept /\ Rank(kept, i) >= n /\ n \in Nat /\ n >= 1
      BY <1>0
    <2>1. Rank(kept, i) \in 1..Cardinality(kept)
      BY <2>0, RankType
    <2>2. Rank(kept, i) > n /\ Rank(kept, i) > 1
      BY <1>0, <1>3, <2>0, <2>1
    <2>3. PICK p \in kept : p < i /\ Rank(kept, p) = Rank(kept, i) - 1
      BY <2>0, <2>2, RankBefore
    <2>4. p \in late
      BY <1>0, <2>0, <2>1, <2>2, <2>3
    <2> QED BY <1>2, <2>3, <2>4
  <1> QED BY <1>2, <1>3

(* The n-th of the positions that stay is the one of rank n.               *)
LEMMA NthOfKept ==
    ASSUME NEW limit \in Nat, NEW kept \in SUBSET (1..limit)
    PROVE  /\ Cardinality(kept) \in Nat
           /\ \A n \in 1..Cardinality(kept) :
                /\ Nth(kept, n) \in kept
                /\ Rank(kept, Nth(kept, n)) = n
           /\ \A i \in kept : Nth(kept, Rank(kept, i)) = i
  <1>1. IsFiniteSet(1..limit)
    BY FS_Interval
  <1>2. Cardinality(kept) \in Nat
    BY <1>1, FS_Subset, FS_CardinalityType
  <1>3. ASSUME NEW n \in 1..Cardinality(kept)
        PROVE  Nth(kept, n) \in kept /\ Rank(kept, Nth(kept, n)) = n
    BY RankIsOnto DEF Nth
  <1>4. ASSUME NEW i \in kept
        PROVE  Nth(kept, Rank(kept, i)) = i
    <2>1. Rank(kept, i) \in 1..Cardinality(kept)
      BY RankType
    <2>2. Nth(kept, Rank(kept, i)) \in kept
          /\ Rank(kept, Nth(kept, Rank(kept, i))) = Rank(kept, i)
      BY <1>3, <2>1
    <2> QED BY <2>2, RankIsInjective
  <1> QED BY <1>2, <1>3, <1>4

----------------------------------------------------------------------------

(* The queue's events, and what makes a queue of them well-formed.         *)
Events == [number : Nat, kind : {"delta", "render", "control"}, session : FeedSessions,
           offset : Nat, len : Nat, start : Nat]

Lossless(queue) ==
    \A i \in DOMAIN queue :
        queue[i].kind = "delta" =>
            /\ queue[i].offset + queue[i].len - queue[i].start <= MaxChars
            /\ ~OpensGroup(queue[i]) =>
                 /\ i > 1
                 /\ queue[i - 1].kind = "delta"
                 /\ queue[i - 1].session = queue[i].session
                 /\ queue[i - 1].start = queue[i].start
                 /\ queue[i - 1].offset + queue[i - 1].len = queue[i].offset

Good(queue, last) ==
    /\ queue \in Seq(Events)
    /\ \A i \in DOMAIN queue : queue[i].number \in 1..last
    /\ Lossless(queue)

(* A slice is never empty and never cuts a group in two.                   *)
LEMMA SliceIsPrefix ==
    ASSUME NEW queue \in Seq(Events), queue # <<>>
    PROVE  /\ SliceEnd(queue) \in 1..Len(queue)
           /\ SliceEnd(queue) # Len(queue) => OpensGroup(queue[SliceEnd(queue) + 1])
  <1> DEFINE ends == {n \in 1..Len(queue) : n = Len(queue) \/ OpensGroup(queue[n + 1])}
             fits(n) == Cardinality(Groups(SubSeq(queue, 1, n))) <= MaxItemsPerSlice
             slices == {n \in 1..Len(queue) :
                           /\ n = Len(queue) \/ OpensGroup(queue[n + 1])
                           /\ fits(n)}
  <1>0. Len(queue) \in Nat /\ Len(queue) >= 1
    BY EmptySeq, LenProperties
  <1>1. SliceEnd(queue) = Max(slices)
    <2>1. {n \in DOMAIN queue : /\ n = Len(queue) \/ OpensGroup(queue[n + 1])
                                /\ Cardinality(Groups(SubSeq(queue, 1, n))) <= MaxItemsPerSlice}
          = slices
      BY LenProperties
    <2> QED BY <2>1 DEF SliceEnd
  <1>2. PICK first \in ends : \A n \in ends : first <= n
    <2>1. ends \in SUBSET Nat
      BY <1>0
    <2>2. ends # {}
      BY <1>0
    <2> HIDE DEF ends
    <2> QED BY <2>1, <2>2, LeastOfNaturals
  <1>3. fits(first)
    <2>1. first \in 1..Len(queue)
      BY <1>2
    <2>2. \A i \in 1..first : i # 1 => ~OpensGroup(queue[i])
      <3>1. ASSUME NEW i \in 1..first, i # 1, OpensGroup(queue[i])
            PROVE  FALSE
        <4>1. i - 1 \in 1..Len(queue) /\ (i - 1) + 1 = i /\ ~(first <= i - 1)
          <5> HIDE DEF ends, slices, fits
          <5>1. i # 1
            BY <3>1
          <5> QED BY <1>0, <2>1, <5>1
        <4>2. i - 1 \in ends
          BY <3>1, <4>1
        <4> QED BY <1>2, <4>1, <4>2
      <3> QED BY <3>1
    <2>3. SubSeq(queue, 1, first) \in Seq(Events)
          /\ Len(SubSeq(queue, 1, first)) = first
          /\ \A i \in 1..first : SubSeq(queue, 1, first)[i] = queue[i]
      <3>1. \A i \in 1..first : queue[i] \in Events
        <4> HIDE DEF ends, slices, fits
        <4>1. \A i \in 1..first : i \in 1..Len(queue)
          BY <1>0, <2>1
        <4> QED BY <4>1, ElementOfSeq
      <3>2. 1 \in Int /\ first \in Int /\ 1 <= first
        BY <1>0, <2>1
      <3>3. /\ SubSeq(queue, 1, first) \in Seq(Events)
            /\ Len(SubSeq(queue, 1, first)) = IF 1 <= first THEN first - 1 + 1 ELSE 0
            /\ \A i \in 1 .. first - 1 + 1 : SubSeq(queue, 1, first)[i] = queue[1 + i - 1]
        BY <3>1, <3>2, SubSeqProperties
      <3> QED BY <3>2, <3>3
    <2>4. DOMAIN SubSeq(queue, 1, first) = 1..first
      BY <2>3, LenProperties
    <2>5. Groups(SubSeq(queue, 1, first)) \in SUBSET {1}
      BY <2>2, <2>3, <2>4 DEF Groups
    <2>6. Cardinality(Groups(SubSeq(queue, 1, first))) <= 1
          /\ Cardinality(Groups(SubSeq(queue, 1, first))) \in Nat
      <3>1. IsFiniteSet({1}) /\ Cardinality({1}) = 1
        BY FS_Singleton
      <3> DEFINE groups == Groups(SubSeq(queue, 1, first))
      <3>2. groups \in SUBSET {1}
        BY <2>5
      <3> HIDE DEF groups
      <3>3. IsFiniteSet(groups) /\ Cardinality(groups) <= 1
        BY <3>1, <3>2, FS_Subset
      <3>4. Cardinality(groups) \in Nat
        BY <3>3, FS_CardinalityType
      <3> QED BY <3>3, <3>4 DEF groups
    <2> QED BY <2>6, BoundsAssumption
  <1>4. slices # {}
    BY <1>2, <1>3
  <1>5. slices \in SUBSET (0..Len(queue))
    <2>1. \A n \in 1..Len(queue) : n \in 0..Len(queue)
      <3> HIDE DEF ends, slices, fits
      <3> QED BY <1>0
    <2> QED BY <2>1
  <1>6. Max(slices) \in slices
    <2> HIDE DEF slices
    <2> QED BY <1>0, <1>4, <1>5, MaxUpTo
  <1> QED BY <1>1, <1>6

(* What stays after the first n of a queue.                                *)
LEMMA RestElements ==
    ASSUME NEW queue \in Seq(Events), NEW n \in 0..Len(queue)
    PROVE  /\ Rest(queue, n) \in Seq(Events)
           /\ Len(Rest(queue, n)) = Len(queue) - n
           /\ DOMAIN Rest(queue, n) = 1 .. Len(queue) - n
           /\ \A i \in 1 .. Len(queue) - n : Rest(queue, n)[i] = queue[i + n]
  <1>1. Len(queue) \in Nat /\ n + 1 \in Int
    BY LenProperties
  <1>2. \A i \in n + 1 .. Len(queue) : queue[i] \in Events
    BY <1>1, ElementOfSeq
  <1>3. /\ SubSeq(queue, n + 1, Len(queue)) \in Seq(Events)
        /\ Len(SubSeq(queue, n + 1, Len(queue)))
             = IF n + 1 <= Len(queue) THEN Len(queue) - (n + 1) + 1 ELSE 0
        /\ \A i \in 1 .. Len(queue) - (n + 1) + 1 :
              SubSeq(queue, n + 1, Len(queue))[i] = queue[(n + 1) + i - 1]
    BY <1>1, <1>2, SubSeqProperties
  <1>4. Len(Rest(queue, n)) = Len(queue) - n /\ Rest(queue, n) \in Seq(Events)
    BY <1>1, <1>3 DEF Rest
  <1>5. \A i \in 1 .. Len(queue) - n : Rest(queue, n)[i] = queue[i + n]
    BY <1>1, <1>3 DEF Rest
  <1>6. DOMAIN Rest(queue, n) = 1 .. Len(queue) - n
    BY <1>4, LenProperties
  <1> QED BY <1>4, <1>5, <1>6

(* What a slice leaves begins with a group of its own.                     *)
LEMMA GoodRest ==
    ASSUME NEW queue, NEW last \in Nat, Good(queue, last), queue # <<>>
    PROVE  Good(Rest(queue, SliceEnd(queue)), last)
  <1> DEFINE n == SliceEnd(queue)
             rest == Rest(queue, n)
  <1>0. queue \in Seq(Events)
    BY DEF Good
  <1>1. Len(queue) \in Nat
    BY <1>0, LenProperties
  <1>2. n \in 1..Len(queue)
    BY <1>0, SliceIsPrefix
  <1>6. n # Len(queue) => OpensGroup(queue[n + 1])
    BY <1>0, SliceIsPrefix
  <1>7. DOMAIN queue = 1..Len(queue)
    BY <1>0, LenProperties
  <1> HIDE DEF n
  <1>3. /\ rest \in Seq(Events) /\ DOMAIN rest = 1 .. Len(queue) - n
        /\ \A i \in 1 .. Len(queue) - n : rest[i] = queue[i + n]
    BY <1>0, <1>1, <1>2, RestElements
  <1> HIDE DEF rest
  <1>4. \A i \in DOMAIN rest : rest[i].number \in 1..last
    <2>1. \A i \in 1 .. Len(queue) - n : i + n \in 1..Len(queue)
      BY <1>1, <1>2
    <2> QED BY <1>3, <1>7, <2>1 DEF Good
  <1>5. Lossless(rest)
    <2> SUFFICES ASSUME NEW i \in 1 .. Len(queue) - n, rest[i].kind = "delta"
                 PROVE  /\ rest[i].offset + rest[i].len - rest[i].start <= MaxChars
                        /\ ~OpensGroup(rest[i]) =>
                             /\ i > 1
                             /\ rest[i - 1].kind = "delta"
                             /\ rest[i - 1].session = rest[i].session
                             /\ rest[i - 1].start = rest[i].start
                             /\ rest[i - 1].offset + rest[i - 1].len = rest[i].offset
      BY <1>3 DEF Lossless
    <2>0. i + n \in 1..Len(queue)
      BY <1>1, <1>2
    <2>1. i + n \in DOMAIN queue /\ rest[i] = queue[i + n]
      BY <1>3, <1>7, <2>0
    <2>2. CASE OpensGroup(rest[i])
      BY <2>1, <2>2 DEF Good, Lossless
    <2>3. CASE ~OpensGroup(rest[i])
      <3>1. i # 1
        <4>1. ASSUME i = 1
              PROVE  FALSE
          <5>1. n # Len(queue) /\ i + n = n + 1
            BY <1>1, <1>2, <4>1
          <5> QED BY <1>6, <2>1, <2>3, <5>1
        <4> QED BY <4>1
      <3>2. i - 1 \in 1 .. Len(queue) - n /\ (i - 1) + n = (i + n) - 1
        BY <1>1, <1>2, <3>1
      <3>3. rest[i - 1] = queue[(i + n) - 1]
        BY <1>3, <3>2
      <3> QED BY <2>1, <2>3, <3>1, <3>2, <3>3 DEF Good, Lossless
    <2> QED BY <2>2, <2>3
  <1> QED BY <1>3, <1>4, <1>5 DEF Good, n, rest

(* An event that arrives is put last, in the group it continues.           *)
LEMMA GoodAppend ==
    ASSUME NEW queue, NEW last \in Nat, Good(queue, last),
           NEW e \in Events, e.number = last + 1,
           e.kind = "delta" => e.offset + e.len - e.start <= MaxChars,
           ~OpensGroup(e) =>
               /\ queue # <<>>
               /\ queue[Len(queue)].kind = "delta"
               /\ queue[Len(queue)].session = e.session
               /\ queue[Len(queue)].start = e.start
               /\ queue[Len(queue)].offset + queue[Len(queue)].len = e.offset
    PROVE  Good(Append(queue, e), last + 1)
  <1> DEFINE longer == Append(queue, e)
  <1>1. queue \in Seq(Events) /\ DOMAIN queue = 1..Len(queue) /\ Len(queue) \in Nat
    BY LenProperties DEF Good
  <1>2. /\ longer \in Seq(Events) /\ Len(longer) = Len(queue) + 1
        /\ \A i \in 1..Len(queue) : longer[i] = queue[i]
        /\ longer[Len(queue) + 1] = e
    BY <1>1, AppendProperties
  <1> HIDE DEF longer
  <1>3. DOMAIN longer = 1 .. Len(queue) + 1
    BY <1>2, LenProperties
  <1>4. ASSUME NEW i \in DOMAIN longer
        PROVE  longer[i].number \in 1 .. last + 1
    <2>1. CASE i = Len(queue) + 1
      BY <1>2, <2>1
    <2>2. CASE i \in 1..Len(queue)
      <3>1. queue[i].number \in 1..last
        BY <1>1, <2>2 DEF Good
      <3> QED BY <1>2, <2>2, <3>1
    <2> QED BY <1>1, <1>3, <2>1, <2>2
  <1>5. Lossless(longer)
    <2> SUFFICES ASSUME NEW i \in 1 .. Len(queue) + 1, longer[i].kind = "delta"
                 PROVE  /\ longer[i].offset + longer[i].len - longer[i].start <= MaxChars
                        /\ ~OpensGroup(longer[i]) =>
                             /\ i > 1
                             /\ longer[i - 1].kind = "delta"
                             /\ longer[i - 1].session = longer[i].session
                             /\ longer[i - 1].start = longer[i].start
                             /\ longer[i - 1].offset + longer[i - 1].len = longer[i].offset
      BY <1>3 DEF Lossless
    <2>1. CASE i = Len(queue) + 1
      <3>1. longer[i] = e /\ i - 1 = Len(queue)
        BY <1>1, <1>2, <2>1
      <3>2. ASSUME ~OpensGroup(e)
            PROVE  i > 1 /\ longer[i - 1] = queue[Len(queue)]
        <4>1. Len(queue) # 0
          BY <1>1, <3>2, EmptySeq
        <4> QED BY <1>1, <1>2, <2>1, <3>1, <4>1
      <3> QED BY <2>1, <3>1, <3>2
    <2>2. CASE i \in 1..Len(queue)
      <3>1. longer[i] = queue[i]
        BY <1>2, <2>2
      <3>2. i > 1 => longer[i - 1] = queue[i - 1]
        BY <1>1, <1>2, <2>2
      <3> QED BY <1>1, <2>2, <3>1, <3>2 DEF Good, Lossless
    <2> QED BY <1>1, <2>1, <2>2
  <1> QED BY <1>2, <1>4, <1>5 DEF Good, longer

(* What enqueue appends: the event itself, or as part of the last group.   *)
LEMMA PushAppends ==
    ASSUME NEW last \in Nat, Good(pending, last),
           NEW e \in Events, e.number = last + 1, e.start = e.offset, e.len <= MaxChars
    PROVE  /\ Good(Push(e), last + 1)
           /\ \E put \in Events : /\ Push(e) = Append(pending, put)
                                  /\ put.number = e.number /\ put.session = e.session
  <1>1. pending \in Seq(Events) /\ Len(pending) \in Nat
    BY LenProperties DEF Good
  <1>2. CASE pending # <<>> /\ Coalesces(pending[Len(pending)], e)
    <2> DEFINE before == pending[Len(pending)]
               put == [e EXCEPT !.start = before.start]
    <2>1. Len(pending) \in 1..Len(pending)
      BY <1>1, <1>2, EmptySeq
    <2>2. before \in Events
      BY <1>1, <2>1, ElementOfSeq
    <2>3. Coalesces(before, e)
      BY <1>2
    <2> HIDE DEF before
    <2>4. put \in Events
      BY <2>2 DEF Events
    <2>5. /\ put.number = e.number /\ put.session = e.session /\ put.kind = e.kind
          /\ put.offset = e.offset /\ put.len = e.len /\ put.start = before.start
      BY DEF Events
    <2>6. Push(e) = Append(pending, put)
      BY <1>2 DEF Push, before
    <2> HIDE DEF put
    <2>7. /\ put.kind = "delta" => put.offset + put.len - put.start <= MaxChars
          /\ before.kind = "delta" /\ before.session = put.session
          /\ before.start = put.start /\ before.offset + before.len = put.offset
      BY <2>3, <2>5 DEF Coalesces
    <2>8. Good(Append(pending, put), last + 1)
      BY <1>2, <2>4, <2>5, <2>7, GoodAppend DEF before
    <2> QED BY <2>4, <2>5, <2>6, <2>8
  <1>3. CASE ~(pending # <<>> /\ Coalesces(pending[Len(pending)], e))
    <2>1. Push(e) = Append(pending, e)
      BY <1>3 DEF Push
    <2>2. OpensGroup(e) /\ e.offset + e.len - e.start <= MaxChars
      <3>1. e.offset \in Nat /\ e.len \in Nat
        BY DEF Events
      <3> QED BY <3>1, BoundsAssumption DEF OpensGroup
    <2>3. Good(Append(pending, e), last + 1)
      BY <2>2, GoodAppend
    <2> QED BY <2>1, <2>3
  <1> QED BY <1>2, <1>3

(* What discard leaves: a group's predecessor is of the same session, so   *)
(* both stay or both go, and they still stand next to each other.          *)
LEMMA OthersElements ==
    ASSUME NEW queue \in Seq(Events), NEW session
    PROVE  LET kept == {i \in DOMAIN queue : queue[i].session # session} IN
           /\ OfOthers(queue, session) \in Seq(Events)
           /\ DOMAIN OfOthers(queue, session) = 1..Cardinality(kept)
           /\ Cardinality(kept) \in Nat
           /\ \A n \in 1..Cardinality(kept) :
                /\ Nth(kept, n) \in kept
                /\ OfOthers(queue, session)[n] = queue[Nth(kept, n)]
  <1> DEFINE kept == {i \in DOMAIN queue : queue[i].session # session}
             others == OfOthers(queue, session)
  <1>1. others = [n \in 1..Cardinality(kept) |-> queue[Nth(kept, n)]]
    BY DEF OfOthers, ElementsAt
  <1>2. kept \in SUBSET (1..Len(queue)) /\ Len(queue) \in Nat /\ DOMAIN queue = 1..Len(queue)
    BY LenProperties
  <1> HIDE DEF kept, others
  <1>3. /\ Cardinality(kept) \in Nat
        /\ \A n \in 1..Cardinality(kept) : Nth(kept, n) \in kept
    BY <1>2, NthOfKept
  <1>4. \A n \in 1..Cardinality(kept) : queue[Nth(kept, n)] \in Events
    <2>1. \A n \in 1..Cardinality(kept) : Nth(kept, n) \in 1..Len(queue)
      BY <1>2, <1>3
    <2> QED BY <2>1, ElementOfSeq
  <1>5. others \in [1..Cardinality(kept) -> Events]
    BY <1>1, <1>4
  <1>6. others \in Seq(Events)
    BY <1>3, <1>5, SeqDef
  <1> QED BY <1>1, <1>3, <1>5, <1>6 DEF kept, others

LEMMA GoodOthers ==
    ASSUME NEW queue, NEW last \in Nat, Good(queue, last), NEW session
    PROVE  Good(OfOthers(queue, session), last)
  <1> DEFINE kept == {i \in DOMAIN queue : queue[i].session # session}
             others == OfOthers(queue, session)
  <1>1. queue \in Seq(Events)
    BY DEF Good
  <1>2. kept \in SUBSET (1..Len(queue)) /\ Len(queue) \in Nat
    BY <1>1, LenProperties
  <1>3. /\ others \in Seq(Events) /\ DOMAIN others = 1..Cardinality(kept)
        /\ Cardinality(kept) \in Nat
        /\ \A n \in 1..Cardinality(kept) :
             Nth(kept, n) \in kept /\ others[n] = queue[Nth(kept, n)]
    BY <1>1, OthersElements
  <1>4. kept \in SUBSET DOMAIN queue /\ \A i \in DOMAIN queue : i \in kept <=> queue[i].session # session
    OBVIOUS
  <1> HIDE DEF kept, others
  <1>5. \A n \in 1..Cardinality(kept) : others[n].number \in 1..last
    BY <1>3, <1>4 DEF Good
  <1>6. Lossless(others)
    <2> SUFFICES ASSUME NEW n \in 1..Cardinality(kept), others[n].kind = "delta"
                 PROVE  /\ others[n].offset + others[n].len - others[n].start <= MaxChars
                        /\ ~OpensGroup(others[n]) =>
                             /\ n > 1
                             /\ others[n - 1].kind = "delta"
                             /\ others[n - 1].session = others[n].session
                             /\ others[n - 1].start = others[n].start
                             /\ others[n - 1].offset + others[n - 1].len = others[n].offset
      BY <1>3 DEF Lossless
    <2> DEFINE i == Nth(kept, n)
    <2>1. i \in kept /\ others[n] = queue[i] /\ Rank(kept, i) = n
      BY <1>2, <1>3, NthOfKept
    <2>2. i \in DOMAIN queue /\ queue[i].kind = "delta" /\ queue[i].session # session
      BY <1>4, <2>1
    <2> HIDE DEF i
    <2>3. CASE OpensGroup(others[n])
      BY <2>1, <2>2, <2>3 DEF Good, Lossless
    <2>4. CASE ~OpensGroup(others[n])
      <3>1. /\ i > 1 /\ queue[i - 1].kind = "delta"
            /\ queue[i - 1].session = queue[i].session
            /\ queue[i - 1].start = queue[i].start
            /\ queue[i - 1].offset + queue[i - 1].len = queue[i].offset
        BY <2>1, <2>2, <2>4 DEF Good, Lossless
      <3>2. i \in 1..Len(queue) /\ DOMAIN queue = 1..Len(queue)
        BY <1>1, <2>2, LenProperties
      <3>3. i - 1 \in DOMAIN queue /\ i - 1 < i
        BY <1>2, <3>1, <3>2
      <3>4. i - 1 \in kept
        BY <1>4, <2>2, <3>1, <3>3
      <3>5. Rank(kept, i - 1) \in Nat /\ Rank(kept, i - 1) >= 1 /\ Rank(kept, i - 1) < n
        <4>1. Rank(kept, i - 1) \in 1..Cardinality(kept)
          BY <1>2, <3>4, RankType
        <4>2. Rank(kept, i - 1) < Rank(kept, i)
          BY <1>2, <2>1, <3>3, <3>4, RankGrows
        <4> QED BY <1>3, <2>1, <4>1, <4>2
      <3>6. PICK p \in kept : /\ p < i /\ Rank(kept, p) = Rank(kept, i) - 1
                              /\ \A j \in kept : j < i => j <= p
        <4>1. Rank(kept, i) > 1
          BY <2>1, <3>5
        <4> QED BY <1>2, <2>1, <4>1, RankBefore
      <3>7. p = i - 1
        <4>1. i - 1 <= p /\ p < i /\ p \in Nat /\ i \in Nat
          BY <1>2, <3>2, <3>3, <3>4, <3>6
        <4> QED BY <4>1
      <3>8. Rank(kept, i - 1) = n - 1
        BY <2>1, <3>6, <3>7
      <3>9. Nth(kept, n - 1) = i - 1
        BY <1>2, <3>4, <3>8, NthOfKept
      <3>10. n > 1 /\ n - 1 \in 1..Cardinality(kept)
        BY <1>3, <3>5
      <3>11. others[n - 1] = queue[i - 1]
        BY <1>3, <3>9, <3>10
      <3> QED BY <2>1, <2>2, <2>4, <3>1, <3>10, <3>11 DEF Good, Lossless
    <2> QED BY <2>3, <2>4
  <1> QED BY <1>3, <1>5, <1>6 DEF Good, others

----------------------------------------------------------------------------

(* A frame is only ever scheduled together with a task: without this part  *)
(* scheduleDrain could return early on the strength of a frame alone.      *)
Scheduled ==
    /\ frame \in BOOLEAN /\ task \in BOOLEAN
    /\ frame => task
    /\ pending # <<>> => task

(* What a slice leaves is scheduled anew, whatever was scheduled before.   *)
LEMMA SliceSchedules ==
    ASSUME NEW queue, DrainSlice(queue)
    PROVE  Scheduled'
  <1>1. CASE pending' = <<>>
    BY <1>1 DEF DrainSlice, ScheduleAnew, CancelScheduled, Scheduled
  <1>2. CASE pending' # <<>>
    BY <1>2 DEF DrainSlice, ScheduleAnew, Scheduled
  <1> QED BY <1>1, <1>2

(* scheduleDrain leaves a task whenever something waits.                   *)
LEMMA DrainIsScheduled ==
    ASSUME Scheduled, ScheduleDrain(pending')
    PROVE  Scheduled'
  <1>1. CASE frame \/ task
    BY <1>1 DEF ScheduleDrain, Scheduled
  <1>2. CASE ~(frame \/ task) /\ pending' = <<>>
    BY <1>2 DEF ScheduleDrain, ScheduleAnew, CancelScheduled, Scheduled
  <1>3. CASE ~(frame \/ task) /\ pending' # <<>>
    BY <1>3 DEF ScheduleDrain, ScheduleAnew, Scheduled
  <1> QED BY <1>1, <1>2, <1>3

LEMMA StepScheduled == Scheduled /\ [BatcherNext]_batcherVars => Scheduled'
  <1> SUFFICES ASSUME Scheduled, [BatcherNext]_batcherVars
               PROVE  Scheduled'
    OBVIOUS
  <1>1. ASSUME NEW session \in FeedSessions, Delta(session)
        PROVE  Scheduled'
    BY <1>1, DrainIsScheduled DEF Delta, EnqueueBatchable
  <1>2. ASSUME NEW session \in FeedSessions, OtherRender(session)
        PROVE  Scheduled'
    BY <1>2, DrainIsScheduled DEF OtherRender, EnqueueBatchable
  <1>3. ASSUME NEW session \in FeedSessions, Control(session)
        PROVE  Scheduled'
    <2>1. CASE pending = <<>>
      BY <1>3, <2>1 DEF Control, Scheduled
    <2>2. CASE pending # <<>>
      BY <1>3, <2>2, SliceSchedules DEF Control
    <2> QED BY <2>1, <2>2
  <1>4. ASSUME NEW session \in FeedSessions, Discard(session)
        PROVE  Scheduled'
    <2>1. CASE pending' = <<>>
      BY <1>4, <2>1 DEF Discard, CancelScheduled, Scheduled
    <2>2. CASE pending' # <<>>
      BY <1>4, <2>2, DrainIsScheduled DEF Discard
    <2> QED BY <2>1, <2>2
  <1>5. CASE FrameFires
    BY <1>5, SliceSchedules DEF FrameFires
  <1>6. CASE TaskFires
    BY <1>6, SliceSchedules DEF TaskFires
  <1>7. CASE Flush
    BY <1>7 DEF Flush, CancelScheduled, Scheduled
  <1>8. CASE Dispose
    BY <1>8 DEF Dispose, CancelScheduled, Scheduled
  <1>9. CASE UNCHANGED batcherVars
    BY <1>9 DEF batcherVars, Scheduled
  <1> QED BY <1>1, <1>2, <1>3, <1>4, <1>5, <1>6, <1>7, <1>8, <1>9 DEF BatcherNext

(* Nothing waits without a task that will drain it (scheduleDrain,         *)
(* drainSlice, enqueue, discard, flush and dispose in eventBatcher.ts).    *)
THEOREM NothingStranded == BatcherSpec => []PendingIsScheduled
  <1>1. BatcherInit => Scheduled
    BY DEF BatcherInit, Scheduled
  <1>2. Scheduled => PendingIsScheduled
    BY DEF Scheduled, PendingIsScheduled
  <1> QED BY <1>1, <1>2, StepScheduled, PTL DEF BatcherSpec

(* The inductive invariant: beside the schedule, the queue is made of whole*)
(* groups of events that arrived, and a disposed batcher is at rest.       *)
Handled ==
    /\ Good(pending, arrived)
    /\ applied \in Seq(Nat)
    /\ sent \in [FeedSessions -> Nat]
    /\ arrived \in 0..MaxArrivals
    /\ disposed \in BOOLEAN
    /\ disposed => pending = <<>> /\ ~frame /\ ~task
    /\ Scheduled

LEMMA GoodEmpty == \A last : Good(<<>>, last)
  <1>1. <<>> \in Seq(Events) /\ Len(<<>>) = 0
    BY EmptySeq
  <1>2. DOMAIN <<>> = 1..0
    BY <1>1, LenProperties
  <1> QED BY <1>1, <1>2 DEF Good, Lossless

(* The numbers of the events one call of drainSlice applies.               *)
LEMMA PrefixElements ==
    ASSUME NEW S, NEW queue \in Seq(S), NEW n \in 0..Len(queue)
    PROVE  /\ SubSeq(queue, 1, n) \in Seq(S)
           /\ DOMAIN SubSeq(queue, 1, n) = 1..n
           /\ \A i \in 1..n : SubSeq(queue, 1, n)[i] = queue[i]
  <1>1. Len(queue) \in Nat
    BY LenProperties
  <1>2. n \in Nat /\ \A i \in 1..n : i \in 1..Len(queue)
    BY <1>1
  <1>3. \A i \in 1..n : queue[i] \in S
    BY <1>2, ElementOfSeq
  <1>4. /\ SubSeq(queue, 1, n) \in Seq(S)
        /\ Len(SubSeq(queue, 1, n)) = IF 1 <= n THEN n - 1 + 1 ELSE 0
        /\ \A i \in 1 .. n - 1 + 1 : SubSeq(queue, 1, n)[i] = queue[1 + i - 1]
    BY <1>2, <1>3, SubSeqProperties
  <1>5. Len(SubSeq(queue, 1, n)) = n
    BY <1>2, <1>4
  <1>6. DOMAIN SubSeq(queue, 1, n) = 1..n
    BY <1>4, <1>5, LenProperties
  <1>7. \A i \in 1..n : SubSeq(queue, 1, n)[i] = queue[i]
    BY <1>2, <1>4
  <1> QED BY <1>4, <1>6, <1>7

LEMMA NumbersType ==
    ASSUME NEW queue \in Seq(Events)
    PROVE  Numbers(queue) \in Seq(Nat)
  <1>1. Len(queue) \in Nat /\ DOMAIN queue = 1..Len(queue)
    BY LenProperties
  <1>2. \A i \in 1..Len(queue) : queue[i].number \in Nat
    <2>1. \A i \in 1..Len(queue) : queue[i] \in Events
      BY ElementOfSeq
    <2> QED BY <2>1 DEF Events
  <1>3. Numbers(queue) \in [1..Len(queue) -> Nat]
    BY <1>1, <1>2 DEF Numbers
  <1> QED BY <1>1, <1>3, SeqDef

LEMMA SliceHandled ==
    ASSUME NEW queue, NEW last \in Nat, Good(queue, last), queue # <<>>,
           applied \in Seq(Nat), DrainSlice(queue)
    PROVE  Good(pending', last) /\ applied' \in Seq(Nat)
  <1> DEFINE n == SliceEnd(queue)
  <1>1. queue \in Seq(Events) /\ Len(queue) \in Nat
    BY LenProperties DEF Good
  <1>2. n \in 1..Len(queue)
    BY <1>1, SliceIsPrefix
  <1>3. pending' = Rest(queue, n) /\ applied' = applied \o Numbers(SubSeq(queue, 1, n))
    BY DEF DrainSlice, Process
  <1>4. Good(Rest(queue, n), last)
    BY GoodRest
  <1> HIDE DEF n
  <1>5. n \in 0..Len(queue)
    BY <1>1, <1>2
  <1>6. Numbers(SubSeq(queue, 1, n)) \in Seq(Nat)
    BY <1>1, <1>5, PrefixElements, NumbersType
  <1>7. applied \o Numbers(SubSeq(queue, 1, n)) \in Seq(Nat)
    BY <1>6, ConcatProperties
  <1> QED BY <1>3, <1>4, <1>7

(* The event a caller enqueues.                                            *)
LEMMA EventType ==
    ASSUME NEW kind \in {"delta", "render", "control"}, NEW session \in FeedSessions,
           NEW offset \in Nat, NEW len \in Nat, arrived \in Nat
    PROVE  /\ Event(kind, session, offset, len) \in Events
           /\ Event(kind, session, offset, len).number = arrived + 1
           /\ Event(kind, session, offset, len).session = session
           /\ Event(kind, session, offset, len).kind = kind
           /\ Event(kind, session, offset, len).start = Event(kind, session, offset, len).offset
           /\ Event(kind, session, offset, len).len = len
  BY DEF Event, Events

LEMMA EnqueueHandled ==
    ASSUME Handled, ~disposed, NEW e \in Events, e.number = arrived + 1,
           e.start = e.offset, e.len <= MaxChars,
           arrived < MaxArrivals, arrived' = arrived + 1,
           sent' \in [FeedSessions -> Nat], EnqueueBatchable(e)
    PROVE  Handled'
  <1>1. Good(Push(e), arrived + 1)
    <2>1. arrived \in Nat /\ Good(pending, arrived)
      BY BoundsAssumption DEF Handled
    <2> QED BY <2>1, PushAppends
  <1>2. Good(pending, arrived)'
    BY <1>1 DEF EnqueueBatchable, Good, Lossless, OpensGroup
  <1>3. Scheduled'
    BY DrainIsScheduled DEF Handled, EnqueueBatchable
  <1>4. arrived' \in 0..MaxArrivals
    BY BoundsAssumption DEF Handled
  <1> QED BY <1>2, <1>3, <1>4 DEF Handled, EnqueueBatchable

LEMMA StepHandled == Handled /\ [BatcherNext]_batcherVars => Handled'
  <1> SUFFICES ASSUME Handled, [BatcherNext]_batcherVars
               PROVE  Handled'
    OBVIOUS
  <1>0. Scheduled'
    BY StepScheduled DEF Handled
  <1>a. /\ arrived \in Nat /\ MaxArrivals \in Nat /\ MaxChars \in Nat
        /\ Good(pending, arrived) /\ applied \in Seq(Nat)
    BY BoundsAssumption DEF Handled
  <1>1. ASSUME NEW session \in FeedSessions, Delta(session)
        PROVE  Handled'
    <2>1. PICK lost \in {0, 1}, len \in 1..MaxChars :
             /\ sent' = [sent EXCEPT ![session] = sent[session] + lost + len]
             /\ EnqueueBatchable(Event("delta", session, sent[session] + lost, len))
      BY <1>1 DEF Delta
    <2>2. sent[session] + lost \in Nat /\ len \in Nat /\ len <= MaxChars
      BY <1>a DEF Handled
    <2>3. sent' \in [FeedSessions -> Nat]
      <3>1. sent[session] + lost + len \in Nat
        BY <2>2
      <3> QED BY <2>1, <3>1 DEF Handled
    <2> DEFINE e == Event("delta", session, sent[session] + lost, len)
    <2>4. /\ e \in Events /\ e.number = arrived + 1 /\ e.start = e.offset
          /\ e.len <= MaxChars
      <3> DEFINE offset == sent[session] + lost
      <3>1. offset \in Nat /\ len \in Nat /\ len <= MaxChars /\ arrived \in Nat
        BY <1>a, <2>2
      <3> HIDE DEF offset
      <3>2. /\ Event("delta", session, offset, len) \in Events
            /\ Event("delta", session, offset, len).number = arrived + 1
            /\ Event("delta", session, offset, len).start
                 = Event("delta", session, offset, len).offset
            /\ Event("delta", session, offset, len).len = len
            /\ Event("delta", session, offset, len).session = session
        BY <3>1, EventType
      <3> QED BY <3>1, <3>2 DEF offset
    <2>5. EnqueueBatchable(e)
      BY <2>1
    <2> HIDE DEF e
    <2> QED BY <1>1, <2>3, <2>4, <2>5, EnqueueHandled DEF Delta
  <1>2. ASSUME NEW session \in FeedSessions, OtherRender(session)
        PROVE  Handled'
    <2>1. sent' \in [FeedSessions -> Nat] /\ 0 <= MaxChars
      BY <1>2, <1>a DEF OtherRender, Handled
    <2> DEFINE e == Event("render", session, 0, 0)
    <2>2. /\ e \in Events /\ e.number = arrived + 1 /\ e.start = e.offset
          /\ e.len <= MaxChars
      BY <1>a, <2>1, EventType
    <2>3. EnqueueBatchable(e)
      BY <1>2 DEF OtherRender
    <2> HIDE DEF e
    <2> QED BY <1>2, <2>1, <2>2, <2>3, EnqueueHandled DEF OtherRender
  <1>3. ASSUME NEW session \in FeedSessions, Control(session)
        PROVE  Handled'
    <2> DEFINE e == Event("control", session, 0, 0)
    <2>1. /\ e \in Events /\ e.number = arrived + 1 /\ OpensGroup(e) /\ e.kind # "delta"
      BY <1>a, EventType DEF OpensGroup
    <2> HIDE DEF e
    <2>2. Good(pending', arrived + 1) /\ applied' \in Seq(Nat)
      <3>1. CASE pending = <<>>
        <4>1. pending' = <<>> /\ applied' = applied \o Numbers(<<e>>)
          BY <1>3, <3>1 DEF Control, Process, e
        <4>2. <<e>> \in Seq(Events)
          BY <2>1
        <4>3. Numbers(<<e>>) \in Seq(Nat)
          BY <4>2, NumbersType
        <4>4. applied \o Numbers(<<e>>) \in Seq(Nat)
          BY <1>a, <4>3, ConcatProperties
        <4> QED BY <4>1, <4>4, GoodEmpty
      <3>2. CASE pending # <<>>
        <4>1. DrainSlice(Append(pending, e))
          BY <1>3, <3>2 DEF Control, e
        <4>2. Good(Append(pending, e), arrived + 1)
          BY <1>a, <2>1, GoodAppend
        <4>3. Append(pending, e) # <<>>
          BY <1>a, <2>1, AppendProperties DEF Good
        <4>4. arrived + 1 \in Nat
          BY <1>a
        <4> QED BY <1>a, <4>1, <4>2, <4>3, <4>4, SliceHandled
      <3> QED BY <3>1, <3>2
    <2>3. arrived' = arrived + 1 /\ arrived' \in 0..MaxArrivals
      BY <1>3, <1>a DEF Control
    <2>4. Good(pending, arrived)'
      BY <2>2, <2>3 DEF Good, Lossless, OpensGroup
    <2> QED BY <1>0, <1>3, <2>2, <2>3, <2>4 DEF Control, Handled
  <1>4. ASSUME NEW session \in FeedSessions, Discard(session)
        PROVE  Handled'
    <2>1. Good(OfOthers(pending, session), arrived)
      BY <1>a, GoodOthers
    <2>2. pending' = OfOthers(pending, session) /\ arrived' = arrived
      BY <1>4 DEF Discard
    <2>3. Good(pending, arrived)'
      BY <2>1, <2>2 DEF Good, Lossless, OpensGroup
    <2> QED BY <1>0, <1>4, <2>3 DEF Discard, Handled
  <1>5. ASSUME pending # <<>>, DrainSlice(pending), UNCHANGED <<disposed, sent, arrived>>
        PROVE  Handled'
    <2>1. Good(pending', arrived) /\ applied' \in Seq(Nat)
      BY <1>a, <1>5, SliceHandled
    <2>2. Good(pending, arrived)'
      BY <1>5, <2>1 DEF Good, Lossless, OpensGroup
    <2>3. ~disposed
      BY <1>5 DEF Handled
    <2> QED BY <1>0, <1>5, <2>1, <2>2, <2>3 DEF Handled
  <1>6. CASE Flush
    <2>1. applied \o Numbers(pending) \in Seq(Nat)
      BY <1>a, NumbersType, ConcatProperties DEF Good
    <2>2. Good(pending, arrived)'
      BY <1>6, GoodEmpty DEF Flush, Good, Lossless, OpensGroup
    <2> QED BY <1>0, <1>6, <2>1, <2>2 DEF Flush, Process, Handled
  <1>7. CASE Dispose
    <2>1. Good(pending, arrived)'
      BY <1>7, GoodEmpty DEF Dispose, Good, Lossless, OpensGroup
    <2> QED BY <1>0, <1>7, <2>1 DEF Dispose, CancelScheduled, Handled
  <1>8. CASE UNCHANGED batcherVars
    BY <1>8 DEF batcherVars, Handled, Good, Lossless, OpensGroup, Scheduled
  <1> QED BY <1>1, <1>2, <1>3, <1>4, <1>5, <1>6, <1>7, <1>8 DEF BatcherNext, FrameFires, TaskFires

LEMMA AlwaysHandled == BatcherSpec => []Handled
  <1>1. BatcherInit => Handled
    <2>1. ASSUME BatcherInit
          PROVE  Handled
      <3>1. Good(pending, arrived)
        BY <2>1, GoodEmpty DEF BatcherInit
      <3>2. applied \in Seq(Nat)
        BY <2>1, EmptySeq DEF BatcherInit
      <3>3. sent \in [FeedSessions -> Nat] /\ arrived \in 0..MaxArrivals
        BY <2>1, BoundsAssumption DEF BatcherInit
      <3> QED BY <2>1, <3>1, <3>2, <3>3 DEF BatcherInit, Handled, Scheduled
    <2> QED BY <2>1
  <1> QED BY <1>1, StepHandled, PTL DEF BatcherSpec

(* The shape of the state, and a disposed batcher's rest (dispose).        *)
THEOREM StateWellFormed == BatcherSpec => []BatcherTypeOK
  <1>1. Handled => BatcherTypeOK
    BY DEF Handled, Good, Scheduled, BatcherTypeOK
  <1> QED BY <1>1, AlwaysHandled, PTL

(* What waits in one group is one stretch of one stream, no longer than    *)
(* the cap (coalesceAppRenderEvents), whatever slices and discards did.    *)
THEOREM GroupsStayWhole == BatcherSpec => []GroupsLossless
  <1>1. Handled => GroupsLossless
    BY DEF Handled, Good, Lossless, GroupsLossless
  <1> QED BY <1>1, AlwaysHandled, PTL

----------------------------------------------------------------------------
(* The batcher implements the ordered feed: each step of the queue is one  *)
(* of the backlog, which holds of each event its number and its session.   *)

Pairs == Nat \X FeedSessions

LEMMA BacklogElements ==
    ASSUME NEW queue \in Seq(Events)
    PROVE  /\ Backlog(queue) \in Seq(Pairs)
           /\ Len(Backlog(queue)) = Len(queue)
           /\ DOMAIN Backlog(queue) = 1..Len(queue)
           /\ \A i \in 1..Len(queue) :
                Backlog(queue)[i] = <<queue[i].number, queue[i].session>>
  <1>1. Len(queue) \in Nat /\ DOMAIN queue = 1..Len(queue)
    BY LenProperties
  <1>2. \A i \in 1..Len(queue) : <<queue[i].number, queue[i].session>> \in Pairs
    <2>1. \A i \in 1..Len(queue) : queue[i] \in Events
      BY ElementOfSeq
    <2> QED BY <2>1 DEF Events, Pairs
  <1>3. Backlog(queue) \in [1..Len(queue) -> Pairs]
    BY <1>1, <1>2 DEF Backlog
  <1>4. Backlog(queue) \in Seq(Pairs)
    BY <1>1, <1>3, SeqDef
  <1>5. Len(Backlog(queue)) = Len(queue)
    BY <1>1, <1>3, <1>4, LenProperties
  <1> QED BY <1>1, <1>3, <1>4, <1>5 DEF Backlog

LEMMA BacklogEmpty == Backlog(<<>>) = <<>>
  <1>1. <<>> \in Seq(Events) /\ Len(<<>>) = 0
    BY EmptySeq
  <1>2. Backlog(<<>>) \in Seq(Pairs) /\ Len(Backlog(<<>>)) = 0
    BY <1>1, BacklogElements
  <1> QED BY <1>2, EmptySeq

LEMMA BacklogAppend ==
    ASSUME NEW queue \in Seq(Events), NEW e \in Events
    PROVE  Backlog(Append(queue, e)) = Append(Backlog(queue), <<e.number, e.session>>)
  <1> DEFINE longer == Append(queue, e)
             waiting == Append(Backlog(queue), <<e.number, e.session>>)
  <1>1. /\ longer \in Seq(Events) /\ Len(longer) = Len(queue) + 1
        /\ \A i \in 1..Len(queue) : longer[i] = queue[i]
        /\ longer[Len(queue) + 1] = e
    BY AppendProperties
  <1>2. <<e.number, e.session>> \in Pairs
    BY DEF Events, Pairs
  <1>3. /\ waiting \in Seq(Pairs) /\ Len(waiting) = Len(queue) + 1
        /\ \A i \in 1..Len(queue) : waiting[i] = <<queue[i].number, queue[i].session>>
        /\ waiting[Len(queue) + 1] = <<e.number, e.session>>
    <2>1. /\ Backlog(queue) \in Seq(Pairs) /\ Len(Backlog(queue)) = Len(queue)
          /\ \A i \in 1..Len(queue) :
                Backlog(queue)[i] = <<queue[i].number, queue[i].session>>
      BY BacklogElements
    <2> QED BY <1>2, <2>1, AppendProperties
  <1> HIDE DEF longer, waiting
  <1>4. /\ Backlog(longer) \in Seq(Pairs) /\ Len(Backlog(longer)) = Len(queue) + 1
        /\ \A i \in 1 .. Len(queue) + 1 :
              Backlog(longer)[i] = <<longer[i].number, longer[i].session>>
    BY <1>1, BacklogElements
  <1>5. \A i \in 1 .. Len(queue) + 1 : Backlog(longer)[i] = waiting[i]
    <2>1. Len(queue) \in Nat
      BY LenProperties
    <2>2. ASSUME NEW i \in 1 .. Len(queue) + 1
          PROVE  Backlog(longer)[i] = waiting[i]
      <3>1. CASE i = Len(queue) + 1
        BY <1>1, <1>3, <1>4, <3>1
      <3>2. CASE i \in 1..Len(queue)
        BY <1>1, <1>3, <1>4, <3>2
      <3> QED BY <2>1, <3>1, <3>2
    <2> QED BY <2>2
  <1>6. Backlog(longer) = waiting
    BY <1>3, <1>4, <1>5, SeqEqual
  <1> QED BY <1>6 DEF longer, waiting

(* Applying the first n of the queue applies the first n of the backlog.   *)
LEMMA BacklogSplit ==
    ASSUME NEW queue \in Seq(Events), NEW n \in 0..Len(queue)
    PROVE  /\ Feed!Numbers(SubSeq(Backlog(queue), 1, n)) = Numbers(SubSeq(queue, 1, n))
           /\ Backlog(Rest(queue, n)) = SubSeq(Backlog(queue), n + 1, Len(Backlog(queue)))
  <1> DEFINE waiting == Backlog(queue)
  <1>1. /\ waiting \in Seq(Pairs) /\ Len(waiting) = Len(queue) /\ Len(queue) \in Nat
        /\ \A i \in 1..Len(queue) : waiting[i] = <<queue[i].number, queue[i].session>>
    BY BacklogElements, LenProperties
  <1> HIDE DEF waiting
  <1>2. Feed!Numbers(SubSeq(waiting, 1, n)) = Numbers(SubSeq(queue, 1, n))
    <2>1. /\ DOMAIN SubSeq(waiting, 1, n) = 1..n
          /\ \A i \in 1..n : SubSeq(waiting, 1, n)[i] = waiting[i]
      BY <1>1, PrefixElements
    <2>2. /\ DOMAIN SubSeq(queue, 1, n) = 1..n
          /\ \A i \in 1..n : SubSeq(queue, 1, n)[i] = queue[i]
      BY PrefixElements
    <2>3. \A i \in 1..n : waiting[i][1] = queue[i].number
      BY <1>1
    <2>4. Feed!Numbers(SubSeq(waiting, 1, n)) = [i \in 1..n |-> SubSeq(waiting, 1, n)[i][1]]
      BY <2>1 DEF Feed!Numbers
    <2>5. Numbers(SubSeq(queue, 1, n)) = [i \in 1..n |-> SubSeq(queue, 1, n)[i].number]
      BY <2>2 DEF Numbers
    <2> QED BY <2>1, <2>2, <2>3, <2>4, <2>5
  <1>3. Backlog(Rest(queue, n)) = SubSeq(waiting, n + 1, Len(waiting))
    <2> DEFINE rest == Rest(queue, n)
               others == SubSeq(waiting, n + 1, Len(waiting))
    <2>1. /\ rest \in Seq(Events) /\ Len(rest) = Len(queue) - n
          /\ \A i \in 1 .. Len(queue) - n : rest[i] = queue[i + n]
      BY RestElements
    <2>2. \A i \in n + 1 .. Len(queue) : waiting[i] \in Pairs
      <3>1. \A i \in n + 1 .. Len(queue) : i \in 1..Len(waiting)
        BY <1>1
      <3> QED BY <1>1, <3>1, ElementOfSeq
    <2>3. /\ others \in Seq(Pairs)
          /\ Len(others) = IF n + 1 <= Len(queue) THEN Len(queue) - (n + 1) + 1 ELSE 0
          /\ \A i \in 1 .. Len(queue) - (n + 1) + 1 : others[i] = waiting[(n + 1) + i - 1]
      <3>1. n + 1 \in Int /\ Len(queue) \in Int
        BY <1>1
      <3> QED BY <1>1, <2>2, <3>1, SubSeqProperties
    <2> HIDE DEF rest, others
    <2>4. Len(others) = Len(queue) - n
      BY <1>1, <2>3
    <2>5. \A i \in 1 .. Len(queue) - n : others[i] = waiting[i + n]
      BY <1>1, <2>3
    <2>6. /\ Backlog(rest) \in Seq(Pairs) /\ Len(Backlog(rest)) = Len(queue) - n
          /\ \A i \in 1 .. Len(queue) - n :
                Backlog(rest)[i] = <<rest[i].number, rest[i].session>>
      BY <2>1, BacklogElements
    <2>7. \A i \in 1 .. Len(queue) - n : i + n \in 1..Len(queue)
      BY <1>1
    <2>8. \A i \in 1 .. Len(queue) - n : Backlog(rest)[i] = others[i]
      BY <1>1, <2>1, <2>5, <2>6, <2>7
    <2>9. Backlog(rest) = others
      BY <2>3, <2>4, <2>6, <2>8, SeqEqual
    <2> QED BY <2>9 DEF rest, others
  <1> QED BY <1>2, <1>3 DEF waiting

(* What Feed!Drop asks of the backlog it leaves.                           *)
Dropped(waiting, session, left) ==
    \E n \in 0..Len(waiting) : \E at \in [1..n -> DOMAIN waiting] :
        /\ \A i, j \in 1..n : i < j => at[i] < at[j]
        /\ \A i \in DOMAIN waiting :
             waiting[i][2] # session <=> \E j \in 1..n : at[j] = i
        /\ left = [j \in 1..n |-> waiting[at[j]]]

LEMMA BacklogOfOthers ==
    ASSUME NEW queue \in Seq(Events), NEW session
    PROVE  Dropped(Backlog(queue), session, Backlog(OfOthers(queue, session)))
  <1> DEFINE kept == {i \in DOMAIN queue : queue[i].session # session}
             others == OfOthers(queue, session)
             waiting == Backlog(queue)
             n == Cardinality(kept)
             at == [j \in 1..n |-> Nth(kept, j)]
  <1>1. /\ DOMAIN queue = 1..Len(queue) /\ DOMAIN waiting = 1..Len(queue)
        /\ \A i \in 1..Len(queue) : waiting[i] = <<queue[i].number, queue[i].session>>
    BY BacklogElements, LenProperties
  <1>2. Len(waiting) = Len(queue) /\ Len(queue) \in Nat
    BY BacklogElements, LenProperties
  <1>3. /\ others \in Seq(Events) /\ DOMAIN others = 1..n
        /\ \A j \in 1..n : others[j] = queue[Nth(kept, j)]
    BY OthersElements
  <1>4. /\ kept \in SUBSET (1..Len(queue))
        /\ \A i \in 1..Len(queue) : i \in kept <=> queue[i].session # session
    BY <1>1
  <1> HIDE DEF kept, others, waiting
  <1>5. /\ n \in Nat
        /\ \A j \in 1..n : Nth(kept, j) \in kept /\ Rank(kept, Nth(kept, j)) = j
        /\ \A i \in kept : Nth(kept, Rank(kept, i)) = i
    BY <1>2, <1>4, NthOfKept
  <1>6. n <= Len(queue)
    <2>1. IsFiniteSet(1..Len(queue)) /\ Cardinality(1..Len(queue)) = Len(queue)
      <3>1. 1 \in Int /\ Len(queue) \in Int
        BY <1>2
      <3>2. /\ IsFiniteSet(1..Len(queue))
            /\ Cardinality(1..Len(queue)) = IF 1 > Len(queue) THEN 0 ELSE Len(queue) - 1 + 1
        BY <3>1, FS_Interval
      <3> QED BY <1>2, <3>2
    <2> QED BY <1>4, <2>1, FS_Subset
  <1> HIDE DEF n
  <1>7. at \in [1..n -> DOMAIN waiting]
    BY <1>1, <1>4, <1>5
  <1>8. \A i, j \in 1..n : i < j => at[i] < at[j]
    <2> SUFFICES ASSUME NEW i \in 1..n, NEW j \in 1..n, i < j
                 PROVE  at[i] < at[j]
      OBVIOUS
    <2>1. /\ at[i] \in kept /\ Rank(kept, at[i]) = i
          /\ at[j] \in kept /\ Rank(kept, at[j]) = j
      BY <1>5
    <2> HIDE DEF at
    <2>2. at[i] \in Nat /\ at[j] \in Nat /\ i \in Nat /\ j \in Nat
      <3>1. at[i] \in 1..Len(queue) /\ at[j] \in 1..Len(queue)
        BY <1>4, <2>1
      <3> QED BY <1>2, <1>5, <3>1
    <2>3. at[i] # at[j]
      BY <2>1, <2>2
    <2>4. ~(at[j] < at[i])
      <3>1. ASSUME at[j] < at[i]
            PROVE  FALSE
        <4>1. Rank(kept, at[j]) < Rank(kept, at[i])
          BY <1>2, <1>4, <2>1, <3>1, RankGrows
        <4> QED BY <2>1, <2>2, <4>1
      <3> QED BY <3>1
    <2> QED BY <2>2, <2>3, <2>4
  <1>9. \A i \in DOMAIN waiting : waiting[i][2] # session <=> \E j \in 1..n : at[j] = i
    <2> SUFFICES ASSUME NEW i \in 1..Len(queue)
                 PROVE  waiting[i][2] # session <=> \E j \in 1..n : at[j] = i
      BY <1>1
    <2>1. waiting[i][2] # session <=> i \in kept
      BY <1>1, <1>4
    <2>2. ASSUME i \in kept
          PROVE  \E j \in 1..n : at[j] = i
      <3>1. Rank(kept, i) \in 1..n
        BY <1>2, <1>4, <2>2, RankType DEF n
      <3>2. at[Rank(kept, i)] = i
        BY <1>5, <2>2, <3>1
      <3> QED BY <3>1, <3>2
    <2>3. ASSUME NEW j \in 1..n, at[j] = i
          PROVE  i \in kept
      BY <1>5, <2>3
    <2> QED BY <2>1, <2>2, <2>3
  <1>10. Backlog(others) = [j \in 1..n |-> waiting[at[j]]]
    <2>1. Backlog(others) = [j \in 1..n |-> <<others[j].number, others[j].session>>]
      BY <1>3 DEF Backlog, n
    <2>2. \A j \in 1..n : waiting[at[j]] = <<others[j].number, others[j].session>>
      <3>1. \A j \in 1..n : at[j] \in 1..Len(queue) /\ others[j] = queue[at[j]]
        BY <1>3, <1>4, <1>5 DEF n
      <3> HIDE DEF at
      <3> QED BY <1>1, <3>1
    <2> HIDE DEF at
    <2> QED BY <2>1, <2>2
  <1>11. n \in 0..Len(waiting)
    BY <1>2, <1>5, <1>6
  <1> HIDE DEF at
  <1>12. Dropped(waiting, session, Backlog(others))
    BY <1>7, <1>8, <1>9, <1>10, <1>11 DEF Dropped
  <1> QED BY <1>12 DEF others, waiting

(* A slice of the queue is a first part of the backlog that is applied.    *)
LEMMA SliceIsApplied ==
    ASSUME NEW queue \in Seq(Events), queue # <<>>, DrainSlice(queue)
    PROVE  \E n \in 1..Len(Backlog(queue)) :
             /\ applied' = applied \o Feed!Numbers(SubSeq(Backlog(queue), 1, n))
             /\ Backlog(pending)' = SubSeq(Backlog(queue), n + 1, Len(Backlog(queue)))
  <1> DEFINE n == SliceEnd(queue)
  <1>1. n \in 1..Len(queue)
    BY SliceIsPrefix
  <1>2. pending' = Rest(queue, n) /\ applied' = applied \o Numbers(SubSeq(queue, 1, n))
    BY DEF DrainSlice, Process
  <1> HIDE DEF n
  <1>3. Len(Backlog(queue)) = Len(queue)
    BY BacklogElements
  <1>4. n \in 0..Len(queue)
    <2>1. Len(queue) \in Nat
      BY LenProperties
    <2> QED BY <1>1, <2>1
  <1>5. /\ Feed!Numbers(SubSeq(Backlog(queue), 1, n)) = Numbers(SubSeq(queue, 1, n))
        /\ Backlog(Rest(queue, n)) = SubSeq(Backlog(queue), n + 1, Len(Backlog(queue)))
    BY <1>4, BacklogSplit
  <1>6. Backlog(pending)' = Backlog(Rest(queue, n))
    BY <1>2 DEF Backlog
  <1> QED BY <1>1, <1>2, <1>3, <1>5, <1>6

(* An enqueued event waits behind the others, and nothing is applied yet.  *)
LEMMA EnqueueArrives ==
    ASSUME Handled, NEW session \in FeedSessions, NEW e \in Events, e.number = arrived + 1,
           e.session = session, e.start = e.offset, e.len <= MaxChars,
           arrived' = arrived + 1, EnqueueBatchable(e)
    PROVE  Feed!Arrive(session)
  <1>1. Good(pending, arrived) /\ arrived \in Nat /\ pending \in Seq(Events)
        /\ applied \in Seq(Nat)
    BY BoundsAssumption DEF Handled, Good
  <1>2. PICK put \in Events : /\ Push(e) = Append(pending, put)
                              /\ put.number = e.number /\ put.session = e.session
    BY <1>1, PushAppends
  <1> DEFINE waiting == Append(Backlog(pending), <<arrived', session>>)
  <1>3. Backlog(Push(e)) = waiting
    BY <1>1, <1>2, BacklogAppend
  <1>4. Push(e) \in Seq(Events)
    BY <1>1, <1>2, AppendProperties
  <1>5. waiting \in Seq(Pairs)
    BY <1>3, <1>4, BacklogElements
  <1>6. pending' = Push(e) /\ UNCHANGED <<applied, disposed>>
    BY DEF EnqueueBatchable
  <1>7. Backlog(pending)' = waiting
    BY <1>3, <1>6 DEF Backlog
  <1>8. Feed!Numbers(SubSeq(waiting, 1, 0)) = <<>>
    <2>1. SubSeq(Backlog(Push(e)), 1, 0) = <<>> /\ SubSeq(Push(e), 1, 0) = <<>>
      BY SubSeqEmpty
    <2>2. 0 \in 0..Len(Push(e))
      BY <1>4, LenProperties
    <2>3. Feed!Numbers(SubSeq(waiting, 1, 0)) = Numbers(SubSeq(Push(e), 1, 0))
      BY <1>3, <1>4, <2>2, BacklogSplit
    <2>4. Numbers(<<>>) = <<>>
      BY DEF Numbers
    <2> QED BY <2>1, <2>3, <2>4
  <1> HIDE DEF waiting
  <1>9. applied' = applied \o Feed!Numbers(SubSeq(waiting, 1, 0))
    BY <1>1, <1>6, <1>8, ConcatEmptySeq
  <1>10. Backlog(pending)' = SubSeq(waiting, 0 + 1, Len(waiting))
    BY <1>5, <1>7, SubSeqFull
  <1>11. 0 \in 0..Len(waiting)
    BY <1>5, LenProperties
  <1> QED BY <1>6, <1>9, <1>10, <1>11 DEF Feed!Arrive, Feed!ApplyFirst, waiting

LEMMA StepIsFeedStep ==
    ASSUME Handled, [BatcherNext]_batcherVars
    PROVE  [Feed!Next]_<<Backlog(pending), applied, arrived, disposed>>
  <1>a. /\ arrived \in Nat /\ MaxChars \in Nat /\ Good(pending, arrived)
        /\ pending \in Seq(Events) /\ applied \in Seq(Nat)
        /\ disposed \in BOOLEAN /\ (disposed => pending = <<>>)
    BY BoundsAssumption DEF Handled, Good, BatcherTypeOK
  <1>1. ASSUME NEW session \in FeedSessions, Delta(session)
        PROVE  Feed!Arrive(session)
    <2>1. PICK lost \in {0, 1}, len \in 1..MaxChars :
             EnqueueBatchable(Event("delta", session, sent[session] + lost, len))
      BY <1>1 DEF Delta
    <2>2. sent[session] + lost \in Nat /\ len \in Nat /\ len <= MaxChars
      BY <1>a DEF Handled
    <2> DEFINE e == Event("delta", session, sent[session] + lost, len)
    <2>3. /\ e \in Events /\ e.number = arrived + 1 /\ e.start = e.offset
          /\ e.len <= MaxChars /\ e.session = session
      <3> DEFINE offset == sent[session] + lost
      <3>1. offset \in Nat /\ len \in Nat /\ len <= MaxChars /\ arrived \in Nat
        BY <1>a, <2>2
      <3> HIDE DEF offset
      <3>2. /\ Event("delta", session, offset, len) \in Events
            /\ Event("delta", session, offset, len).number = arrived + 1
            /\ Event("delta", session, offset, len).start
                 = Event("delta", session, offset, len).offset
            /\ Event("delta", session, offset, len).len = len
            /\ Event("delta", session, offset, len).session = session
        BY <3>1, EventType
      <3> QED BY <3>1, <3>2 DEF offset
    <2>4. EnqueueBatchable(e) /\ arrived' = arrived + 1
      BY <1>1, <2>1 DEF Delta
    <2> HIDE DEF e
    <2> QED BY <2>3, <2>4, EnqueueArrives
  <1>2. ASSUME NEW session \in FeedSessions, OtherRender(session)
        PROVE  Feed!Arrive(session)
    <2> DEFINE e == Event("render", session, 0, 0)
    <2>1. /\ e \in Events /\ e.number = arrived + 1 /\ e.start = e.offset
          /\ e.len <= MaxChars /\ e.session = session
      <3>1. arrived \in Nat /\ 0 \in Nat /\ 0 <= MaxChars
        BY <1>a
      <3> QED BY <3>1, EventType
    <2>2. EnqueueBatchable(e) /\ arrived' = arrived + 1
      BY <1>2 DEF OtherRender
    <2> HIDE DEF e
    <2> QED BY <2>1, <2>2, EnqueueArrives
  <1>3. ASSUME NEW session \in FeedSessions, Control(session)
        PROVE  Feed!Arrive(session)
    <2> DEFINE e == Event("control", session, 0, 0)
               queue == Append(pending, e)
               waiting == Append(Backlog(pending), <<arrived', session>>)
    <2>1. e \in Events /\ e.number = arrived + 1 /\ e.session = session
      <3>1. arrived \in Nat /\ 0 \in Nat /\ 0 <= MaxChars
        BY <1>a
      <3> QED BY <3>1, EventType
    <2>2. arrived' = arrived + 1 /\ disposed' = disposed
      BY <1>3 DEF Control
    <2>3. queue \in Seq(Events) /\ queue # <<>> /\ Len(queue) = Len(pending) + 1
      BY <1>a, <2>1, AppendProperties
    <2>4. Backlog(queue) = waiting /\ Len(waiting) = Len(queue)
      <3>1. pending \in Seq(Events)
        BY <1>a
      <3>2. Backlog(queue) = waiting
        BY <2>1, <2>2, <3>1, BacklogAppend
      <3>3. Len(Backlog(queue)) = Len(queue)
        BY <2>3, BacklogElements
      <3> QED BY <3>2, <3>3
    <2>5. \E n \in 0..Len(waiting) :
             /\ applied' = applied \o Feed!Numbers(SubSeq(waiting, 1, n))
             /\ Backlog(pending)' = SubSeq(waiting, n + 1, Len(waiting))
      <3>1. CASE pending = <<>>
        <4>1. queue = <<e>> /\ Len(queue) = 1
          BY <2>1, <2>3, <3>1
        <4>2. pending' = <<>> /\ applied' = applied \o Numbers(queue)
          BY <1>3, <3>1, <4>1 DEF Control, Process
        <4> HIDE DEF queue, e
        <4>3. SubSeq(queue, 1, Len(queue)) = queue
          BY <2>3, SubSeqFull
        <4>4. Rest(queue, 1) = <<>>
          BY <4>1, SubSeqEmpty DEF Rest
        <4>5. 1 \in 0..Len(queue)
          BY <4>1
        <4>6. /\ Feed!Numbers(SubSeq(Backlog(queue), 1, 1)) = Numbers(SubSeq(queue, 1, 1))
              /\ Backlog(Rest(queue, 1)) = SubSeq(Backlog(queue), 1 + 1, Len(Backlog(queue)))
          BY <2>3, <4>5, BacklogSplit
        <4>7. Backlog(pending)' = Backlog(Rest(queue, 1))
          BY <4>2, <4>4 DEF Backlog
        <4> HIDE DEF waiting
        <4> QED BY <2>4, <4>1, <4>2, <4>3, <4>5, <4>6, <4>7
      <3>2. CASE pending # <<>>
        <4>1. DrainSlice(queue)
          BY <1>3, <3>2 DEF Control
        <4> HIDE DEF queue
        <4>2. PICK n \in 1..Len(Backlog(queue)) :
                /\ applied' = applied \o Feed!Numbers(SubSeq(Backlog(queue), 1, n))
                /\ Backlog(pending)' = SubSeq(Backlog(queue), n + 1, Len(Backlog(queue)))
          BY <2>3, <4>1, SliceIsApplied
        <4>3. n \in 0..Len(Backlog(queue))
          <5>1. Len(Backlog(queue)) \in Nat
            BY <2>3, BacklogElements, LenProperties
          <5> QED BY <5>1
        <4> HIDE DEF waiting
        <4> QED BY <2>4, <4>2, <4>3
      <3> QED BY <3>1, <3>2
    <2> QED BY <2>2, <2>5 DEF Feed!Arrive, Feed!ApplyFirst
  <1>4. ASSUME NEW session \in FeedSessions, Discard(session)
        PROVE  Feed!Drop(session)
    <2>1. pending' = OfOthers(pending, session) /\ UNCHANGED <<applied, arrived, disposed>>
      BY <1>4 DEF Discard
    <2>2. Backlog(pending)' = Backlog(OfOthers(pending, session))
      BY <2>1 DEF Backlog
    <2>3. Dropped(Backlog(pending), session, Backlog(pending)')
      BY <1>a, <2>2, BacklogOfOthers
    <2> QED BY <2>1, <2>3 DEF Dropped, Feed!Drop
  <1>5. ASSUME pending # <<>>, DrainSlice(pending), UNCHANGED <<arrived, disposed>>
        PROVE  Feed!Apply
    <2>1. PICK n \in 1..Len(Backlog(pending)) :
             /\ applied' = applied \o Feed!Numbers(SubSeq(Backlog(pending), 1, n))
             /\ Backlog(pending)' = SubSeq(Backlog(pending), n + 1, Len(Backlog(pending)))
      BY <1>a, <1>5, SliceIsApplied
    <2>2. n \in DOMAIN Backlog(pending)
      BY <1>a, BacklogElements
    <2> QED BY <1>5, <2>1, <2>2 DEF Feed!Apply, Feed!ApplyFirst
  <1>6. ASSUME Flush
        PROVE  Feed!Apply \/ UNCHANGED <<Backlog(pending), applied, arrived, disposed>>
    <2>1. /\ pending' = <<>> /\ applied' = applied \o Numbers(pending)
          /\ UNCHANGED <<arrived, disposed>>
      BY <1>6 DEF Flush, Process
    <2>2. CASE pending = <<>>
      <3>1. Numbers(<<>>) = <<>>
        BY DEF Numbers
      <3>2. applied' = applied
        BY <1>a, <2>1, <2>2, <3>1, ConcatEmptySeq
      <3> QED BY <2>1, <2>2, <3>2 DEF Backlog
    <2>3. CASE pending # <<>>
      <3> DEFINE n == Len(pending)
      <3>1. n \in Nat /\ n >= 1 /\ Len(Backlog(pending)) = n /\ n \in DOMAIN Backlog(pending)
        BY <1>a, <2>3, EmptySeq, LenProperties, BacklogElements
      <3>2. SubSeq(pending, 1, n) = pending
        BY <1>a, SubSeqFull
      <3>3. Rest(pending, n) = <<>>
        BY <3>1, SubSeqEmpty DEF Rest
      <3>4. /\ Feed!Numbers(SubSeq(Backlog(pending), 1, n)) = Numbers(SubSeq(pending, 1, n))
            /\ Backlog(Rest(pending, n))
                 = SubSeq(Backlog(pending), n + 1, Len(Backlog(pending)))
        <4>1. n \in 0..Len(pending)
          BY <3>1
        <4> QED BY <1>a, <4>1, BacklogSplit
      <3>5. Backlog(pending)' = Backlog(Rest(pending, n))
        BY <2>1, <3>3 DEF Backlog
      <3> HIDE DEF n
      <3> QED BY <2>1, <3>1, <3>2, <3>4, <3>5 DEF Feed!Apply, Feed!ApplyFirst
    <2> QED BY <2>2, <2>3
  <1>7. ASSUME Dispose
        PROVE  Feed!Close
    <2>1. pending' = <<>> /\ disposed' = TRUE /\ UNCHANGED <<applied, arrived>>
      BY <1>7 DEF Dispose
    <2>2. Backlog(pending)' = <<>>
      BY <2>1, BacklogEmpty DEF Backlog
    <2> QED BY <2>1, <2>2 DEF Feed!Close
  <1>8. ASSUME UNCHANGED batcherVars
        PROVE  UNCHANGED <<Backlog(pending), applied, arrived, disposed>>
    BY <1>8 DEF batcherVars, Backlog
  <1>9. CASE UNCHANGED batcherVars
    BY <1>8, <1>9
  <1>10. CASE BatcherNext
    <2>1. ~disposed
      BY <1>a, <1>10 DEF BatcherNext, Delta, OtherRender, Control, Discard, FrameFires, TaskFires,
                         Flush, Dispose
    <2> QED
      BY <1>1, <1>2, <1>3, <1>4, <1>5, <1>6, <1>7, <1>10, <2>1
         DEF BatcherNext, FrameFires, TaskFires, Feed!Next
  <1> QED BY <1>9, <1>10

(* Every event that arrives is applied once and in the order of arrival,   *)
(* merged or not, sliced or flushed; only those of a forgotten session are *)
(* dropped, and those that wait when the batcher is disposed, after which  *)
(* nothing happens (enqueue, drainSlice, flush, discard and dispose of     *)
(* eventBatcher.ts).                                                       *)
THEOREM BatcherIsOrdered == BatcherSpec => AppliedInOrder
  <1>1. BatcherInit => Feed!Init
    BY BacklogEmpty DEF BatcherInit, Feed!Init
  <1>2. Handled /\ [BatcherNext]_batcherVars => [Feed!Next]_<<Backlog(pending), applied, arrived, disposed>>
    BY StepIsFeedStep
  <1> QED BY <1>1, <1>2, AlwaysHandled, PTL DEF BatcherSpec, AppliedInOrder, Feed!Spec
============================================================================
