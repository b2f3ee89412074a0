-------------------------- MODULE PromptQueue_proofs --------------------------
(***************************************************************************)
(* For any bounds and any failure budget: no prompt is lost, the daemon    *)
(* never holds one twice, a session shown as working has something left    *)
(* that can end it, a drain is paid for by an end, and the state is well   *)
(* formed.                                                                 *)
(*                                                                         *)
(* The first two are about places: every prompt typed is in the queue,     *)
(* carried by one submission that was not refused, or taken back.  Placed  *)
(* says so of a queue, submissions and prompts taken back that are given   *)
(* as arguments, so that a step that moves prompts twice (it settles a     *)
(* submission and makes the next) is cut into its two moves.               *)
(***************************************************************************)
EXTENDS PromptQueue, TLAPS, SequenceTheorems, FiniteSetTheorems

Submission ==
    [via : {"send", "flush", "merged", "steer"}, entries : Seq(Nat), typed : Seq(Nat),
     daemon : {"sent", "started", "queued", "blocked", "refused"},
     client : {"waiting", "steering", "done", "uncertain", "rejected"}]

Distinct(s) == \A i, j \in 1..Len(s) : s[i] = s[j] => i = j

(* The prompts a submission has, and those it answers for.                 *)
Carried(post) == ToSet(post.entries) \cup ToSet(post.typed)

Holds(post) == IF post.client = "rejected" THEN {} ELSE Carried(post)

(* What is so of a submission by itself.                                   *)
SoundPost(post) ==
    /\ Distinct(post.entries) /\ ToSet(post.entries) \cap ToSet(post.typed) = {}
    /\ post.via = "flush" => ToSet(post.typed) = {}
    /\ post.client = "rejected" => post.daemon = "refused"

Shaped(q, subs, taken, n) ==
    /\ q \in Seq(Nat) /\ subs \in Seq(Submission) /\ n \in Nat
    /\ Distinct(q) /\ \A k \in 1..Len(subs) : SoundPost(subs[k])

(* No prompt is in two places, and one of a session not forgotten is in    *)
(* one.                                                                    *)
Placed(q, subs, taken, n, there) ==
    /\ Shaped(q, subs, taken, n)
    /\ ToSet(q) \subseteq 1..n /\ taken \subseteq 1..n /\ ToSet(q) \cap taken = {}
    /\ \A k \in 1..Len(subs) :
          /\ Holds(subs[k]) \subseteq (1..n) \ (ToSet(q) \cup taken)
          /\ \A j \in 1..Len(subs) \ {k} : Holds(subs[k]) \cap Holds(subs[j]) = {}
    /\ there => \A p \in 1..n :
          p \in ToSet(q) \cup taken \/ \E k \in 1..Len(subs) : p \in Holds(subs[k])

PlacedInv == Placed(queue, posts, gone, typed, known)

----------------------------------------------------------------------------
(* Sequences.                                                              *)

LEMMA SeqElements ==
    ASSUME NEW S, NEW s \in Seq(S)
    PROVE  /\ ToSet(s) = {s[i] : i \in 1..Len(s)} /\ ToSet(s) \subseteq S
           /\ Len(s) \in Nat
  <1>1. DOMAIN s = 1..Len(s) /\ Len(s) \in Nat /\ s \in [1..Len(s) -> S]
    BY LenProperties
  <1> QED BY <1>1 DEF ToSet

LEMMA AppendElements ==
    ASSUME NEW S, NEW s \in Seq(S), NEW e \in S
    PROVE  /\ Append(s, e) \in Seq(S) /\ ToSet(Append(s, e)) = ToSet(s) \cup {e}
           /\ Distinct(s) /\ e \notin ToSet(s) => Distinct(Append(s, e))
  <1> DEFINE t == Append(s, e)
  <1>1. /\ t \in Seq(S) /\ Len(t) = Len(s) + 1 /\ Len(s) \in Nat
        /\ \A i \in 1..Len(s) : t[i] = s[i]
        /\ t[Len(s) + 1] = e
    BY AppendProperties, LenProperties
  <1> HIDE DEF t
  <1>2. ToSet(t) = {t[i] : i \in 1..Len(t)} /\ ToSet(s) = {s[i] : i \in 1..Len(s)}
    BY <1>1, SeqElements
  <1>3. ToSet(t) = ToSet(s) \cup {e}
    BY <1>1, <1>2
  <1>4. ASSUME Distinct(s), e \notin ToSet(s)
        PROVE  Distinct(t)
    BY <1>1, <1>2, <1>4 DEF Distinct
  <1> QED BY <1>1, <1>3, <1>4 DEF t

LEMMA TailElements ==
    ASSUME NEW S, NEW s \in Seq(S), s # <<>>, Distinct(s)
    PROVE  /\ Head(s) \in S /\ Tail(s) \in Seq(S) /\ Distinct(Tail(s))
           /\ ToSet(s) = ToSet(Tail(s)) \cup {Head(s)} /\ Head(s) \notin ToSet(Tail(s))
  <1> DEFINE t == Tail(s)
  <1>1. /\ t \in Seq(S) /\ Len(t) = Len(s) - 1 /\ Len(s) \in Nat \ {0} /\ Head(s) = s[1]
        /\ \A i \in 1..Len(t) : t[i] = s[i + 1]
        /\ Head(s) \in S
    BY HeadTailProperties, EmptySeq
  <1> HIDE DEF t
  <1>2. ToSet(t) = {t[i] : i \in 1..Len(t)} /\ ToSet(s) = {s[i] : i \in 1..Len(s)}
    BY <1>1, SeqElements
  <1>3. Distinct(t)
    BY <1>1 DEF Distinct
  <1>4. Head(s) \notin ToSet(t)
    BY <1>1, <1>2 DEF Distinct
  <1>5. ToSet(s) \subseteq ToSet(t) \cup {Head(s)}
    <2> SUFFICES ASSUME NEW i \in 1..Len(s), i # 1 PROVE s[i] \in ToSet(t)
      BY <1>1, <1>2
    <2>1. i - 1 \in 1..Len(t) /\ t[i - 1] = s[i]
      BY <1>1
    <2> QED BY <1>2, <2>1
  <1>6. ToSet(t) \cup {Head(s)} \subseteq ToSet(s)
    BY <1>1, <1>2
  <1> QED BY <1>1, <1>3, <1>4, <1>5, <1>6 DEF t

LEMMA ConcatElements ==
    ASSUME NEW S, NEW s \in Seq(S), NEW t \in Seq(S)
    PROVE  /\ s \o t \in Seq(S) /\ ToSet(s \o t) = ToSet(s) \cup ToSet(t)
           /\ Distinct(s) /\ Distinct(t) /\ ToSet(s) \cap ToSet(t) = {} => Distinct(s \o t)
  <1> DEFINE u == s \o t
  <1>1. /\ u \in Seq(S) /\ Len(u) = Len(s) + Len(t) /\ Len(s) \in Nat /\ Len(t) \in Nat
        /\ \A i \in 1..Len(u) : u[i] = IF i <= Len(s) THEN s[i] ELSE t[i - Len(s)]
    BY ConcatProperties, LenProperties
  <1> HIDE DEF u
  <1>2. /\ ToSet(u) = {u[i] : i \in 1..Len(u)} /\ ToSet(s) = {s[i] : i \in 1..Len(s)}
        /\ ToSet(t) = {t[i] : i \in 1..Len(t)}
    BY <1>1, SeqElements
  <1>3. ToSet(u) \subseteq ToSet(s) \cup ToSet(t)
    BY <1>1, <1>2
  <1>4. ToSet(s) \subseteq ToSet(u)
    BY <1>1, <1>2
  <1>5. ToSet(t) \subseteq ToSet(u)
    <2> SUFFICES ASSUME NEW i \in 1..Len(t) PROVE t[i] \in ToSet(u)
      BY <1>2
    <2>1. Len(s) + i \in 1..Len(u) /\ ~(Len(s) + i <= Len(s)) /\ (Len(s) + i) - Len(s) = i
      BY <1>1
    <2>2. u[Len(s) + i] = t[i]
      BY <1>1, <2>1
    <2> QED BY <1>2, <2>1, <2>2
  <1>6. ASSUME Distinct(s), Distinct(t), ToSet(s) \cap ToSet(t) = {}
        PROVE  Distinct(u)
    <2> SUFFICES ASSUME NEW i \in 1..Len(u), NEW j \in 1..Len(u), u[i] = u[j], i < j
                 PROVE  FALSE
      BY <1>1 DEF Distinct
    <2>1. CASE j <= Len(s)
      BY <1>1, <1>6, <2>1 DEF Distinct
    <2>2. CASE i > Len(s)
      <3>1. /\ i - Len(s) \in 1..Len(t) /\ j - Len(s) \in 1..Len(t) /\ i - Len(s) # j - Len(s)
            /\ ~(i <= Len(s)) /\ ~(j <= Len(s))
        BY <1>1, <2>2
      <3>2. t[i - Len(s)] = t[j - Len(s)]
        BY <1>1, <2>2, <3>1
      <3> QED BY <1>6, <3>1, <3>2 DEF Distinct
    <2>3. CASE i <= Len(s) /\ j > Len(s)
      <3>1. u[i] \in ToSet(s) /\ u[j] \in ToSet(t)
        BY <1>1, <1>2, <2>3
      <3> QED BY <1>6, <3>1
    <2> QED BY <1>1, <2>1, <2>2, <2>3
  <1> QED BY <1>1, <1>3, <1>4, <1>5, <1>6 DEF u

LEMMA RemoveAtElements ==
    ASSUME NEW S, NEW s \in Seq(S), NEW i \in 1..Len(s), Distinct(s)
    PROVE  /\ RemoveAt(s, i) \in Seq(S) /\ Len(RemoveAt(s, i)) = Len(s) - 1
           /\ Distinct(RemoveAt(s, i))
           /\ ToSet(RemoveAt(s, i)) = ToSet(s) \ {s[i]}
  <1> DEFINE a == SubSeq(s, 1, i - 1)
             b == SubSeq(s, i + 1, Len(s))
             t == RemoveAt(s, i)
  <1>1. Len(s) \in Nat /\ \A j \in 1..Len(s) : s[j] \in S
    BY LenProperties, ElementOfSeq
  <1>2. /\ a \in Seq(S) /\ Len(a) = i - 1 /\ \A j \in 1..(i - 1) : a[j] = s[j]
        /\ b \in Seq(S) /\ Len(b) = Len(s) - i /\ \A j \in 1..(Len(s) - i) : b[j] = s[i + j]
    <2>1. /\ a \in Seq(S) /\ Len(a) = (IF 1 <= i - 1 THEN i - 1 - 1 + 1 ELSE 0)
          /\ \A j \in 1..(i - 1 - 1 + 1) : a[j] = s[1 + j - 1]
      BY <1>1, SubSeqProperties
    <2>2. /\ b \in Seq(S) /\ Len(b) = (IF i + 1 <= Len(s) THEN Len(s) - (i + 1) + 1 ELSE 0)
          /\ \A j \in 1..(Len(s) - (i + 1) + 1) : b[j] = s[i + 1 + j - 1]
      BY <1>1, SubSeqProperties
    <2> QED BY <1>1, <2>1, <2>2
  <1>3. /\ t \in Seq(S) /\ Len(t) = Len(s) - 1
        /\ \A j \in 1..Len(t) : t[j] = IF j < i THEN s[j] ELSE s[j + 1]
    <2>1. t = a \o b
      BY DEF RemoveAt
    <2> HIDE DEF a, b, t
    <2>2. /\ t \in Seq(S) /\ Len(t) = Len(a) + Len(b)
          /\ \A j \in 1..(Len(a) + Len(b)) : t[j] = IF j <= Len(a) THEN a[j] ELSE b[j - Len(a)]
      BY <1>2, <2>1, ConcatProperties
    <2>3. ASSUME NEW j \in 1..(Len(s) - 1)
          PROVE  t[j] = IF j < i THEN s[j] ELSE s[j + 1]
      <3>0. j \in 1..(Len(a) + Len(b))
        BY <1>1, <1>2
      <3>1. CASE j < i
        <4>1. j <= Len(a) /\ j \in 1..(i - 1)
          BY <1>1, <1>2, <3>1
        <4> QED BY <1>2, <2>2, <3>0, <3>1, <4>1
      <3>2. CASE j >= i
        <4>1. /\ j - Len(a) \in 1..(Len(s) - i) /\ i + (j - Len(a)) = j + 1
              /\ ~(j <= Len(a)) /\ ~(j < i)
          BY <1>1, <1>2, <3>2
        <4>2. t[j] = b[j - Len(a)] /\ b[j - Len(a)] = s[i + (j - Len(a))]
          BY <1>2, <2>2, <3>0, <4>1
        <4> QED BY <4>1, <4>2
      <3> QED BY <1>1, <3>1, <3>2
    <2> QED BY <1>1, <1>2, <2>2, <2>3
  <1> HIDE DEF t
  <1>4. ToSet(t) = {t[j] : j \in 1..Len(t)} /\ ToSet(s) = {s[j] : j \in 1..Len(s)}
    BY <1>3, SeqElements
  <1>5. Distinct(t)
    BY <1>1, <1>3, SMTT(40) DEF Distinct
  <1>6. ToSet(t) \subseteq ToSet(s) \ {s[i]}
    BY <1>1, <1>3, <1>4 DEF Distinct
  <1>7. ToSet(s) \ {s[i]} \subseteq ToSet(t)
    <2> SUFFICES ASSUME NEW j \in 1..Len(s), j # i PROVE s[j] \in ToSet(t)
      BY <1>4
    <2>1. CASE j < i
      BY <1>1, <1>3, <1>4, <2>1
    <2>2. CASE j > i
      <3>1. j - 1 \in 1..Len(t) /\ t[j - 1] = s[j]
        BY <1>1, <1>3, <2>2
      <3> QED BY <1>4, <3>1
    <2> QED BY <1>1, <2>1, <2>2
  <1> QED BY <1>3, <1>5, <1>6, <1>7 DEF t

LEMMA InsertAtElements ==
    ASSUME NEW S, NEW s \in Seq(S), NEW i \in 1..(Len(s) + 1), NEW e \in S, Distinct(s),
           e \notin ToSet(s)
    PROVE  /\ InsertAt(s, i, e) \in Seq(S) /\ Distinct(InsertAt(s, i, e))
           /\ ToSet(InsertAt(s, i, e)) = ToSet(s) \cup {e}
  <1> DEFINE a == SubSeq(s, 1, i - 1)
             b == SubSeq(s, i, Len(s))
             t == InsertAt(s, i, e)
  <1>1. Len(s) \in Nat /\ \A j \in 1..Len(s) : s[j] \in S
    BY LenProperties, ElementOfSeq
  <1>2. /\ a \in Seq(S) /\ Len(a) = i - 1 /\ \A j \in 1..(i - 1) : a[j] = s[j]
        /\ b \in Seq(S) /\ Len(b) = Len(s) - i + 1
        /\ \A j \in 1..(Len(s) - i + 1) : b[j] = s[i + j - 1]
    <2>1. /\ a \in Seq(S) /\ Len(a) = (IF 1 <= i - 1 THEN i - 1 - 1 + 1 ELSE 0)
          /\ \A j \in 1..(i - 1 - 1 + 1) : a[j] = s[1 + j - 1]
      BY <1>1, SubSeqProperties
    <2>2. /\ b \in Seq(S) /\ Len(b) = (IF i <= Len(s) THEN Len(s) - i + 1 ELSE 0)
          /\ \A j \in 1..(Len(s) - i + 1) : b[j] = s[i + j - 1]
      BY <1>1, SubSeqProperties
    <2> QED BY <1>1, <2>1, <2>2
  <1>3. <<e>> \in Seq(S) /\ ToSet(<<e>>) = {e} /\ Distinct(<<e>>)
    BY DEF ToSet, Distinct
  <1>4. /\ ToSet(a) = {s[j] : j \in 1..(i - 1)} /\ ToSet(b) = {s[j] : j \in i..Len(s)}
        /\ ToSet(s) = {s[j] : j \in 1..Len(s)}
    <2> HIDE DEF a, b
    <2>1. /\ ToSet(a) = {a[j] : j \in 1..Len(a)} /\ ToSet(b) = {b[j] : j \in 1..Len(b)}
          /\ ToSet(s) = {s[j] : j \in 1..Len(s)}
      BY <1>2, SeqElements
    <2>2. ASSUME NEW j \in i..Len(s)
          PROVE  s[j] \in ToSet(b)
      <3>1. j - i + 1 \in 1..Len(b) /\ b[j - i + 1] = s[j]
        BY <1>1, <1>2
      <3> QED BY <2>1, <3>1
    <2>3. ToSet(b) \subseteq {s[j] : j \in i..Len(s)}
      <3> SUFFICES ASSUME NEW j \in 1..Len(b) PROVE b[j] \in {s[k] : k \in i..Len(s)}
        BY <2>1
      <3>1. i + j - 1 \in i..Len(s) /\ b[j] = s[i + j - 1]
        BY <1>1, <1>2
      <3> QED BY <3>1
    <2>4. ToSet(a) = {s[j] : j \in 1..(i - 1)}
      BY <1>2, <2>1, ZenonT(40)
    <2>5. ToSet(b) = {s[j] : j \in i..Len(s)}
      BY <2>2, <2>3
    <2> QED BY <2>1, <2>4, <2>5
  <1>5. Distinct(a) /\ Distinct(b) /\ ToSet(a) \cap ToSet(b) = {}
    <2>1. Distinct(a) /\ Distinct(b)
      BY <1>1, <1>2, SMTT(40) DEF Distinct
    <2>2. ToSet(a) \cap ToSet(b) = {}
      BY <1>1, <1>4 DEF Distinct
    <2> QED BY <2>1, <2>2
  <1>6. ToSet(a) \cup ToSet(b) = ToSet(s)
    BY <1>1, <1>4
  <1> HIDE DEF a, b
  <1>7. /\ a \o <<e>> \in Seq(S) /\ ToSet(a \o <<e>>) = ToSet(a) \cup {e}
        /\ Distinct(a \o <<e>>)
    <2>1. ToSet(a) \cap ToSet(<<e>>) = {}
      BY <1>3, <1>6
    <2>2. a \o <<e>> \in Seq(S) /\ ToSet(a \o <<e>>) = ToSet(a) \cup ToSet(<<e>>)
      BY <1>2, <1>3, ConcatElements, ZenonT(40)
    <2>3. Distinct(a \o <<e>>)
      BY <1>2, <1>3, <1>5, <2>1, ConcatElements
    <2> QED BY <1>3, <2>2, <2>3
  <1>8. t = (a \o <<e>>) \o b
    BY DEF InsertAt, a, b
  <1> HIDE DEF t
  <1>9. t \in Seq(S) /\ ToSet(t) = ToSet(s) \cup {e} /\ Distinct(t)
    <2>1. ToSet(a \o <<e>>) \cap ToSet(b) = {}
      BY <1>5, <1>6, <1>7
    <2>2. ToSet(a \o <<e>>) \cup ToSet(b) = ToSet(s) \cup {e}
      BY <1>6, <1>7
    <2> DEFINE c == a \o <<e>>
    <2>3. c \in Seq(S) /\ b \in Seq(S) /\ t = c \o b
      BY <1>2, <1>7, <1>8
    <2>4. Distinct(c) /\ Distinct(b) /\ ToSet(c) \cap ToSet(b) = {}
      BY <1>5, <1>7, <2>1
    <2> HIDE DEF c
    <2>5. t \in Seq(S) /\ ToSet(t) = ToSet(c) \cup ToSet(b)
      BY <2>3, ConcatElements
    <2>6. Distinct(t)
      BY <2>3, <2>4, ConcatElements
    <2> QED BY <2>2, <2>5, <2>6 DEF c
  <1> QED BY <1>9 DEF t

----------------------------------------------------------------------------
(* The moves of prompts.                                                   *)

LEMMA PlacedParts ==
    ASSUME NEW q, NEW subs, NEW taken, NEW n, NEW there, Placed(q, subs, taken, n, there)
    PROVE  /\ q \in Seq(Nat) /\ n \in Nat /\ Distinct(q)
           /\ subs \in Seq(Submission) /\ Len(subs) \in Nat
           /\ \A k \in 1..Len(subs) : subs[k] \in Submission /\ SoundPost(subs[k])
  BY LenProperties, ElementOfSeq DEF Placed, Shaped

(* A queue r and prompts tk taken back come of q and taken, and of prompts  *)
(* that are new: those after n.                                            *)
Requeues(q, taken, n, r, tk, m) ==
    /\ r \in Seq(Nat) /\ Distinct(r) /\ m \in Nat /\ m >= n
    /\ ToSet(r) \cap tk = {}
    /\ ToSet(r) \cup tk = ToSet(q) \cup taken \cup ((n + 1)..m)

(* A submission takes the prompts of q and the new ones that r leaves.     *)
Submits(q, n, r, post, m) ==
    /\ r \in Seq(Nat) /\ Distinct(r) /\ m \in Nat /\ m >= n
    /\ post \in Submission /\ SoundPost(post) /\ post.client # "rejected"
    /\ ToSet(r) \cap Carried(post) = {}
    /\ ToSet(r) \cup Carried(post) = ToSet(q) \cup ((n + 1)..m)

(* A submission goes on, with the same prompts.                            *)
Continues(subs, new, k, post) ==
    /\ k \in 1..Len(subs) /\ post \in Submission /\ SoundPost(post)
    /\ Holds(post) = Holds(subs[k])
    /\ new = [subs EXCEPT ![k] = post]

(* A refused submission gives its prompts back, to the queue or the user;  *)
(* those of a forgotten session may be dropped.                            *)
GivesBack(q, subs, taken, there, k, r, new, tk) ==
    /\ k \in 1..Len(subs) /\ subs[k].client # "rejected" /\ subs[k].daemon = "refused"
    /\ new = [subs EXCEPT ![k] = [subs[k] EXCEPT !.client = "rejected"]]
    /\ r \in Seq(Nat) /\ Distinct(r) /\ ToSet(r) \cap tk = {}
    /\ ToSet(r) \cup tk \subseteq ToSet(q) \cup taken \cup Carried(subs[k])
    /\ there => ToSet(q) \cup taken \cup Carried(subs[k]) \subseteq ToSet(r) \cup tk

LEMMA Requeued ==
    ASSUME NEW q, NEW subs, NEW taken, NEW n, NEW there,
           Placed(q, subs, taken, n, there),
           NEW r, NEW tk, NEW m, Requeues(q, taken, n, r, tk, m)
    PROVE  Placed(r, subs, tk, m, there)
  <1> USE DEF Requeues
  <1>1. n \in Nat /\ Shaped(r, subs, tk, m)
    BY DEF Placed, Shaped
  <1>2. 1..m = (1..n) \cup ((n + 1)..m) /\ (1..n) \cap ((n + 1)..m) = {}
    BY <1>1
  <1>3. ToSet(r) \subseteq 1..m /\ tk \subseteq 1..m
    BY <1>2 DEF Placed
  <1>4. ASSUME NEW k \in 1..Len(subs)
        PROVE  /\ Holds(subs[k]) \subseteq (1..m) \ (ToSet(r) \cup tk)
               /\ \A j \in 1..Len(subs) \ {k} : Holds(subs[k]) \cap Holds(subs[j]) = {}
    BY <1>2 DEF Placed
  <1>5. ASSUME there, NEW p \in 1..m
        PROVE  p \in ToSet(r) \cup tk \/ \E k \in 1..Len(subs) : p \in Holds(subs[k])
    BY <1>2, <1>5 DEF Placed
  <1> QED BY <1>1, <1>3, <1>4, <1>5 DEF Placed

LEMMA Submitted ==
    ASSUME NEW q, NEW subs, NEW taken, NEW n, NEW there,
           Placed(q, subs, taken, n, there),
           NEW r, NEW post, NEW m, Submits(q, n, r, post, m)
    PROVE  Placed(r, Append(subs, post), taken, m, there)
  <1> USE DEF Submits
  <1> DEFINE more == Append(subs, post)
  <1>1. /\ n \in Nat /\ subs \in Seq(Submission) /\ Len(subs) \in Nat
        /\ more \in Seq(Submission) /\ Len(more) = Len(subs) + 1
        /\ \A k \in 1..Len(subs) : more[k] = subs[k]
        /\ more[Len(subs) + 1] = post
    BY PlacedParts, AppendProperties
  <1> HIDE DEF more
  <1>2. 1..m = (1..n) \cup ((n + 1)..m) /\ (1..n) \cap ((n + 1)..m) = {}
    BY <1>1
  <1>3. Holds(post) = Carried(post)
    BY DEF Holds
  <1>4. \A k \in 1..Len(more) : k \in 1..Len(subs) \/ k = Len(subs) + 1
    BY <1>1
  <1>5. Shaped(r, more, taken, m)
    BY <1>1, <1>4 DEF Placed, Shaped
  <1>6. ToSet(r) \subseteq 1..m /\ taken \subseteq 1..m /\ ToSet(r) \cap taken = {}
    BY <1>2 DEF Placed
  <1>7. ASSUME NEW k \in 1..Len(more)
        PROVE  Holds(more[k]) \subseteq (1..m) \ (ToSet(r) \cup taken)
    <2>1. CASE k \in 1..Len(subs)
      BY <1>1, <1>2, <2>1 DEF Placed
    <2>2. CASE k = Len(subs) + 1
      BY <1>1, <1>2, <1>3, <2>2 DEF Placed
    <2> QED BY <1>4, <2>1, <2>2
  <1>8. ASSUME NEW k \in 1..Len(more), NEW j \in 1..Len(more), j # k
        PROVE  Holds(more[k]) \cap Holds(more[j]) = {}
    <2>1. \A i \in 1..Len(subs) : Holds(subs[i]) \cap Carried(post) = {}
      BY <1>2 DEF Placed
    <2>2. CASE k \in 1..Len(subs) /\ j \in 1..Len(subs)
      BY <1>1, <1>8, <2>2 DEF Placed
    <2>3. CASE k = Len(subs) + 1 \/ j = Len(subs) + 1
      BY <1>1, <1>3, <1>4, <1>8, <2>1, <2>3
    <2> QED BY <1>4, <2>2, <2>3
  <1>9. ASSUME there, NEW p \in 1..m
        PROVE  p \in ToSet(r) \cup taken \/ \E k \in 1..Len(more) : p \in Holds(more[k])
    <2>1. CASE p \in Carried(post)
      <3>1. Len(subs) + 1 \in 1..Len(more)
        BY <1>1
      <3> QED BY <1>1, <1>3, <2>1, <3>1
    <2>2. CASE p \in ToSet(r) \cup taken
      BY <2>2
    <2>3. CASE p \notin Carried(post) /\ p \notin ToSet(r) \cup taken
      <3>1. PICK k \in 1..Len(subs) : p \in Holds(subs[k])
        BY <1>2, <1>9, <2>3 DEF Placed
      <3>2. k \in 1..Len(more)
        BY <1>1
      <3> QED BY <1>1, <3>1, <3>2
    <2> QED BY <2>1, <2>2, <2>3
  <1>10. Placed(r, more, taken, m, there)
    BY <1>5, <1>6, <1>7, <1>8, <1>9 DEF Placed
  <1> QED BY <1>10 DEF more

LEMMA HeldOn ==
    ASSUME NEW q, NEW subs, NEW taken, NEW n, NEW there,
           Placed(q, subs, taken, n, there),
           NEW new, NEW k, NEW post, Continues(subs, new, k, post)
    PROVE  Placed(q, new, taken, n, there)
  <1> USE DEF Continues
  <1>1. /\ new \in Seq(Submission) /\ Len(new) = Len(subs)
        /\ \A i \in 1..Len(subs) : new[i] = IF i = k THEN post ELSE subs[i]
    BY PlacedParts, ExceptSeq
  <1>2. \A i \in 1..Len(subs) : Holds(new[i]) = Holds(subs[i]) /\ SoundPost(new[i])
    BY <1>1, PlacedParts
  <1> QED BY <1>1, <1>2 DEF Placed, Shaped

LEMMA GivenBack ==
    ASSUME NEW q, NEW subs, NEW taken, NEW n, NEW there,
           Placed(q, subs, taken, n, there),
           NEW k, NEW r, NEW new, NEW tk, GivesBack(q, subs, taken, there, k, r, new, tk)
    PROVE  Placed(r, new, tk, n, there)
  <1> USE DEF GivesBack
  <1> DEFINE post == [subs[k] EXCEPT !.client = "rejected"]
  <1>1. subs[k] \in Submission /\ SoundPost(subs[k])
    BY PlacedParts
  <1>2. post \in Submission /\ SoundPost(post) /\ Holds(post) = {}
    BY <1>1 DEF Submission, SoundPost, Holds
  <1>3. /\ new \in Seq(Submission) /\ Len(new) = Len(subs)
        /\ \A i \in 1..Len(subs) : new[i] = IF i = k THEN post ELSE subs[i]
    <2>1. new = [subs EXCEPT ![k] = post] /\ k \in 1..Len(subs)
      OBVIOUS
    <2>2. subs \in Seq(Submission)
      BY PlacedParts
    <2> HIDE DEF post, GivesBack
    <2> QED BY <1>2, <2>1, <2>2, ExceptSeq
  <1> HIDE DEF post
  <1>4. /\ Holds(new[k]) = {} /\ \A i \in 1..Len(subs) \ {k} : Holds(new[i]) = Holds(subs[i])
        /\ \A i \in 1..Len(subs) : SoundPost(new[i])
    BY <1>2, <1>3, PlacedParts
  <1>5. Holds(subs[k]) = Carried(subs[k])
    BY DEF Holds
  <1>6. Shaped(r, new, tk, n)
    BY <1>3, <1>4 DEF Placed, Shaped
  <1>7. ToSet(r) \subseteq 1..n /\ tk \subseteq 1..n
    <2>1. /\ Carried(subs[k]) \subseteq 1..n
          /\ ToSet(q) \subseteq 1..n /\ taken \subseteq 1..n
      BY <1>5 DEF Placed
    <2> HIDE DEF Carried
    <2> QED BY <2>1
  <1>8. ASSUME NEW i \in 1..Len(subs)
        PROVE  /\ Holds(new[i]) \subseteq (1..n) \ (ToSet(r) \cup tk)
               /\ \A j \in 1..Len(subs) \ {i} : Holds(new[i]) \cap Holds(new[j]) = {}
    <2>1. CASE i = k
      BY <1>4, <2>1
    <2>2. CASE i # k
      <3>1. Holds(subs[i]) \cap Carried(subs[k]) = {}
        BY <1>5, <2>2 DEF Placed
      <3> QED BY <1>4, <2>2, <3>1 DEF Placed
    <2> QED BY <2>1, <2>2
  <1>9. ASSUME there, NEW p \in 1..n, p \notin ToSet(r) \cup tk
        PROVE  \E i \in 1..Len(subs) : p \in Holds(new[i])
    <2>1. PICK i \in 1..Len(subs) : p \in Holds(subs[i])
      BY <1>9 DEF Placed
    <2>2. i # k
      BY <1>5, <1>9, <2>1
    <2> QED BY <1>4, <2>1, <2>2
  <1> QED BY <1>3, <1>6, <1>7, <1>8, <1>9 DEF Placed

LEMMA Abandoned ==
    ASSUME NEW q, NEW subs, NEW taken, NEW n, NEW there, Placed(q, subs, taken, n, there)
    PROVE  Placed(<<>>, subs, taken, n, FALSE) /\ Placed(q, subs, taken, n, FALSE)
  <1>1. <<>> \in Seq(Nat) /\ ToSet(<<>>) = {} /\ Distinct(<<>>)
    BY DEF ToSet, Distinct
  <1> QED BY <1>1 DEF Placed, Shaped

----------------------------------------------------------------------------
(* The steps.                                                              *)

LEMMA Posts ==
    ASSUME PlacedInv
    PROVE  /\ PostIds = 1..Len(posts) /\ typed \in Nat /\ queue \in Seq(Nat) /\ Distinct(queue)
           /\ \A k \in PostIds : posts[k] \in Submission /\ SoundPost(posts[k])
  BY PlacedParts DEF PlacedInv, PostIds

(* What the daemon and the answers do to a submission moves no prompt.     *)
LEMMA DecideKeeps ==
    ASSUME PlacedInv, NEW k \in PostIds, posts[k].daemon = "sent",
           NEW decision \in {"started", "queued", "blocked", "refused"}, Decide(k, decision),
           UNCHANGED <<queue, gone, typed, known>>
    PROVE  PlacedInv'
  <1> DEFINE post == [posts[k] EXCEPT !.daemon = decision]
  <1>1. posts[k] \in Submission /\ SoundPost(posts[k]) /\ k \in 1..Len(posts)
    BY Posts
  <1>2. post \in Submission /\ SoundPost(post) /\ Holds(post) = Holds(posts[k])
    BY <1>1 DEF Submission, SoundPost, Holds, Carried
  <1>3. posts' = [posts EXCEPT ![k] = post]
    BY DEF Decide
  <1> HIDE DEF post
  <1>4. Continues(posts, posts', k, post)
    BY <1>1, <1>2, <1>3 DEF Continues
  <1>5. Placed(queue, posts', gone, typed, known)
    BY <1>4, HeldOn DEF PlacedInv
  <1> QED BY <1>5 DEF PlacedInv

LEMMA SettleKeeps ==
    ASSUME PlacedInv, NEW k \in PostIds, posts[k].client # "rejected",
           NEW outcome \in {"steering", "done", "uncertain"}, posts' = Settle(k, outcome),
           UNCHANGED <<queue, gone, typed, known>>
    PROVE  PlacedInv'
  <1> DEFINE post == [posts[k] EXCEPT !.client = outcome]
  <1>1. posts[k] \in Submission /\ SoundPost(posts[k]) /\ k \in 1..Len(posts)
    BY Posts
  <1>2. post \in Submission /\ SoundPost(post) /\ Holds(post) = Holds(posts[k])
    BY <1>1 DEF Submission, SoundPost, Holds, Carried
  <1>3. posts' = [posts EXCEPT ![k] = post]
    BY DEF Settle
  <1> HIDE DEF post
  <1>4. Continues(posts, posts', k, post)
    BY <1>1, <1>2, <1>3 DEF Continues
  <1>5. Placed(queue, posts', gone, typed, known)
    BY <1>4, HeldOn DEF PlacedInv
  <1> QED BY <1>5 DEF PlacedInv

(* The submissions that the client makes.                                  *)
Sendable(via, e, t) ==
    /\ via \in {"send", "flush", "merged", "steer"} /\ e \in Seq(Nat) /\ t \in Seq(Nat)
    /\ Distinct(e) /\ ToSet(e) \cap ToSet(t) = {}
    /\ via = "flush" => t = <<>>

LEMMA NewPost ==
    ASSUME NEW via, NEW e, NEW t, Sendable(via, e, t)
    PROVE  /\ Post(via, e, t) \in Submission /\ SoundPost(Post(via, e, t))
           /\ Post(via, e, t).client # "rejected"
           /\ Carried(Post(via, e, t)) = ToSet(e) \cup ToSet(t)
  <1>1. ToSet(<<>>) = {}
    BY DEF ToSet
  <1> QED BY <1>1 DEF Post, Submission, SoundPost, Carried, Sendable

LEMMA FewElements ==
    ASSUME NEW e \in Nat
    PROVE  /\ <<e>> \in Seq(Nat) /\ ToSet(<<e>>) = {e} /\ Distinct(<<e>>)
           /\ <<>> \in Seq(Nat) /\ ToSet(<<>>) = {} /\ Distinct(<<>>)
  BY DEF ToSet, Distinct

(* Draining the head of a queue (flushQueueHead).                          *)
LEMMA FlushPlaces ==
    ASSUME NEW q, NEW subs, NEW taken, NEW n, NEW there,
           Placed(q, subs, taken, n, there), q # <<>>
    PROVE  Placed(Flushed(q).queue, Append(subs, Flushed(q).post), taken, n, there)
  <1>1. /\ q \in Seq(Nat) /\ n \in Nat /\ Distinct(q)
    BY PlacedParts
  <1>2. /\ Head(q) \in Nat /\ Tail(q) \in Seq(Nat) /\ Distinct(Tail(q))
        /\ ToSet(q) = ToSet(Tail(q)) \cup {Head(q)} /\ Head(q) \notin ToSet(Tail(q))
    BY <1>1, TailElements
  <1> DEFINE post == Post("flush", <<Head(q)>>, <<>>)
  <1>3. /\ post \in Submission /\ SoundPost(post) /\ post.client # "rejected"
        /\ Carried(post) = {Head(q)}
    <2>1. Sendable("flush", <<Head(q)>>, <<>>)
      BY <1>2, FewElements DEF Sendable
    <2>2. ToSet(<<Head(q)>>) = {Head(q)} /\ ToSet(<<>>) = {}
      BY <1>2, FewElements
    <2> QED BY <2>1, <2>2, NewPost
  <1> HIDE DEF post
  <1>4. Submits(q, n, Tail(q), post, n)
    BY <1>1, <1>2, <1>3 DEF Submits
  <1>5. Placed(Tail(q), Append(subs, post), taken, n, there)
    BY <1>4, Submitted
  <1> QED BY <1>5 DEF Flushed, post

(* The user's next prompt, queued.                                         *)
LEMMA QueuePlaces ==
    ASSUME NEW q, NEW subs, NEW taken, NEW n, NEW there,
           Placed(q, subs, taken, n, there)
    PROVE  Placed(Append(q, n + 1), subs, taken, n + 1, there)
  <1>1. /\ q \in Seq(Nat) /\ n \in Nat /\ n + 1 \in Nat /\ n + 1 >= n /\ Distinct(q)
        /\ n + 1 \notin 1..n /\ (n + 1)..(n + 1) = {n + 1}
    BY PlacedParts
  <1>2. /\ n + 1 \notin ToSet(q) /\ n + 1 \notin taken /\ ToSet(q) \cap taken = {}
    BY <1>1 DEF Placed
  <1>3. /\ Append(q, n + 1) \in Seq(Nat) /\ Distinct(Append(q, n + 1))
        /\ ToSet(Append(q, n + 1)) = ToSet(q) \cup {n + 1}
    BY <1>1, <1>2, AppendElements
  <1>4. /\ ToSet(Append(q, n + 1)) \cap taken = {}
        /\ ToSet(Append(q, n + 1)) \cup taken = ToSet(q) \cup taken \cup ((n + 1)..(n + 1))
    BY <1>1, <1>2, <1>3
  <1>5. Requeues(q, taken, n, Append(q, n + 1), taken, n + 1)
    BY <1>1, <1>3, <1>4 DEF Requeues
  <1> QED BY <1>5, Requeued

LEMMA UserKeeps ==
    ASSUME PlacedInv, User
    PROVE  PlacedInv'
  <1>1. /\ typed \in Nat /\ queue \in Seq(Nat) /\ Distinct(queue)
        /\ typed + 1 \in Nat /\ typed + 1 >= typed /\ typed >= typed
        /\ (typed + 1)..(typed + 1) = {typed + 1} /\ (typed + 1)..typed = {}
        /\ typed + 1 \notin 1..typed
    BY Posts
  <1>2. typed + 1 \notin ToSet(queue)
    BY <1>1 DEF PlacedInv, Placed
  <1>3. CASE Enqueue
    BY <1>3, QueuePlaces DEF PlacedInv, Enqueue, TypeNext, viewVars
  <1>4. CASE EnqueueAndFlush
    <2>1. Placed(Append(queue, typed + 1), posts, gone, typed + 1, known)
      BY QueuePlaces DEF PlacedInv
    <2>2. Append(queue, typed + 1) # <<>>
      BY <1>1, AppendProperties, EmptySeq
    <2>3. /\ queue' = Flushed(Append(queue, typed + 1)).queue
          /\ posts' = Append(posts, Flushed(Append(queue, typed + 1)).post)
          /\ typed' = typed + 1 /\ UNCHANGED <<gone, known>>
      BY <1>4 DEF EnqueueAndFlush, FlushHead, TypeNext, viewVars
    <2> QED BY <2>1, <2>2, <2>3, FlushPlaces DEF PlacedInv
  <1>5. CASE SendNow
    <2> DEFINE post == Post("send", <<>>, <<typed + 1>>)
    <2>1. /\ post \in Submission /\ SoundPost(post) /\ post.client # "rejected"
          /\ Carried(post) = {typed + 1}
      <3>1. Sendable("send", <<>>, <<typed + 1>>)
        BY <1>1, FewElements DEF Sendable
      <3>2. ToSet(<<typed + 1>>) = {typed + 1} /\ ToSet(<<>>) = {}
        BY <1>1, FewElements
      <3> QED BY <3>1, <3>2, NewPost
    <2>2. /\ queue' = queue /\ posts' = Append(posts, post) /\ typed' = typed + 1
          /\ UNCHANGED <<gone, known>>
      BY <1>5 DEF SendNow, TypeNext, viewVars
    <2> HIDE DEF post
    <2>3. Submits(queue, typed, queue, post, typed + 1)
      BY <1>1, <1>2, <2>1 DEF Submits
    <2>4. Placed(queue, Append(posts, post), gone, typed + 1, known)
      BY <2>3, Submitted DEF PlacedInv
    <2> QED BY <2>2, <2>4 DEF PlacedInv
  <1>6. CASE Steer
    <2> DEFINE via == IF Running THEN "steer" ELSE "merged"
               text == IF typed' = typed THEN <<>> ELSE <<typed'>>
               post == Post(via, queue, text)
    <2>1. /\ queue' = <<>> /\ posts' = Append(posts, post) /\ typed' \in {typed, typed + 1}
          /\ UNCHANGED <<gone, known>>
      BY <1>6 DEF Steer, viewVars
    <2>2. /\ text \in Seq(Nat) /\ ToSet(text) = (typed + 1)..typed'
          /\ typed' \in Nat /\ typed' >= typed
      <3>1. CASE typed' = typed
        BY <1>1, <3>1, FewElements
      <3>2. CASE typed' = typed + 1
        BY <1>1, <3>2, FewElements
      <3> QED BY <2>1, <3>1, <3>2
    <2>3. via \in {"send", "flush", "merged", "steer"} /\ via # "flush"
      OBVIOUS
    <2> HIDE DEF via, text
    <2>4. ToSet(queue) \cap ToSet(text) = {}
      BY <1>1, <1>2, <2>1, <2>2
    <2>5. /\ post \in Submission /\ SoundPost(post) /\ post.client # "rejected"
          /\ Carried(post) = ToSet(queue) \cup ToSet(text)
      <3>1. Sendable(via, queue, text)
        BY <1>1, <2>2, <2>3, <2>4 DEF Sendable
      <3> QED BY <3>1, NewPost
    <2> HIDE DEF post
    <2>6. <<>> \in Seq(Nat) /\ ToSet(<<>>) = {} /\ Distinct(<<>>)
      BY <1>1, FewElements
    <2>7. Submits(queue, typed, <<>>, post, typed')
      BY <2>2, <2>5, <2>6 DEF Submits
    <2>8. Placed(<<>>, Append(posts, post), gone, typed', known)
      BY <2>7, Submitted DEF PlacedInv
    <2> QED BY <2>1, <2>8 DEF PlacedInv
  <1>7. ASSUME NEW i \in DOMAIN queue, Unqueue(i)
        PROVE  PlacedInv'
    <2>1. i \in 1..Len(queue) /\ queue[i] \in ToSet(queue)
      BY <1>1, LenProperties DEF ToSet
    <2>2. /\ queue' \in Seq(Nat) /\ Distinct(queue') /\ ToSet(queue') = ToSet(queue) \ {queue[i]}
          /\ gone' = gone \cup {queue[i]} /\ UNCHANGED <<posts, typed, known>>
      BY <1>1, <1>7, <2>1, RemoveAtElements DEF Unqueue, viewVars
    <2>3. /\ ToSet(queue') \cap gone' = {}
          /\ ToSet(queue') \cup gone' = ToSet(queue) \cup gone \cup ((typed + 1)..typed)
      BY <1>1, <2>1, <2>2 DEF PlacedInv, Placed
    <2>4. Requeues(queue, gone, typed, queue', gone', typed)
      BY <1>1, <2>2, <2>3 DEF Requeues
    <2>5. Placed(queue', posts, gone', typed, known)
      BY <2>4, Requeued DEF PlacedInv
    <2> QED BY <2>2, <2>5 DEF PlacedInv
  <1>8. ASSUME NEW i \in DOMAIN queue, NEW j \in DOMAIN queue, ReorderQueue(i, j)
        PROVE  PlacedInv'
    <2>1. /\ i \in 1..Len(queue) /\ j \in 1..Len(queue) /\ Len(queue) \in Nat
          /\ queue[i] \in ToSet(queue) /\ queue[i] \in Nat
      BY <1>1, LenProperties, ElementOfSeq DEF ToSet
    <2> DEFINE rest == RemoveAt(queue, i)
    <2>2. /\ rest \in Seq(Nat) /\ Len(rest) = Len(queue) - 1 /\ Distinct(rest)
          /\ ToSet(rest) = ToSet(queue) \ {queue[i]}
      BY <1>1, <2>1, RemoveAtElements
    <2>3. queue' = InsertAt(rest, j, queue[i]) /\ UNCHANGED <<posts, gone, typed, known>>
      BY <1>8 DEF ReorderQueue, viewVars
    <2> HIDE DEF rest
    <2>4. j \in 1..(Len(rest) + 1) /\ queue[i] \notin ToSet(rest)
      BY <2>1, <2>2
    <2>5. queue' \in Seq(Nat) /\ Distinct(queue') /\ ToSet(queue') = ToSet(rest) \cup {queue[i]}
      BY <2>1, <2>2, <2>3, <2>4, InsertAtElements
    <2>6. /\ ToSet(queue') \cap gone = {}
          /\ ToSet(queue') \cup gone = ToSet(queue) \cup gone \cup ((typed + 1)..typed)
      BY <1>1, <2>1, <2>2, <2>5, SMTT(40) DEF PlacedInv, Placed
    <2>7. Requeues(queue, gone, typed, queue', gone, typed)
      BY <1>1, <2>5, <2>6 DEF Requeues
    <2>8. Placed(queue', posts, gone, typed, known)
      BY <2>7, Requeued DEF PlacedInv
    <2> QED BY <2>3, <2>8 DEF PlacedInv
  <1> QED BY <1>3, <1>4, <1>5, <1>6, <1>7, <1>8 DEF User

(* What a refused submission brings back.                                  *)
LEMMA Refusal ==
    ASSUME PlacedInv, NEW k \in PostIds, Refused(k)
    PROVE  /\ k \in 1..Len(posts) /\ posts[k].client # "rejected" /\ posts[k].daemon = "refused"
           /\ Carried(posts[k]) \cap (ToSet(queue) \cup gone) = {} /\ ToSet(queue) \cap gone = {}
           /\ Restored(k) \in Seq(Nat) /\ Distinct(Restored(k))
           /\ ToSet(Restored(k)) = ToSet(posts[k].entries) \cup ToSet(queue)
           /\ ToSet(posts[k].entries) \cap ToSet(posts[k].typed) = {}
           /\ posts[k].via = "flush" => ToSet(posts[k].typed) = {}
           /\ Settle(k, "rejected") =
                 [posts EXCEPT ![k] = [posts[k] EXCEPT !.client = "rejected"]]
  <1>1. /\ k \in 1..Len(posts) /\ posts[k] \in Submission /\ SoundPost(posts[k])
        /\ queue \in Seq(Nat) /\ Distinct(queue)
    BY Posts
  <1>2. posts[k].client # "rejected" /\ posts[k].daemon = "refused"
    BY DEF Refused, Waiting
  <1>3. Holds(posts[k]) = Carried(posts[k])
    BY <1>2 DEF Holds
  <1>4. Carried(posts[k]) \cap (ToSet(queue) \cup gone) = {} /\ ToSet(queue) \cap gone = {}
    BY <1>1, <1>3 DEF PlacedInv, Placed
  <1>5. /\ posts[k].entries \in Seq(Nat) /\ Distinct(posts[k].entries)
        /\ ToSet(posts[k].entries) \cap ToSet(posts[k].typed) = {}
        /\ posts[k].via = "flush" => ToSet(posts[k].typed) = {}
    BY <1>1 DEF Submission, SoundPost
  <1>6. ToSet(posts[k].entries) \cap ToSet(queue) = {}
    BY <1>4 DEF Carried
  <1> DEFINE back == posts[k].entries
  <1>7. back \in Seq(Nat) /\ Distinct(back) /\ ToSet(back) \cap ToSet(queue) = {}
    BY <1>5, <1>6
  <1> HIDE DEF back
  <1>8. /\ back \o queue \in Seq(Nat) /\ Distinct(back \o queue)
        /\ ToSet(back \o queue) = ToSet(back) \cup ToSet(queue)
    BY <1>1, <1>7, ConcatElements
  <1>9. Settle(k, "rejected") = [posts EXCEPT ![k] = [posts[k] EXCEPT !.client = "rejected"]]
    BY DEF Settle
  <1> QED BY <1>1, <1>2, <1>4, <1>5, <1>8, <1>9 DEF Restored, back

LEMMA AnswersKeep ==
    ASSUME PlacedInv, NEW k \in PostIds,
           \/ AnswerOk(k) \/ SteerAnswered(k) \/ AnswerLost(k)
           \/ RefusedSend(k) \/ RefusedFlush(k) \/ FlushExhausted(k) \/ FlushForgotten(k)
    PROVE  PlacedInv'
  <1>1. CASE AnswerOk(k)
    <2>1. /\ posts[k].client # "rejected" /\ UNCHANGED <<queue, gone, typed, known>>
          /\ posts' = Settle(k, "steering") \/ posts' = Settle(k, "done")
      BY <1>1 DEF AnswerOk, Waiting, viewVars
    <2> QED BY <2>1, SettleKeeps
  <1>2. CASE SteerAnswered(k)
    <2>1. /\ posts[k].client # "rejected" /\ UNCHANGED <<queue, gone, typed, known>>
          /\ posts' = Settle(k, "done")
      BY <1>2 DEF SteerAnswered, viewVars
    <2> QED BY <2>1, SettleKeeps
  <1>3. CASE AnswerLost(k)
    <2>1. /\ posts[k].client # "rejected" /\ UNCHANGED <<queue, gone, typed, known>>
          /\ posts' = Settle(k, "uncertain")
      BY <1>3 DEF AnswerLost, Waiting, Disturb, viewVars
    <2> QED BY <2>1, SettleKeeps
  <1> DEFINE settled == Settle(k, "rejected")
  <1>4. CASE RefusedSend(k)
    <2>1. /\ Refused(k) /\ queue' = Restored(k) /\ gone' = gone \cup ToSet(posts[k].typed)
          /\ posts' = settled /\ UNCHANGED <<typed, known>>
      BY <1>4 DEF RefusedSend, viewVars
    <2> HIDE DEF settled
    <2>2. GivesBack(queue, posts, gone, known, k, queue', posts', gone')
      BY <2>1, Refusal DEF GivesBack, Carried, settled
    <2>3. Placed(queue', posts', gone', typed, known)
      BY <2>2, GivenBack DEF PlacedInv
    <2> QED BY <2>1, <2>3 DEF PlacedInv
  <1>5. CASE RefusedFlush(k)
    <2>1. /\ Refused(k) /\ posts[k].via = "flush" /\ queue' = Restored(k)
          /\ posts' = settled /\ UNCHANGED <<gone, typed, known>>
      BY <1>5 DEF RefusedFlush, viewVars
    <2> HIDE DEF settled
    <2>2. GivesBack(queue, posts, gone, known, k, queue', posts', gone')
      BY <2>1, Refusal DEF GivesBack, Carried, settled
    <2>3. Placed(queue', posts', gone', typed, known)
      BY <2>2, GivenBack DEF PlacedInv
    <2> QED BY <2>1, <2>3 DEF PlacedInv
  <1>6. CASE FlushExhausted(k)
    <2> DEFINE taken == gone \cup ToSet(posts[k].entries)
    <2>1. /\ Refused(k) /\ posts[k].via = "flush" /\ gone' = taken /\ UNCHANGED <<typed, known>>
          /\ \/ posts' = settled /\ queue' = queue
             \/ /\ queue # <<>> /\ queue' = Flushed(queue).queue
                /\ posts' = Append(settled, Flushed(queue).post)
      BY <1>6 DEF FlushExhausted, FlushHead, viewVars
    <2>2. queue \in Seq(Nat) /\ Distinct(queue)
      BY Posts
    <2> HIDE DEF settled
    <2>3. GivesBack(queue, posts, gone, known, k, queue, settled, taken)
      BY <2>1, <2>2, Refusal DEF GivesBack, Carried, settled
    <2> HIDE DEF taken
    <2>4. Placed(queue, settled, taken, typed, known)
      BY <2>3, GivenBack DEF PlacedInv
    <2>5. queue # <<>> => Placed(Flushed(queue).queue, Append(settled, Flushed(queue).post),
                                 taken, typed, known)
      BY <2>4, FlushPlaces
    <2> QED BY <2>1, <2>4, <2>5 DEF PlacedInv
  <1>7. CASE FlushForgotten(k)
    <2>1. /\ Refused(k) /\ ~known /\ posts' = settled /\ UNCHANGED <<queue, gone, typed, known>>
      BY <1>7 DEF FlushForgotten, viewVars
    <2>2. queue \in Seq(Nat) /\ Distinct(queue)
      BY Posts
    <2> HIDE DEF settled
    <2>3. GivesBack(queue, posts, gone, known, k, queue, posts', gone)
      BY <2>1, <2>2, Refusal DEF GivesBack, settled
    <2>4. Placed(queue, posts', gone, typed, known)
      BY <2>3, GivenBack DEF PlacedInv
    <2> QED BY <2>1, <2>4 DEF PlacedInv
  <1> QED BY <1>1, <1>2, <1>3, <1>4, <1>5, <1>6, <1>7

(* The boundary of a turn drains at most the head of the queue.            *)
LEMMA BoundaryKeeps ==
    ASSUME PlacedInv, UNCHANGED <<gone, typed, known>>,
           FinishPrompt \/ UNCHANGED <<queue, posts>>
    PROVE  PlacedInv'
  <1>1. CASE UNCHANGED <<queue, posts>>
    BY <1>1 DEF PlacedInv
  <1>2. CASE /\ queue # <<>> /\ queue' = Flushed(queue).queue
             /\ posts' = Append(posts, Flushed(queue).post)
    BY <1>2, FlushPlaces DEF PlacedInv
  <1> QED BY <1>1, <1>2 DEF FinishPrompt, FlushHead

LEMMA ReceiveKeeps ==
    ASSUME PlacedInv, Receive
    PROVE  PlacedInv'
  <1>1. UNCHANGED <<gone, typed, known>>
    BY DEF Receive, viewVars
  <1>2. ASSUME NEW e, Handle(e)
        PROVE  FinishPrompt \/ UNCHANGED <<queue, posts>>
    BY <1>2 DEF Handle, ClearWorkingFlags, Ignore
  <1>3. ASSUME NEW e, Overhear(e)
        PROVE  UNCHANGED <<queue, posts>>
    BY <1>3 DEF Overhear, ClearWorkingFlags, Ignore
  <1>4. FinishPrompt \/ UNCHANGED <<queue, posts>>
    BY <1>2, <1>3 DEF Receive
  <1> QED BY <1>1, <1>4, BoundaryKeeps

----------------------------------------------------------------------------

LEMMA PlacedInit == Init => PlacedInv
  <1> SUFFICES ASSUME Init PROVE PlacedInv
    OBVIOUS
  <1>1. queue = <<>> /\ posts = <<>> /\ gone = {} /\ typed = 0
    BY DEF Init
  <1>2. ToSet(<<>>) = {} /\ Distinct(<<>>) /\ <<>> \in Seq(Nat)
    BY FewElements
  <1>3. <<>> \in Seq(Submission) /\ Len(<<>>) = 0
    OBVIOUS
  <1>4. 1..0 = {}
    OBVIOUS
  <1> QED BY <1>1, <1>2, <1>3, <1>4 DEF PlacedInv, Placed, Shaped

LEMMA PlacedNext == PlacedInv /\ [Next]_vars => PlacedInv'
  <1> SUFFICES ASSUME PlacedInv, [Next]_vars PROVE PlacedInv'
    OBVIOUS
  <1>1. ASSUME NEW k \in PostIds,
               DaemonStarts(k) \/ DaemonParks(k) \/ DaemonBlocks(k) \/ DaemonRefuses(k)
        PROVE  PlacedInv'
    <2>1. PICK decision \in {"started", "queued", "blocked", "refused"} : Decide(k, decision)
      BY <1>1 DEF DaemonStarts, DaemonParks, DaemonBlocks, DaemonRefuses
    <2>2. posts[k].daemon = "sent" /\ UNCHANGED <<queue, gone, typed, known>>
      BY <1>1 DEF DaemonStarts, DaemonParks, DaemonBlocks, DaemonRefuses, viewVars
    <2> QED BY <2>1, <2>2, DecideKeeps
  <1>2. ASSUME NEW k \in PostIds, DropParked(k) \/ AnswerLost(k)
        PROVE  PlacedInv'
    <2>1. CASE DropParked(k)
      BY <2>1 DEF DropParked, Drop, queueVars, viewVars, PlacedInv
    <2> QED BY <1>2, <2>1, AnswersKeep
  <1>3. CASE TurnEnds \/ ForeignTurn \/ TurnVanishes
    <2>1. UNCHANGED <<queue, posts, gone, typed, known>>
      BY <1>3 DEF TurnEnds, ForeignTurn, TurnVanishes, queueVars, viewVars
    <2> QED BY <2>1 DEF PlacedInv
  <1>4. CASE Answers
    BY <1>4, AnswersKeep DEF Answers
  <1>5. CASE ApplySnapshot
    <2>1. /\ UNCHANGED <<gone, typed, known>>
          /\ FinishPrompt \/ UNCHANGED <<queue, posts>>
      BY <1>5 DEF ApplySnapshot
    <2> QED BY <2>1, BoundaryKeeps
  <1>6. CASE TakeSnapshot \/ DiscardSnapshot \/ Evict \/ Resync \/ Omit \/ UNCHANGED vars
    <2>1. UNCHANGED <<queue, posts, gone, typed, known>>
      BY <1>6 DEF TakeSnapshot, DiscardSnapshot, Evict, Resync, Omit, vars, queueVars, viewVars
    <2> QED BY <2>1 DEF PlacedInv
  <1>7. CASE AskStop \/ ServeStop \/ StopMissed
    <2>1. UNCHANGED <<queue, posts, gone, typed, known>>
      BY <1>7 DEF AskStop, ServeStop, StopMissed, queueVars
    <2> QED BY <2>1 DEF PlacedInv
  <1>8. CASE ForgetSession
    <2>1. /\ queue' = <<>> /\ known' = FALSE /\ UNCHANGED <<posts, gone, typed>>
      BY <1>8 DEF ForgetSession
    <2>2. Placed(<<>>, posts, gone, typed, FALSE)
      BY Abandoned DEF PlacedInv
    <2> QED BY <2>1, <2>2 DEF PlacedInv
  <1> QED BY <1>1, <1>2, <1>3, <1>4, <1>5, <1>6, <1>7, <1>8, UserKeeps, ReceiveKeeps
      DEF Next, Daemon

----------------------------------------------------------------------------
(* What follows from the places.                                           *)

LEMMA CarriesHeld ==
    ASSUME PlacedInv, NEW k \in PostIds
    PROVE  ToSet(Carries(k)) = Carried(posts[k])
  <1>1. posts[k] \in Submission
    BY Posts
  <1> DEFINE e == posts[k].entries
             t == posts[k].typed
  <1>2. e \in Seq(Nat) /\ t \in Seq(Nat)
    BY <1>1 DEF Submission
  <1> HIDE DEF e, t
  <1>3. ToSet(e \o t) = ToSet(e) \cup ToSet(t)
    BY <1>2, ConcatElements
  <1> QED BY <1>3 DEF Carries, Carried, e, t

LEMMA AtMostOne ==
    ASSUME NEW S, \A x, y \in S : x = y
    PROVE  /\ IsFiniteSet(S) /\ Cardinality(S) \in {0, 1}
           /\ Cardinality(S) = 0 <=> S = {}
  <1>1. CASE S = {}
    BY <1>1, FS_EmptySet
  <1>2. CASE S # {}
    <2>1. PICK x : S = {x}
      BY <1>2
    <2>2. IsFiniteSet({x}) /\ Cardinality({x}) = 1
      BY FS_Singleton
    <2> QED BY <2>1, <2>2
  <1> QED BY <1>1, <1>2

LEMMA PlacedConserved == PlacedInv => Conserved
  <1> SUFFICES ASSUME PlacedInv, known, NEW p \in 1..typed PROVE Places(p) = 1
    BY DEF Conserved
  <1> DEFINE A == {i \in DOMAIN queue : queue[i] = p}
             B == {k \in PostIds : posts[k].client # "rejected" /\ p \in ToSet(Carries(k))}
             C == {p} \cap gone
  <1>1. /\ queue \in Seq(Nat) /\ Distinct(queue) /\ PostIds = 1..Len(posts)
    BY Posts
  <1>2. DOMAIN queue = 1..Len(queue)
    BY <1>1, LenProperties
  <1>3. A = {} <=> p \notin ToSet(queue)
    BY DEF ToSet
  <1>4. \A x, y \in A : x = y
    BY <1>1, <1>2 DEF Distinct
  <1>5. \A k \in PostIds : k \in B <=> p \in Holds(posts[k])
    BY CarriesHeld DEF Holds
  <1> HIDE DEF A, B
  <1>6. /\ \A k \in PostIds : p \in Holds(posts[k]) => p \notin ToSet(queue) \cup gone
        /\ \A k, j \in PostIds : p \in Holds(posts[k]) /\ p \in Holds(posts[j]) => k = j
        /\ ~(p \in ToSet(queue) /\ p \in gone)
        /\ p \in ToSet(queue) \cup gone \/ \E k \in PostIds : p \in Holds(posts[k])
    BY <1>1 DEF PlacedInv, Placed
  <1>7. B \subseteq PostIds
    BY DEF B
  <1>8. \A x, y \in B : x = y
    BY <1>5, <1>6, <1>7
  <1>9. \A x, y \in C : x = y
    OBVIOUS
  <1>10. C = {} <=> p \notin gone
    OBVIOUS
  <1> HIDE DEF C
  <1>11. /\ A = {} \/ B = {}
         /\ A = {} \/ C = {}
         /\ B = {} \/ C = {}
         /\ ~(A = {} /\ B = {} /\ C = {})
    BY <1>3, <1>5, <1>6, <1>7, <1>10
  <1>12. /\ Cardinality(A) \in {0, 1} /\ (Cardinality(A) = 0 <=> A = {})
         /\ Cardinality(B) \in {0, 1} /\ (Cardinality(B) = 0 <=> B = {})
         /\ Cardinality(C) \in {0, 1} /\ (Cardinality(C) = 0 <=> C = {})
    BY <1>4, <1>8, <1>9, AtMostOne
  <1>13. Cardinality(A) + Cardinality(B) + Cardinality(C) = 1
    BY <1>11, <1>12
  <1> QED BY <1>13 DEF Places, A, B, C

LEMMA PlacedOnce == PlacedInv => NeverRunsTwice
  <1> SUFFICES ASSUME PlacedInv, NEW p \in 1..typed
               PROVE  Cardinality({k \in PostIds : /\ posts[k].daemon \in {"started", "queued"}
                                                   /\ p \in ToSet(Carries(k))}) <= 1
    BY DEF NeverRunsTwice
  <1> DEFINE R == {k \in PostIds : /\ posts[k].daemon \in {"started", "queued"}
                                   /\ p \in ToSet(Carries(k))}
  <1>1. ASSUME NEW k \in R
        PROVE  k \in PostIds /\ p \in Holds(posts[k])
    <2>1. k \in PostIds /\ posts[k].daemon # "refused" /\ p \in Carried(posts[k])
      BY CarriesHeld
    <2> QED BY <2>1, Posts DEF SoundPost, Holds
  <1>2. \A k, j \in PostIds : p \in Holds(posts[k]) /\ p \in Holds(posts[j]) => k = j
    BY Posts DEF PlacedInv, Placed
  <1> HIDE DEF R
  <1>3. \A x, y \in R : x = y
    BY <1>1, <1>2
  <1>4. Cardinality(R) \in {0, 1}
    BY <1>3, AtMostOne
  <1>5. Cardinality(R) <= 1
    BY <1>4
  <1> QED BY <1>5 DEF R

(* No prompt is lost or doubled: what sendPrompt, steerPrompt,             *)
(* flushQueueHead and their failures move always ends up in one place.     *)
THEOREM PromptsConserved == Spec => []Conserved
  <1>1. Spec => []PlacedInv
    BY PlacedInit, PlacedNext, PTL DEF Spec
  <1> QED BY <1>1, PlacedConserved, PTL

(* No retry, restoring of the queue or drain makes the daemon take a       *)
(* prompt a second time.                                                   *)
THEOREM RunOnce == Spec => []NeverRunsTwice
  <1>1. Spec => []PlacedInv
    BY PlacedInit, PlacedNext, PTL DEF Spec
  <1> QED BY <1>1, PlacedOnce, PTL

----------------------------------------------------------------------------
(* The working state.  What keeps it backed is that the announcements tell *)
(* the truth: from the client's turn flag through the events it has yet to *)
(* handle one arrives at what runs at the daemon now.  The same is so of a *)
(* snapshot and what was announced since, which ApplySnapshot makes the    *)
(* flag and the feed; while a snapshot is required or the session is       *)
(* evicted, only of some flag, as the client may have missed events.       *)

AnEventType ==
    {"began", "started", "submitted", "ended", "handed", "quiet", "dropped", "blocked"}
AnEvent == [type : AnEventType, of : Nat]
TurnOn == {"began", "started"}
TurnOver == {"ended", "handed", "quiet"}

(* A turn, or none, runs after the first n events: so says the newest of   *)
(* them that starts or ends one, or else the flag.                         *)
Still(f, l, n) == \A i \in (l + 1)..n : f[i].type \notin TurnOn \cup TurnOver

On(f, flag, n) ==
    \E l \in 0..n : Still(f, l, n) /\ ((l = 0 /\ flag) \/ (l # 0 /\ f[l].type \in TurnOn))

Off(f, flag, n) ==
    \E l \in 0..n : Still(f, l, n) /\ ((l = 0 /\ ~flag) \/ (l # 0 /\ f[l].type \in TurnOver))

(* A turn's end is announced only while one runs.                          *)
Tells(f, flag, run) ==
    /\ f \in Seq(AnEvent) /\ flag \in BOOLEAN
    /\ run # None => On(f, flag, Len(f))
    /\ run = None => Off(f, flag, Len(f))
    /\ \A i \in 1..Len(f) : f[i].type \in TurnOver => On(f, flag, i - 1)

Over(f) == \E i \in 1..Len(f) : f[i].type \in TurnOver

(* The daemon's line is empty while no turn runs.                          *)
LineInv ==
    /\ running \in Nat /\ parked \in Seq(Nat \ {0})
    /\ parked # <<>> => running # None

HeardInv ==
    /\ live => known
    /\ known => \E flag \in BOOLEAN : Tells(feed, flag, running)
    /\ live /\ ~required => Tells(feed, turnActive, running)
    /\ snap # NoSnapshot =>
          /\ known
          /\ snap \in [since : Seq(AnEvent), active : BOOLEAN, generation : Nat]
          /\ Tells(snap.since, snap.active, running)

(* A submission that will be answered by a start or clear the flag.        *)
Open(post) == post.client = "waiting" /\ post.via # "steer" /\ post.daemon \in {"sent", "refused"}

(* The submission that raised the flag last.                               *)
Raiser(subs, r) ==
    /\ r \in 1..Len(subs) /\ subs[r].via # "steer"
    /\ \A k \in (r + 1)..Len(subs) : subs[k].via = "steer"

Blocked(f, r) == \E i \in 1..Len(f) : f[i] = Event("blocked", r)

Raised(subs, f, lost) ==
    \E r \in 1..Len(subs) : Raiser(subs, r) /\ (Open(subs[r]) \/ Blocked(f, r) \/ r \in lost)

FlagInv ==
    inFlight /\ live /\ ~required => running # None \/ Over(feed) \/ Raised(posts, feed, missed)

BackedInv == LineInv /\ HeardInv /\ FlagInv

(* One event more.                                                         *)
Fits(e, run, next) ==
    /\ e \in AnEvent
    /\ e.type \in TurnOn => next # None
    /\ e.type \in TurnOver => run # None /\ next = None
    /\ e.type \notin TurnOn \cup TurnOver => (next = None <=> run = None)

LEMMA Appended ==
    ASSUME NEW f, NEW flag, NEW run, Tells(f, flag, run),
           NEW e, NEW next, Fits(e, run, next)
    PROVE  Tells(Append(f, e), flag, next)
  <1> USE DEF Tells, Fits
  <1> DEFINE g == Append(f, e)
             n == Len(f)
  <1>1. /\ g \in Seq(AnEvent) /\ Len(g) = n + 1 /\ n \in Nat
        /\ \A i \in 1..n : g[i] = f[i]
        /\ g[n + 1] = e
    BY AppendProperties, LenProperties
  <1> HIDE DEF g, n
  <1>2. ASSUME NEW m \in 0..n, NEW l \in 0..m
        PROVE  /\ Still(f, l, m) <=> Still(g, l, m)
               /\ l # 0 => g[l] = f[l]
    BY <1>1 DEF Still
  <1>3. \A m \in 0..n : On(f, flag, m) => On(g, flag, m)
    BY <1>2 DEF On
  <1>4. ASSUME e.type \notin TurnOn \cup TurnOver, NEW l \in 0..n, Still(g, l, n)
        PROVE  l \in 0..(n + 1) /\ Still(g, l, n + 1)
    <2>1. ASSUME NEW i \in (l + 1)..(n + 1)
          PROVE  g[i].type \notin TurnOn \cup TurnOver
      <3>1. i = n + 1 \/ i \in (l + 1)..n
        BY <1>1
      <3> QED BY <1>1, <1>4, <3>1 DEF Still
    <2> QED BY <1>1, <2>1 DEF Still
  <1>5. n + 1 \in 0..(n + 1) /\ n + 1 # 0 /\ Still(g, n + 1, n + 1)
    BY <1>1 DEF Still
  <1>6. next # None => On(g, flag, n + 1)
    <2>1. CASE e.type \in TurnOn
      BY <1>1, <1>5, <2>1 DEF On
    <2>2. CASE e.type \notin TurnOn \cup TurnOver /\ run # None
      <3>1. n \in 0..n /\ On(f, flag, n)
        BY <1>1, <2>2 DEF n
      <3>2. On(g, flag, n)
        BY <1>3, <3>1
      <3>3. PICK l \in 0..n : Still(g, l, n) /\ ((l = 0 /\ flag) \/ (l # 0 /\ g[l].type \in TurnOn))
        BY <3>2 DEF On
      <3> QED BY <1>4, <2>2, <3>3 DEF On
    <2> QED BY <2>1, <2>2
  <1>7. next = None => Off(g, flag, n + 1)
    <2>1. CASE e.type \in TurnOver
      BY <1>1, <1>5, <2>1 DEF Off
    <2>2. CASE e.type \notin TurnOn \cup TurnOver /\ run = None
      <3>1. n \in 0..n /\ Off(f, flag, n)
        BY <1>1, <2>2 DEF n
      <3>2. PICK l \in 0..n : Still(f, l, n) /\ ((l = 0 /\ ~flag) \/ (l # 0 /\ f[l].type \in TurnOver))
        BY <3>1 DEF Off
      <3>3. Still(g, l, n) /\ (l # 0 => g[l] = f[l])
        BY <1>2, <3>1, <3>2
      <3> QED BY <1>4, <2>2, <3>2, <3>3 DEF Off
    <2> QED BY <2>1, <2>2
  <1>8. ASSUME NEW i \in 1..(n + 1), g[i].type \in TurnOver
        PROVE  On(g, flag, i - 1)
    <2>1. CASE i = n + 1
      <3>1. On(f, flag, n) /\ n \in 0..n /\ i - 1 = n
        BY <1>1, <1>8, <2>1 DEF n
      <3> QED BY <1>3, <3>1
    <2>2. CASE i # n + 1
      <3>1. i \in 1..n /\ i - 1 \in 0..n /\ g[i] = f[i]
        BY <1>1, <2>2
      <3>2. On(f, flag, i - 1)
        BY <1>8, <3>1 DEF n
      <3> QED BY <1>3, <3>1, <3>2
    <2> QED BY <2>1, <2>2
  <1>9. Tells(g, flag, next)
    BY <1>1, <1>6, <1>7, <1>8
  <1> QED BY <1>9 DEF g

(* The first event handled: the flag is what the event says.               *)
LEMMA Handled ==
    ASSUME NEW f, NEW flag, NEW run, Tells(f, flag, run), f # <<>>
    PROVE  /\ Head(f) \in AnEvent /\ (Head(f).type \in TurnOver => flag)
           /\ \A on \in BOOLEAN :
                 /\ Head(f).type \in TurnOn => on
                 /\ Head(f).type \in TurnOver => ~on
                 /\ Head(f).type \notin TurnOn \cup TurnOver => (on <=> flag)
                 => Tells(Tail(f), on, run)
  <1> USE DEF Tells
  <1> DEFINE g == Tail(f)
             e == Head(f)
  <1>1. /\ g \in Seq(AnEvent) /\ Len(g) \in Nat /\ Len(f) = Len(g) + 1 /\ e = f[1]
        /\ \A i \in 1..Len(g) : g[i] = f[i + 1]
        /\ e \in AnEvent
    BY HeadTailProperties, EmptySeq
  <1> HIDE DEF g, e
  <1>2. e.type \in TurnOver => flag
    <2>1. ASSUME e.type \in TurnOver
          PROVE  On(f, flag, 0)
      <3>1. 1 \in 1..Len(f) /\ 1 - 1 = 0
        BY <1>1
      <3> QED BY <1>1, <2>1, <3>1
    <2> QED BY <2>1 DEF On
  <1>3. ASSUME NEW on \in BOOLEAN,
               e.type \in TurnOn => on,
               e.type \in TurnOver => ~on,
               e.type \notin TurnOn \cup TurnOver => (on <=> flag)
        PROVE  Tells(g, on, run)
    <2>1. ASSUME NEW n \in 0..Len(g), NEW l \in 0..(n + 1), Still(f, l, n + 1)
          PROVE  /\ l > 1 => /\ l - 1 \in 0..n /\ l - 1 # 0 /\ Still(g, l - 1, n)
                             /\ g[l - 1] = f[l]
                 /\ l <= 1 => 0 \in 0..n /\ Still(g, 0, n)
                 /\ l = 0 => e.type \notin TurnOn \cup TurnOver
      <3>1. \A i \in 1..n : g[i] = f[i + 1] /\ i + 1 \in 2..(n + 1)
        BY <1>1
      <3>2. ASSUME NEW m \in 0..n, l <= m + 1
            PROVE  Still(g, m, n)
        <4> SUFFICES ASSUME NEW i \in (m + 1)..n
                     PROVE  g[i].type \notin TurnOn \cup TurnOver
          BY DEF Still
        <4>1. i + 1 \in (l + 1)..(n + 1) /\ i \in 1..n
          BY <3>2
        <4> QED BY <2>1, <3>1, <4>1 DEF Still
      <3>3. l > 1 => l - 1 \in 0..n /\ l - 1 # 0 /\ l - 1 \in 1..n /\ (l - 1) + 1 = l
        OBVIOUS
      <3>4. ASSUME l = 0
            PROVE  e.type \notin TurnOn \cup TurnOver
        <4>1. 1 \in (l + 1)..(n + 1)
          BY <3>4
        <4> QED BY <1>1, <2>1, <4>1 DEF Still
      <3>5. l <= 1 => 0 \in 0..n /\ Still(g, 0, n)
        BY <3>2
      <3>6. l > 1 => Still(g, l - 1, n) /\ g[l - 1] = f[l]
        BY <3>1, <3>2, <3>3
      <3> QED BY <3>3, <3>4, <3>5, <3>6
    <2>2. ASSUME NEW n \in 0..Len(g), On(f, flag, n + 1)
          PROVE  On(g, on, n)
      <3>1. PICK l \in 0..(n + 1) :
               Still(f, l, n + 1) /\ ((l = 0 /\ flag) \/ (l # 0 /\ f[l].type \in TurnOn))
        BY <2>2 DEF On
      <3>2. CASE l > 1
        BY <2>1, <3>1, <3>2 DEF On
      <3>3. CASE l = 0
        <4>1. on /\ 0 \in 0..n /\ Still(g, 0, n)
          BY <1>3, <2>1, <3>1, <3>3
        <4> QED BY <4>1 DEF On
      <3>4. CASE l = 1
        <4>1. on /\ 0 \in 0..n /\ Still(g, 0, n)
          BY <1>1, <1>3, <2>1, <3>1, <3>4
        <4> QED BY <4>1 DEF On
      <3> QED BY <3>2, <3>3, <3>4
    <2>3. ASSUME NEW n \in 0..Len(g), Off(f, flag, n + 1)
          PROVE  Off(g, on, n)
      <3>1. PICK l \in 0..(n + 1) :
               Still(f, l, n + 1) /\ ((l = 0 /\ ~flag) \/ (l # 0 /\ f[l].type \in TurnOver))
        BY <2>3 DEF Off
      <3>2. CASE l > 1
        BY <2>1, <3>1, <3>2 DEF Off
      <3>3. CASE l = 0
        <4>1. ~on /\ 0 \in 0..n /\ Still(g, 0, n)
          BY <1>3, <2>1, <3>1, <3>3
        <4> QED BY <4>1 DEF Off
      <3>4. CASE l = 1
        <4>1. ~on /\ 0 \in 0..n /\ Still(g, 0, n)
          BY <1>1, <1>3, <2>1, <3>1, <3>4
        <4> QED BY <4>1 DEF Off
      <3> QED BY <3>2, <3>3, <3>4
    <2>4. Len(g) \in 0..Len(g) /\ Len(f) = Len(g) + 1
      BY <1>1
    <2>5. run # None => On(g, on, Len(g))
      BY <2>2, <2>4
    <2>6. run = None => Off(g, on, Len(g))
      BY <2>3, <2>4
    <2>7. ASSUME NEW i \in 1..Len(g), g[i].type \in TurnOver
          PROVE  On(g, on, i - 1)
      <3>1. /\ i + 1 \in 1..Len(f) /\ i - 1 \in 0..Len(g) /\ (i - 1) + 1 = (i + 1) - 1
            /\ g[i] = f[i + 1]
        BY <1>1
      <3>2. On(f, flag, (i + 1) - 1)
        BY <2>7, <3>1
      <3> QED BY <2>2, <3>1, <3>2
    <2> QED BY <1>1, <2>5, <2>6, <2>7
  <1> QED BY <1>1, <1>2, <1>3 DEF g, e

(* No turn runs: one that the flag or an event speaks of has been ended.   *)
LEMMA TellsOver ==
    ASSUME NEW f, NEW flag, NEW run, Tells(f, flag, run), run = None
    PROVE  flag \/ (\E i \in 1..Len(f) : f[i].type \in TurnOn) => Over(f)
  <1>1. Len(f) \in Nat /\ Off(f, flag, Len(f))
    BY LenProperties DEF Tells
  <1>2. PICK l \in 0..Len(f) :
           Still(f, l, Len(f)) /\ ((l = 0 /\ ~flag) \/ (l # 0 /\ f[l].type \in TurnOver))
    BY <1>1 DEF Off
  <1>3. CASE l # 0
    BY <1>1, <1>2, <1>3 DEF Over
  <1>4. CASE l = 0
    <2>1. ~flag /\ \A i \in 1..Len(f) : f[i].type \notin TurnOn
      BY <1>1, <1>2, <1>4 DEF Still
    <2> QED BY <2>1
  <1> QED BY <1>3, <1>4

(* The daemon's state just read needs no events.                           *)
LEMMA TellsNow ==
    ASSUME NEW run
    PROVE  Tells(<<>>, run # None, run)
  <1>1. <<>> \in Seq(AnEvent) /\ Len(<<>>) = 0 /\ 0 \in 0..0 /\ Still(<<>>, 0, 0)
    BY DEF Still
  <1>2. run # None => On(<<>>, run # None, 0)
    BY <1>1 DEF On
  <1>3. run = None => Off(<<>>, run # None, 0)
    BY <1>1 DEF Off
  <1> QED BY <1>1, <1>2, <1>3 DEF Tells

(* What one step of the daemon announces, and what runs before and after.  *)
Says(events, run, next) ==
    \/ \E e : events = <<e>> /\ Fits(e, run, next)
    \/ \E e, d : /\ events = <<e, d>> /\ Fits(e, run, None) /\ Fits(d, None, next)

LEMMA AppendKeeps ==
    ASSUME NEW f \in Seq(AnEvent), NEW e \in AnEvent
    PROVE  /\ Append(f, e) \in Seq(AnEvent) /\ Append(f, e) = f \o <<e>>
           /\ Over(f) \/ e.type \in TurnOver => Over(Append(f, e))
           /\ \A r : Blocked(f, r) \/ e = Event("blocked", r) => Blocked(Append(f, e), r)
           /\ e.type \notin TurnOver /\ Over(Append(f, e)) => Over(f)
  <1> DEFINE g == Append(f, e)
  <1>1. /\ g \in Seq(AnEvent) /\ Len(g) = Len(f) + 1 /\ Len(f) \in Nat
        /\ \A i \in 1..Len(f) : g[i] = f[i]
        /\ g[Len(f) + 1] = e
    BY AppendProperties, LenProperties
  <1>2. g = f \o <<e>>
    OBVIOUS
  <1> HIDE DEF g
  <1>3. Len(g) \in 1..Len(g) /\ \A i \in 1..Len(f) : i \in 1..Len(g)
    BY <1>1
  <1>4. Over(f) \/ e.type \in TurnOver => Over(g)
    BY <1>1, <1>3 DEF Over
  <1>5. \A r : Blocked(f, r) \/ e = Event("blocked", r) => Blocked(g, r)
    BY <1>1, <1>3 DEF Blocked
  <1>6. e.type \notin TurnOver /\ Over(g) => Over(f)
    BY <1>1 DEF Over
  <1> QED BY <1>1, <1>2, <1>4, <1>5, <1>6 DEF g

LEMMA Announced ==
    ASSUME NEW f, NEW flag, NEW run, Tells(f, flag, run),
           NEW events, NEW next, Says(events, run, next)
    PROVE  /\ Tells(f \o events, flag, next)
           /\ run # None /\ next = None => Over(f \o events)
  <1>0. f \in Seq(AnEvent)
    BY DEF Tells
  <1>1. ASSUME NEW e, events = <<e>>, Fits(e, run, next)
        PROVE  /\ Tells(f \o events, flag, next)
               /\ run # None /\ next = None => Over(f \o events)
    <2>1. e \in AnEvent /\ (run # None /\ next = None => e.type \in TurnOver)
      BY <1>1 DEF Fits
    <2>2. f \o <<e>> = Append(f, e) /\ (e.type \in TurnOver => Over(Append(f, e)))
      BY <1>0, <2>1, AppendKeeps
    <2>3. Tells(Append(f, e), flag, next)
      BY <1>1, Appended
    <2> QED BY <1>1, <2>1, <2>2, <2>3
  <1>2. ASSUME NEW e, NEW d, events = <<e, d>>, Fits(e, run, None), Fits(d, None, next)
        PROVE  /\ Tells(f \o events, flag, next)
               /\ run # None /\ next = None => Over(f \o events)
    <2> DEFINE h == Append(f, e)
    <2>1. e \in AnEvent /\ d \in AnEvent /\ (run # None => e.type \in TurnOver)
      BY <1>2 DEF Fits
    <2>2. h \in Seq(AnEvent) /\ (e.type \in TurnOver => Over(h))
      BY <1>0, <2>1, AppendKeeps
    <2>3. Tells(h, flag, None)
      BY <1>2, Appended
    <2>4. f \o <<e, d>> = Append(h, d)
      BY <1>0, <2>1
    <2> HIDE DEF h
    <2>5. Tells(Append(h, d), flag, next)
      BY <1>2, <2>3, Appended
    <2>6. Over(h) => Over(Append(h, d))
      BY <2>1, <2>2, AppendKeeps
    <2> QED BY <1>2, <2>1, <2>2, <2>4, <2>5, <2>6
  <1> QED BY <1>1, <1>2 DEF Says

(* A step of the daemon that announces something.                          *)
LEMMA AnnounceTells ==
    ASSUME HeardInv, NEW events, Says(events, running, running'), Announce(events),
           UNCHANGED <<live, known, required, turnActive>>
    PROVE  /\ HeardInv'
           /\ known /\ running # None /\ running' = None => Over(feed')
  <1>1. ASSUME known
        PROVE  feed' = feed \o events /\ known'
    BY <1>1 DEF Announce
  <1>2. ASSUME known
        PROVE  \E flag \in BOOLEAN : Tells(feed', flag, running')
    <2>1. PICK flag \in BOOLEAN : Tells(feed, flag, running)
      BY <1>2 DEF HeardInv
    <2> QED BY <1>1, <1>2, <2>1, Announced
  <1>3. ASSUME known, running # None, running' = None
        PROVE  Over(feed')
    <2>1. PICK flag \in BOOLEAN : Tells(feed, flag, running)
      BY <1>3 DEF HeardInv
    <2>2. Over(feed \o events)
      BY <1>3, <2>1, Announced
    <2> QED BY <1>1, <1>3, <2>2
  <1>4. ASSUME live, ~required
        PROVE  Tells(feed', turnActive', running')
    <2>1. Tells(feed, turnActive, running) /\ known
      BY <1>4 DEF HeardInv
    <2>2. Tells(feed \o events, turnActive, running')
      BY <2>1, Announced
    <2> QED BY <1>1, <2>1, <2>2
  <1>5. ASSUME snap' # NoSnapshot
        PROVE  /\ known'
               /\ snap' \in [since : Seq(AnEvent), active : BOOLEAN, generation : Nat]
               /\ Tells(snap'.since, snap'.active, running')
    <2>1. snap # NoSnapshot /\ snap' = [snap EXCEPT !.since = @ \o events]
      BY <1>5 DEF Announce
    <2>2. /\ snap \in [since : Seq(AnEvent), active : BOOLEAN, generation : Nat] /\ known
          /\ Tells(snap.since, snap.active, running)
      BY <2>1 DEF HeardInv
    <2>3. Tells(snap.since \o events, snap.active, running')
      BY <2>2, Announced
    <2>4. snap.since \o events \in Seq(AnEvent)
      BY <2>3 DEF Tells
    <2>5. snap'.since = snap.since \o events /\ snap'.active = snap.active
      BY <2>1, <2>2
    <2> QED BY <2>1, <2>2, <2>3, <2>4, <2>5
  <1>6. (live => known) /\ UNCHANGED <<live, known, required>>
    BY DEF HeardInv
  <1> QED BY <1>2, <1>3, <1>4, <1>5, <1>6 DEF HeardInv

(* ... and that ends a turn, or leaves one running.                        *)
LEMMA AnnounceKeeps ==
    ASSUME HeardInv, NEW events, Says(events, running, running'), Announce(events),
           UNCHANGED <<live, known, required, turnActive>>, running # None \/ running' # None
    PROVE  HeardInv' /\ FlagInv'
  <1>1. HeardInv' /\ (known /\ running # None /\ running' = None => Over(feed'))
    BY AnnounceTells
  <1>2. live' => known
    BY DEF HeardInv
  <1> QED BY <1>1, <1>2 DEF FlagInv

(* A removed place keeps what the daemon's line is.                        *)
LEMMA UnparkKeeps ==
    ASSUME NEW ids, parked \in Seq(ids), NEW k, Unpark(k)
    PROVE  parked' \in Seq(ids) /\ k \in ids
  <1>1. PICK i \in DOMAIN parked : parked[i] = k /\ parked' = RemoveAt(parked, i)
    BY DEF Unpark
  <1>2. Len(parked) \in Nat /\ i \in 1..Len(parked)
    BY <1>1, LenProperties
  <1> DEFINE a == SubSeq(parked, 1, i - 1)
             b == SubSeq(parked, i + 1, Len(parked))
  <1>3. a \in Seq(ids) /\ b \in Seq(ids)
    <2>1. \A j \in 1..Len(parked) : parked[j] \in ids
      BY ElementOfSeq
    <2> QED BY <1>2, <2>1, SubSeqProperties
  <1>4. RemoveAt(parked, i) = a \o b
    BY DEF RemoveAt
  <1> HIDE DEF a, b
  <1> QED BY <1>1, <1>2, <1>3, <1>4, ConcatProperties, ElementOfSeq

LEMMA UnparkRuns ==
    ASSUME LineInv, NEW k, Unpark(k)
    PROVE  parked' \in Seq(Nat \ {0}) /\ k \in Nat \ {0} /\ running # None
  <1>1. parked \in Seq(Nat \ {0}) /\ parked # <<>>
    BY DEF LineInv, Unpark
  <1> QED BY <1>1, UnparkKeeps DEF LineInv

LEMMA EventTypes ==
    ASSUME NEW k \in Nat
    PROVE  \A type \in AnEventType : Event(type, k) \in AnEvent /\ Event(type, k).type = type
  BY DEF Event, AnEvent

(* The daemon's steps: what they announce is so, and only a blocked prompt *)
(* is announced while no turn runs, before or after.                       *)
LineStep ==
    \/ \E k \in PostIds : DaemonStarts(k) \/ DaemonParks(k) \/ DaemonBlocks(k)
    \/ EndTurn
    \/ \E k : Drop(k)
    \/ ForeignTurn
    \/ TurnVanishes

Announcement(events) ==
    /\ Says(events, running, running') /\ Announce(events)
    /\ \/ running # None
       \/ running' # None
       \/ \E k \in PostIds : DaemonBlocks(k) /\ events = <<Event("blocked", k)>>

LEMMA OneSaid ==
    ASSUME NEW type \in AnEventType, NEW k \in Nat, Announce(<<Event(type, k)>>),
           type \in TurnOn => running' # None,
           type \in TurnOver => running # None /\ running' = None,
           type \notin TurnOn \cup TurnOver => (running' = None <=> running = None),
           running # None \/ running' # None
    PROVE  \E events : Announcement(events)
  <1>1. Event(type, k) \in AnEvent /\ Event(type, k).type = type
    BY EventTypes
  <1>2. Fits(Event(type, k), running, running')
    BY <1>1 DEF Fits
  <1>3. Says(<<Event(type, k)>>, running, running')
    BY <1>2 DEF Says
  <1> QED BY <1>3 DEF Announcement

LEMMA LineSays ==
    ASSUME PlacedInv, LineInv, LineStep
    PROVE  LineInv' /\ \E events : Announcement(events)
  <1>0. /\ running \in Nat /\ parked \in Seq(Nat \ {0}) /\ Foreign \in Nat /\ Foreign # None
        /\ \A k \in PostIds : k \in Nat \ {0} /\ k \in Nat /\ k # None
    BY Posts, LenProperties, PlacedParts, BoundsAssumption DEF PlacedInv, LineInv, Foreign, None
  <1>1. ASSUME NEW k \in PostIds, DaemonStarts(k)
        PROVE  LineInv' /\ \E events : Announcement(events)
    <2>1. running' = k /\ parked' = parked /\ Announce(<<Event("began", k)>>)
      BY <1>1 DEF DaemonStarts
    <2>2. "began" \in TurnOn \ TurnOver /\ "began" \in AnEventType
      BY DEF TurnOn, TurnOver, AnEventType
    <2> QED BY <1>0, <2>1, <2>2, OneSaid DEF LineInv
  <1>2. ASSUME NEW k \in PostIds, DaemonParks(k)
        PROVE  LineInv' /\ \E events : Announcement(events)
    <2>1. /\ running # None /\ running' = running /\ parked' = Append(parked, k)
          /\ Announce(<<Event("submitted", k)>>)
      BY <1>2 DEF DaemonParks
    <2>2. parked' \in Seq(Nat \ {0})
      BY <1>0, <2>1, AppendProperties
    <2>3. "submitted" \notin TurnOn \cup TurnOver /\ "submitted" \in AnEventType
      BY DEF TurnOn, TurnOver, AnEventType
    <2> QED BY <1>0, <2>1, <2>2, <2>3, OneSaid DEF LineInv
  <1>3. ASSUME NEW k \in PostIds, DaemonBlocks(k)
        PROVE  LineInv' /\ \E events : Announcement(events)
    <2>1. /\ running' = running /\ parked' = parked /\ Announce(<<Event("blocked", k)>>)
      BY <1>3 DEF DaemonBlocks, daemonVars
    <2>2. Event("blocked", k) \in AnEvent /\ Event("blocked", k).type = "blocked"
      BY <1>0, EventTypes DEF AnEventType
    <2>3. Fits(Event("blocked", k), running, running')
      BY <2>1, <2>2 DEF Fits, TurnOn, TurnOver
    <2>4. Says(<<Event("blocked", k)>>, running, running')
      BY <2>3 DEF Says
    <2> QED BY <1>3, <2>1, <2>4 DEF LineInv, Announcement
  <1>4. CASE EndTurn
    <2>1. CASE parked = <<>>
      <3>1. /\ running # None /\ running' = None /\ parked' = parked
            /\ Announce(<<Event("ended", running)>>)
        BY <1>4, <2>1 DEF EndTurn
      <3>2. "ended" \in TurnOver \ TurnOn /\ "ended" \in AnEventType
        BY DEF TurnOn, TurnOver, AnEventType
      <3>3. \E events : Announcement(events)
        BY <1>0, <3>1, <3>2, OneSaid
      <3> QED BY <1>0, <2>1, <3>1, <3>3 DEF LineInv, None
    <2>2. CASE parked # <<>>
      <3> DEFINE e == Event("handed", running)
                 d == Event("started", Head(parked))
      <3>1. /\ running # None /\ running' = Head(parked) /\ parked' = Tail(parked)
            /\ Announce(<<e, d>>)
        BY <1>4, <2>2 DEF EndTurn
      <3>2. Head(parked) \in Nat \ {0} /\ Tail(parked) \in Seq(Nat \ {0})
        BY <1>0, <2>2, HeadTailProperties
      <3>3. e \in AnEvent /\ e.type = "handed" /\ d \in AnEvent /\ d.type = "started"
        BY <1>0, <3>2, EventTypes DEF AnEventType
      <3> HIDE DEF e, d
      <3>4. Fits(e, running, None) /\ Fits(d, None, running')
        BY <3>1, <3>2, <3>3 DEF Fits, TurnOn, TurnOver, None
      <3>5. Says(<<e, d>>, running, running')
        BY <3>4 DEF Says
      <3> QED BY <3>1, <3>2, <3>5 DEF LineInv, Announcement, None
    <2> QED BY <2>1, <2>2
  <1>5. ASSUME NEW k, Drop(k)
        PROVE  LineInv' /\ \E events : Announcement(events)
    <2>1. Announce(<<Event("dropped", k)>>) /\ running' = running
      BY <1>5 DEF Drop
    <2>2. parked' \in Seq(Nat \ {0}) /\ k \in Nat /\ running # None
      BY <1>5, UnparkRuns DEF Drop
    <2>3. "dropped" \notin TurnOn \cup TurnOver /\ "dropped" \in AnEventType
      BY DEF TurnOn, TurnOver, AnEventType
    <2> QED BY <1>0, <2>1, <2>2, <2>3, OneSaid DEF LineInv
  <1>6. CASE ForeignTurn
    <2>1. running' = Foreign /\ parked' = parked /\ Announce(<<Event("began", Foreign)>>)
      BY <1>6 DEF ForeignTurn
    <2>2. "began" \in TurnOn \ TurnOver /\ "began" \in AnEventType
      BY DEF TurnOn, TurnOver, AnEventType
    <2> QED BY <1>0, <2>1, <2>2, OneSaid DEF LineInv
  <1>7. CASE TurnVanishes
    <2>1. /\ running # None /\ parked = <<>> /\ running' = None /\ parked' = parked
          /\ Announce(<<Event("quiet", running)>>)
      BY <1>7 DEF TurnVanishes
    <2>2. "quiet" \in TurnOver \ TurnOn /\ "quiet" \in AnEventType
      BY DEF TurnOn, TurnOver, AnEventType
    <2>3. \E events : Announcement(events)
      BY <1>0, <2>1, <2>2, OneSaid
    <2> QED BY <1>0, <2>1, <2>3 DEF LineInv, None
  <1> QED BY <1>1, <1>2, <1>3, <1>4, <1>5, <1>6, <1>7 DEF LineStep

----------------------------------------------------------------------------
(* The client's steps.                                                     *)

LEMMA RaisedPosts ==
    ASSUME NEW subs \in Seq(Submission), NEW post \in Submission, NEW f, NEW g, NEW lost, NEW more,
           \A r : Blocked(f, r) => Blocked(g, r), lost \subseteq more
    PROVE  /\ Raised(subs, f, lost) => Raised(subs, g, more)
           /\ post.via = "steer" /\ Raised(subs, f, lost) => Raised(Append(subs, post), g, more)
           /\ Open(post) => Raised(Append(subs, post), g, more)
           /\ \A k \in 1..Len(subs) :
                 /\ post.via = subs[k].via /\ (Open(subs[k]) => Open(post) \/ Blocked(g, k))
                 /\ Raised(subs, f, lost)
                 => Raised([subs EXCEPT ![k] = post], g, more)
  <1> DEFINE longer == Append(subs, post)
  <1>1. /\ Len(longer) = Len(subs) + 1 /\ Len(subs) \in Nat
        /\ \A i \in 1..Len(subs) : longer[i] = subs[i]
        /\ longer[Len(subs) + 1] = post
    BY AppendProperties, LenProperties
  <1> HIDE DEF longer
  <1>2. ASSUME NEW r \in 1..Len(subs), Raiser(subs, r), post.via = "steer"
        PROVE  r \in 1..Len(longer) /\ Raiser(longer, r) /\ longer[r] = subs[r]
    <2>1. r \in 1..Len(longer) /\ longer[r] = subs[r]
      BY <1>1
    <2>2. ASSUME NEW k \in (r + 1)..Len(longer)
          PROVE  longer[k].via = "steer"
      <3>1. (k \in (r + 1)..Len(subs) /\ k \in 1..Len(subs)) \/ k = Len(subs) + 1
        BY <1>1
      <3> QED BY <1>1, <1>2, <3>1 DEF Raiser
    <2> QED BY <1>2, <2>1, <2>2 DEF Raiser
  <1>3. post.via = "steer" /\ Raised(subs, f, lost) => Raised(longer, g, more)
    BY <1>2 DEF Raised
  <1>4. ASSUME Open(post)
        PROVE  Raised(longer, g, more)
    <2> DEFINE r == Len(subs) + 1
    <2>1. r \in 1..Len(longer) /\ (r + 1)..Len(longer) = {} /\ longer[r] = post
      BY <1>1
    <2>2. post.via # "steer"
      BY <1>4 DEF Open
    <2> HIDE DEF r
    <2>3. Raiser(longer, r)
      BY <2>1, <2>2 DEF Raiser
    <2> QED BY <1>4, <2>1, <2>3 DEF Raised
  <1>5. ASSUME NEW k \in 1..Len(subs), post.via = subs[k].via, Raised(subs, f, lost),
               Open(subs[k]) => Open(post) \/ Blocked(g, k)
        PROVE  Raised([subs EXCEPT ![k] = post], g, more)
    <2> DEFINE new == [subs EXCEPT ![k] = post]
    <2>1. Len(new) = Len(subs) /\ \A i \in 1..Len(subs) : new[i] = IF i = k THEN post ELSE subs[i]
      BY ExceptSeq
    <2> HIDE DEF new
    <2>2. PICK r \in 1..Len(subs) :
             Raiser(subs, r) /\ (Open(subs[r]) \/ Blocked(f, r) \/ r \in lost)
      BY <1>5 DEF Raised
    <2>3. \A i \in 1..Len(subs) : new[i].via = subs[i].via
      BY <1>5, <2>1
    <2>4. \A i \in (r + 1)..Len(subs) : i \in 1..Len(subs)
      BY <1>1
    <2>5. Raiser(new, r)
      BY <2>1, <2>2, <2>3, <2>4 DEF Raiser
    <2>6. Open(new[r]) \/ Blocked(g, r) \/ r \in more
      BY <1>5, <2>1, <2>2
    <2>7. Raised(new, g, more)
      BY <2>1, <2>5, <2>6 DEF Raised
    <2> QED BY <2>7 DEF new
  <1>6. Raised(subs, f, lost) => Raised(subs, g, more)
    BY DEF Raised
  <1> QED BY <1>3, <1>4, <1>5, <1>6 DEF longer

(* A prompt sent at once, or drained from the queue, is open.              *)
LEMMA OpenPost ==
    ASSUME NEW subs \in Seq(Submission), NEW via, NEW e, NEW t, Sendable(via, e, t), NEW f, NEW lost
    PROVE  /\ via = "steer" /\ Raised(subs, f, lost)
                  => Raised(Append(subs, Post(via, e, t)), f, lost)
           /\ via # "steer" => Raised(Append(subs, Post(via, e, t)), f, lost)
  <1> DEFINE post == Post(via, e, t)
  <1>1. post \in Submission
    BY NewPost
  <1>2. post.via = via /\ (via # "steer" => Open(post))
    BY DEF Post, Open
  <1> HIDE DEF post
  <1>3. /\ post.via = "steer" /\ Raised(subs, f, lost) => Raised(Append(subs, post), f, lost)
        /\ Open(post) => Raised(Append(subs, post), f, lost)
    BY <1>1, RaisedPosts
  <1> QED BY <1>2, <1>3 DEF post

LEMMA FlushOpen ==
    ASSUME NEW q \in Seq(Nat), NEW subs \in Seq(Submission), q # <<>>, FlushHead(q, subs),
           NEW f, NEW lost
    PROVE  Raised(posts', f, lost)
  <1>1. Head(q) \in Nat
    BY HeadTailProperties
  <1>2. Sendable("flush", <<Head(q)>>, <<>>)
    <2>1. ToSet(<<>>) = {}
      BY DEF ToSet
    <2> QED BY <1>1, <2>1, FewElements DEF Sendable
  <1>3. posts' = Append(subs, Post("flush", <<Head(q)>>, <<>>))
    BY DEF FlushHead, Flushed
  <1> QED BY <1>2, <1>3, OpenPost

(* What leaves daemon, feed and snapshot alone.                            *)
LEMMA FlagKeeps ==
    ASSUME BackedInv, FlagInv', running' = running, parked' = parked,
           UNCHANGED <<feed, snap, live, known, required, turnActive>>
    PROVE  BackedInv'
  BY DEF BackedInv, LineInv, HeardInv

(* A step that raises the flag only with a new submission, and keeps it    *)
(* only while the newest that raised it stays open.                        *)
Keeps(f, lost) ==
    inFlight' => \/ Raised(posts', f, lost)
                 \/ inFlight /\ (Raised(posts, f, lost) => Raised(posts', f, lost))

LEMMA FlagStays ==
    ASSUME FlagInv, UNCHANGED <<running, feed, live, required, missed>>, Keeps(feed, missed)
    PROVE  FlagInv'
  BY DEF FlagInv, Keeps

LEMMA UserRaises ==
    ASSUME PlacedInv, User, NEW f, NEW lost
    PROVE  Keeps(f, lost)
  <1>1. /\ queue \in Seq(Nat) /\ posts \in Seq(Submission) /\ typed \in Nat /\ Distinct(queue)
        /\ typed + 1 \in Nat
    BY Posts DEF PlacedInv, Placed, Shaped
  <1>2. ASSUME UNCHANGED <<inFlight, posts>>
        PROVE  Keeps(f, lost)
    BY <1>2 DEF Keeps
  <1>3. ASSUME EnqueueAndFlush
        PROVE  Keeps(f, lost)
    <2>1. /\ Append(queue, typed + 1) \in Seq(Nat) /\ Append(queue, typed + 1) # <<>>
          /\ FlushHead(Append(queue, typed + 1), posts)
      BY <1>1, <1>3, AppendProperties, EmptySeq DEF EnqueueAndFlush, TypeNext
    <2>2. Raised(posts', f, lost)
      BY <1>1, <2>1, FlushOpen
    <2> QED BY <2>2 DEF Keeps
  <1>4. ASSUME SendNow
        PROVE  Keeps(f, lost)
    <2>1. Sendable("send", <<>>, <<typed + 1>>)
      BY <1>1, FewElements DEF Sendable
    <2>2. posts' = Append(posts, Post("send", <<>>, <<typed + 1>>))
      BY <1>4 DEF SendNow, TypeNext
    <2>3. Raised(posts', f, lost)
      BY <1>1, <2>1, <2>2, OpenPost
    <2> QED BY <2>3 DEF Keeps
  <1>5. ASSUME Steer
        PROVE  Keeps(f, lost)
    <2> DEFINE via == IF Running THEN "steer" ELSE "merged"
               text == IF typed' = typed THEN <<>> ELSE <<typed'>>
    <2>1. /\ posts' = Append(posts, Post(via, queue, text)) /\ typed' \in {typed, typed + 1}
          /\ inFlight' = (inFlight \/ ~Running)
      BY <1>5 DEF Steer, TypeNext
    <2>2. text \in Seq(Nat) /\ ToSet(queue) \cap ToSet(text) = {}
      <3>1. CASE typed' = typed
        BY <1>1, <3>1, FewElements
      <3>2. CASE typed' = typed + 1
        <4>1. typed + 1 \notin ToSet(queue)
          BY <1>1 DEF PlacedInv, Placed
        <4>2. text = <<typed + 1>> /\ ToSet(<<typed + 1>>) = {typed + 1}
          BY <1>1, <3>2, FewElements
        <4> QED BY <1>1, <4>1, <4>2, FewElements
      <3> QED BY <2>1, <3>1, <3>2
    <2>3. /\ via \in {"send", "flush", "merged", "steer"} /\ via # "flush"
          /\ ~Running => via # "steer"
      OBVIOUS
    <2> HIDE DEF via, text
    <2>4. Sendable(via, queue, text)
      BY <1>1, <2>2, <2>3 DEF Sendable
    <2>5. /\ Raised(posts, f, lost) => Raised(posts', f, lost)
          /\ ~Running => Raised(posts', f, lost)
      BY <1>1, <2>1, <2>3, <2>4, OpenPost
    <2>6. inFlight' => inFlight \/ ~Running
      BY <2>1
    <2> QED BY <2>5, <2>6 DEF Keeps
  <1> QED BY <1>2, <1>3, <1>4, <1>5 DEF User, Enqueue, Unqueue, ReorderQueue, turnVars

LEMMA UserBacked ==
    ASSUME PlacedInv, BackedInv, User
    PROVE  BackedInv'
  <1>1. UNCHANGED <<running, parked, feed, snap, live, known, required, turnActive, missed>>
    BY DEF User, Enqueue, EnqueueAndFlush, SendNow, Steer, Unqueue, ReorderQueue, daemonVars,
           feedVars, viewVars, turnVars
  <1>2. FlagInv'
    BY <1>1, UserRaises, FlagStays DEF BackedInv
  <1> QED BY <1>1, <1>2, FlagKeeps

(* A refusal by the daemon leaves the submission open ...                  *)
LEMMA RefuseRaises ==
    ASSUME PlacedInv, NEW k \in PostIds, DaemonRefuses(k), NEW f, NEW lost
    PROVE  Keeps(f, lost)
  <1> DEFINE post == [posts[k] EXCEPT !.daemon = "refused"]
  <1>1. /\ posts \in Seq(Submission) /\ k \in 1..Len(posts) /\ post \in Submission
        /\ post.via = posts[k].via
    BY Posts DEF PlacedInv, Placed, Shaped, Submission
  <1>2. Open(posts[k]) => Open(post)
    BY <1>1, Posts DEF Open, Submission
  <1>3. posts' = [posts EXCEPT ![k] = post] /\ inFlight' = inFlight
    BY DEF DaemonRefuses, Decide, turnVars
  <1> HIDE DEF post
  <1>4. Raised(posts, f, lost) => Raised(posts', f, lost)
    BY <1>1, <1>2, <1>3, RaisedPosts
  <1> QED BY <1>3, <1>4 DEF Keeps

(* ... its answer clears the flag, or settles a submission that is not     *)
(* open, or drains the next prompt.                                        *)
LEMMA SettleRaised ==
    ASSUME PlacedInv, NEW k \in PostIds, ~Open(posts[k]), NEW f, NEW lost,
           NEW outcome \in {"steering", "done", "uncertain", "rejected"},
           posts' = Settle(k, outcome), inFlight' => inFlight
    PROVE  Keeps(f, lost)
  <1> DEFINE post == [posts[k] EXCEPT !.client = outcome]
  <1>1. /\ posts \in Seq(Submission) /\ k \in 1..Len(posts) /\ post \in Submission
        /\ post.via = posts[k].via
    BY Posts DEF PlacedInv, Placed, Shaped, Submission
  <1>2. posts' = [posts EXCEPT ![k] = post]
    BY DEF Settle
  <1> HIDE DEF post
  <1>3. Raised(posts, f, lost) => Raised([posts EXCEPT ![k] = post], f, lost)
    BY <1>1, RaisedPosts
  <1> QED BY <1>2, <1>3 DEF Keeps

LEMMA SettledSeq ==
    ASSUME PlacedInv, NEW k \in PostIds
    PROVE  Settle(k, "rejected") \in Seq(Submission)
  <1> DEFINE post == [posts[k] EXCEPT !.client = "rejected"]
  <1>1. post \in Submission /\ k \in 1..Len(posts) /\ posts \in Seq(Submission)
    BY Posts DEF PlacedInv, Placed, Shaped, Submission
  <1>2. Settle(k, "rejected") = [posts EXCEPT ![k] = post]
    BY DEF Settle
  <1> HIDE DEF post
  <1> QED BY <1>1, <1>2, ExceptSeq

Answered(k) ==
    \/ AnswerOk(k) \/ SteerAnswered(k) \/ AnswerLost(k)
    \/ RefusedSend(k) \/ RefusedFlush(k) \/ FlushExhausted(k) \/ FlushForgotten(k)

LEMMA AnswersRaise ==
    ASSUME PlacedInv, NEW k \in PostIds, Answered(k), NEW f, NEW lost
    PROVE  Keeps(f, lost)
  <1>1. posts[k] \in Submission /\ queue \in Seq(Nat)
    BY Posts DEF PlacedInv, Placed, Shaped
  <1>2. ASSUME AnswerOk(k)
        PROVE  Keeps(f, lost)
    <2>1. /\ ~Open(posts[k]) /\ UNCHANGED inFlight
          /\ posts' = Settle(k, "steering") \/ posts' = Settle(k, "done")
      BY <1>2 DEF AnswerOk, Open
    <2> QED BY <2>1, SettleRaised
  <1>3. ASSUME SteerAnswered(k)
        PROVE  Keeps(f, lost)
    <2>1. ~Open(posts[k]) /\ UNCHANGED inFlight /\ posts' = Settle(k, "done")
      BY <1>3 DEF SteerAnswered, Open, turnVars
    <2> QED BY <2>1, SettleRaised
  <1>4. ASSUME ~inFlight'
        PROVE  Keeps(f, lost)
    BY <1>4 DEF Keeps
  <1>5. ASSUME inFlight' /\ AnswerLost(k)
        PROVE  Keeps(f, lost)
    <2>1. ~Open(posts[k]) /\ (inFlight' => inFlight) /\ posts' = Settle(k, "uncertain")
      BY <1>5 DEF AnswerLost, FlagAfterFailure, Open
    <2> QED BY <2>1, SettleRaised
  <1>6. ASSUME inFlight' /\ RefusedSend(k)
        PROVE  Keeps(f, lost)
    <2>1. ~Open(posts[k]) /\ (inFlight' => inFlight) /\ posts' = Settle(k, "rejected")
      BY <1>6 DEF RefusedSend, FlagAfterFailure, Open
    <2> QED BY <2>1, SettleRaised
  <1>7. ASSUME inFlight' /\ FlushExhausted(k)
        PROVE  Keeps(f, lost)
    <2>1. queue # <<>> /\ FlushHead(queue, Settle(k, "rejected"))
      BY <1>7 DEF FlushExhausted
    <2>2. Settle(k, "rejected") \in Seq(Submission)
      BY SettledSeq
    <2>3. Raised(posts', f, lost)
      BY <1>1, <2>1, <2>2, FlushOpen
    <2> QED BY <2>3 DEF Keeps
  <1> QED BY <1>2, <1>3, <1>4, <1>5, <1>6, <1>7 DEF Answered, RefusedFlush, FlushForgotten

LEMMA AnswersBacked ==
    ASSUME PlacedInv, BackedInv, NEW k \in PostIds, Answered(k)
    PROVE  BackedInv'
  <1>1. UNCHANGED <<running, feed, snap, live, known, required, turnActive, missed>>
    BY DEF Answered, AnswerOk, SteerAnswered, AnswerLost, RefusedSend, RefusedFlush,
           FlushExhausted, FlushForgotten, Disturb, daemonVars, feedVars, viewVars, turnVars
  <1>2. LineInv /\ HeardInv /\ FlagInv
    BY DEF BackedInv
  <1>3. LineInv'
    <2>1. CASE UNCHANGED parked
      BY <1>1, <1>2, <2>1 DEF LineInv
    <2>2. CASE Unpark(k)
      <3>1. parked' \in Seq(Nat \ {0}) /\ running # None
        BY <1>2, <2>2, UnparkRuns
      <3> QED BY <1>1, <1>2, <3>1 DEF LineInv
    <2> QED BY <2>1, <2>2 DEF Answered, AnswerOk, SteerAnswered, AnswerLost, RefusedSend,
                              RefusedFlush, FlushExhausted, FlushForgotten, daemonVars
  <1>4. HeardInv'
    BY <1>1, <1>2 DEF HeardInv
  <1>5. FlagInv'
    BY <1>1, <1>2, AnswersRaise, FlagStays
  <1> QED BY <1>3, <1>4, <1>5 DEF BackedInv

(* finishPromptLocal clears the flag or drains the next prompt.            *)
LEMMA FinishBacked ==
    ASSUME PlacedInv, FinishPrompt, NEW f, NEW lost
    PROVE  ~inFlight' \/ Raised(posts', f, lost)
  <1>1. queue \in Seq(Nat) /\ posts \in Seq(Submission)
    BY DEF PlacedInv, Placed, Shaped
  <1> QED BY <1>1, FlushOpen DEF FinishPrompt

(* The head of the feed that the client does not take for the end of its   *)
(* prompt takes nothing away that backs the flag.                          *)
LEMMA HeadGone ==
    ASSUME NEW f \in Seq(AnEvent), f # <<>>
    PROVE  /\ Over(f) => Head(f).type \in TurnOver \/ Over(Tail(f))
           /\ \A r : Blocked(f, r) => Head(f) = Event("blocked", r) \/ Blocked(Tail(f), r)
           /\ Over(Tail(f)) => Over(f)
  <1> DEFINE g == Tail(f)
  <1>1. /\ Len(g) \in Nat /\ Len(f) = Len(g) + 1 /\ Head(f) = f[1]
        /\ \A i \in 1..Len(g) : g[i] = f[i + 1]
    BY HeadTailProperties, EmptySeq
  <1> HIDE DEF g
  <1>2. \A i \in 1..Len(f) : i = 1 \/ (i - 1 \in 1..Len(g) /\ g[i - 1] = f[i])
    BY <1>1
  <1>3. Over(f) => Head(f).type \in TurnOver \/ Over(g)
    BY <1>1, <1>2 DEF Over
  <1>4. \A r : Blocked(f, r) => Head(f) = Event("blocked", r) \/ Blocked(g, r)
    BY <1>1, <1>2 DEF Blocked
  <1>5. Over(g) => Over(f)
    <2>1. \A i \in 1..Len(g) : i + 1 \in 1..Len(f)
      BY <1>1
    <2> QED BY <1>1, <2>1 DEF Over
  <1> QED BY <1>3, <1>4, <1>5 DEF g

(* What the client has missed: it would have known of any turn's start.    *)
LEMMA TailTells ==
    ASSUME NEW f, NEW flag \in BOOLEAN, NEW run, Tells(f, flag, run), f # <<>>
    PROVE  \E on \in BOOLEAN : Tells(Tail(f), on, run)
  <1>1. CASE Head(f).type \in TurnOn
    <2>1. Head(f).type \notin TurnOver
      BY <1>1 DEF TurnOn, TurnOver
    <2>2. Tells(Tail(f), TRUE, run)
      BY <1>1, <2>1, Handled
    <2> QED BY <2>2
  <1>2. CASE Head(f).type \in TurnOver
    <2>1. Head(f).type \notin TurnOn
      BY <1>2 DEF TurnOn, TurnOver
    <2>2. Tells(Tail(f), FALSE, run)
      BY <1>2, <2>1, Handled
    <2> QED BY <2>2
  <1>3. CASE Head(f).type \notin TurnOn \cup TurnOver
    <2>1. Tells(Tail(f), flag, run)
      BY <1>3, Handled
    <2> QED BY <2>1
  <1> QED BY <1>1, <1>2, <1>3

(* The events of a subscribed client.                                      *)
LEMMA HandleTurns ==
    ASSUME NEW e \in AnEvent, Handle(e), turnActive \in BOOLEAN, e.type \in TurnOver => turnActive
    PROVE  /\ turnActive' \in BOOLEAN
           /\ e.type \in TurnOn => turnActive'
           /\ e.type \in TurnOver => ~turnActive'
           /\ e.type \notin TurnOn \cup TurnOver => (turnActive' <=> turnActive)
           /\ \/ FinishPrompt
              \/ e.type = "quiet" /\ ~inFlight' /\ UNCHANGED posts
              \/ /\ UNCHANGED <<inFlight, posts>> /\ e.type \notin TurnOver
                 /\ e.type = "blocked" => promptId # e.of
  <1>1. CASE e.type \in {"began", "started"}
    BY <1>1 DEF Handle, TurnOn, TurnOver
  <1>2. CASE e.type \in {"ended", "handed"}
    BY <1>2 DEF Handle, TurnOn, TurnOver
  <1>3. CASE e.type = "quiet"
    BY <1>3 DEF Handle, ClearWorkingFlags, TurnOn, TurnOver
  <1>4. CASE e.type \in {"submitted", "dropped", "blocked"}
    BY <1>4 DEF Handle, Ignore, FinishedHere, turnVars, TurnOn, TurnOver
  <1> QED BY <1>1, <1>2, <1>3, <1>4 DEF Handle

LEMMA ReceiveBacked ==
    ASSUME PlacedInv, BackedInv, Receive
    PROVE  BackedInv'
  <1>1. LineInv /\ HeardInv /\ FlagInv
    BY DEF BackedInv
  <1>2. /\ feed # <<>> /\ feed' = Tail(feed) /\ known
        /\ UNCHANGED <<running, parked, snap, live, known, required>>
    BY DEF Receive, daemonVars, viewVars
  <1>3. LineInv'
    BY <1>1, <1>2 DEF LineInv
  <1>4. \E flag \in BOOLEAN : Tells(feed', flag, running)
    BY <1>1, <1>2, TailTells DEF HeardInv
  <1>5. CASE ~live \/ required
    BY <1>1, <1>2, <1>3, <1>4, <1>5 DEF BackedInv, HeardInv, FlagInv
  <1>6. CASE live /\ ~required
    <2> DEFINE e == Head(feed)
    <2>1. Tells(feed, turnActive, running) /\ feed \in Seq(AnEvent) /\ turnActive \in BOOLEAN
      BY <1>1, <1>6 DEF HeardInv, Tells
    <2>2. e \in AnEvent /\ (e.type \in TurnOver => turnActive)
      BY <1>2, <2>1, Handled
    <2>3. /\ Handle(e)
          /\ missed' = missed \cup {k \in PostIds : live /\ e = Event("blocked", k) /\ promptId # k}
      BY <1>6 DEF Receive
    <2>4. \A on \in BOOLEAN :
             /\ e.type \in TurnOn => on
             /\ e.type \in TurnOver => ~on
             /\ e.type \notin TurnOn \cup TurnOver => (on <=> turnActive)
             => Tells(feed', on, running)
      BY <1>2, <2>1, Handled
    <2>5. /\ Over(feed) => e.type \in TurnOver \/ Over(feed')
          /\ \A r : Blocked(feed, r) => e = Event("blocked", r) \/ Blocked(feed', r)
      BY <1>2, <2>1, HeadGone
    <2> HIDE DEF e
    <2>6. /\ turnActive' \in BOOLEAN
          /\ e.type \in TurnOn => turnActive'
          /\ e.type \in TurnOver => ~turnActive'
          /\ e.type \notin TurnOn \cup TurnOver => (turnActive' <=> turnActive)
          /\ \/ FinishPrompt
             \/ e.type = "quiet" /\ ~inFlight' /\ UNCHANGED posts
             \/ /\ UNCHANGED <<inFlight, posts>> /\ e.type \notin TurnOver
                /\ e.type = "blocked" => promptId # e.of
      BY <2>1, <2>2, <2>3, HandleTurns
    <2>7. Tells(feed', turnActive', running)
      BY <2>4, <2>6
    <2>8. HeardInv'
      BY <1>1, <1>2, <1>4, <2>7 DEF HeardInv
    <2>9. ASSUME UNCHANGED <<inFlight, posts>>, e.type \notin TurnOver,
                 e.type = "blocked" => promptId # e.of, inFlight'
          PROVE  running' # None \/ Over(feed') \/ Raised(posts', feed', missed')
      <3>1. running # None \/ Over(feed) \/ Raised(posts, feed, missed)
        BY <1>1, <1>6, <2>9 DEF FlagInv
      <3>2. ASSUME NEW r \in 1..Len(posts), Raiser(posts, r),
                   Open(posts[r]) \/ Blocked(feed, r) \/ r \in missed
            PROVE  Open(posts[r]) \/ Blocked(feed', r) \/ r \in missed'
        <4>1. CASE e = Event("blocked", r)
          <5>1. promptId # r /\ r \in PostIds
            BY <2>9, <4>1 DEF Event, PostIds
          <5> QED BY <1>6, <2>3, <4>1, <5>1
        <4>2. CASE e # Event("blocked", r)
          BY <2>3, <2>5, <3>2, <4>2
        <4> QED BY <4>1, <4>2
      <3>3. Raised(posts, feed, missed) => Raised(posts, feed', missed')
        BY <3>2 DEF Raised
      <3> QED BY <1>2, <2>5, <2>9, <3>1, <3>3
    <2>10. FinishPrompt => ~inFlight' \/ Raised(posts', feed', missed')
      BY FinishBacked
    <2>11. FlagInv'
      BY <2>6, <2>9, <2>10 DEF FlagInv
    <2> QED BY <1>3, <2>8, <2>11 DEF BackedInv
  <1> QED BY <1>5, <1>6

LEMMA SnapshotBacked ==
    ASSUME PlacedInv, BackedInv, TakeSnapshot \/ ApplySnapshot \/ DiscardSnapshot
    PROVE  BackedInv'
  <1>1. LineInv /\ HeardInv /\ FlagInv
    BY DEF BackedInv
  <1>2. UNCHANGED <<running, parked>>
    BY DEF TakeSnapshot, ApplySnapshot, DiscardSnapshot, daemonVars
  <1>3. LineInv'
    BY <1>1, <1>2 DEF LineInv
  <1>4. CASE TakeSnapshot
    <2>1. /\ known /\ UNCHANGED <<feed, live, known, required, turnActive, inFlight, posts, missed>>
          /\ snap' = [since |-> <<>>, active |-> running # None, generation |-> Len(posts)]
      BY <1>4 DEF TakeSnapshot, viewVars, turnVars, queueVars
    <2>2. Len(posts) \in Nat /\ <<>> \in Seq(AnEvent)
      BY PlacedParts DEF PlacedInv
    <2>3. Tells(<<>>, running # None, running)
      BY TellsNow
    <2>4. /\ snap' \in [since : Seq(AnEvent), active : BOOLEAN, generation : Nat]
          /\ snap'.since = <<>> /\ snap'.active = (running # None)
      BY <2>1, <2>2
    <2>5. HeardInv'
      BY <1>1, <1>2, <2>1, <2>3, <2>4 DEF HeardInv
    <2>6. FlagInv'
      BY <1>1, <1>2, <2>1 DEF FlagInv
    <2> QED BY <1>3, <2>5, <2>6 DEF BackedInv
  <1>5. CASE ApplySnapshot
    <2>1. /\ known /\ snap # NoSnapshot /\ UNCHANGED known /\ snap' = NoSnapshot
          /\ turnActive' = snap.active /\ feed' = snap.since /\ live' = TRUE
          /\ snap.active \/ FinishPrompt
      BY <1>5 DEF ApplySnapshot
    <2>2. Tells(snap.since, snap.active, running) /\ snap.active \in BOOLEAN
      BY <1>1, <2>1 DEF HeardInv
    <2>3. HeardInv'
      BY <1>2, <2>1, <2>2 DEF HeardInv
    <2>4. CASE FinishPrompt
      <3>1. ~inFlight' \/ Raised(posts', feed', missed')
        BY <2>4, FinishBacked
      <3>2. FlagInv'
        BY <3>1 DEF FlagInv
      <3> QED BY <1>3, <2>3, <3>2 DEF BackedInv
    <2>5. CASE snap.active = TRUE
      <3>1. running # None \/ Over(snap.since)
        BY <2>2, <2>5, TellsOver
      <3>2. FlagInv'
        BY <1>2, <2>1, <3>1 DEF FlagInv
      <3> QED BY <1>3, <2>3, <3>2 DEF BackedInv
    <2> QED BY <2>1, <2>2, <2>4, <2>5
  <1>6. CASE DiscardSnapshot
    <2>1. /\ UNCHANGED <<feed, live, known, required, turnActive, inFlight, posts, missed>>
          /\ snap' = NoSnapshot
      BY <1>6 DEF DiscardSnapshot, viewVars, turnVars, queueVars
    <2>2. HeardInv' /\ FlagInv'
      BY <1>1, <1>2, <2>1 DEF HeardInv, FlagInv
    <2> QED BY <1>3, <2>2 DEF BackedInv
  <1> QED BY <1>4, <1>5, <1>6

(* resync_required and what the client misses by it.                       *)
LEMMA ResyncBacked ==
    ASSUME BackedInv, Resync \/ Omit
    PROVE  BackedInv'
  <1>1. LineInv /\ HeardInv
    BY DEF BackedInv
  <1>2. /\ live /\ known /\ required' = TRUE
        /\ UNCHANGED <<running, parked, snap, live, known>>
        /\ feed' = feed \/ (feed # <<>> /\ feed' = Tail(feed))
    BY <1>1 DEF Resync, Omit, daemonVars, feedVars, viewVars, HeardInv
  <1>3. \E flag \in BOOLEAN : Tells(feed', flag, running)
    BY <1>1, <1>2, TailTells DEF HeardInv
  <1> QED BY <1>1, <1>2, <1>3 DEF BackedInv, LineInv, HeardInv, FlagInv

(* A prompt blocked by a hook is left open by its one event.               *)
LEMMA BlockKeeps ==
    ASSUME PlacedInv, BackedInv, NEW k \in PostIds, DaemonBlocks(k)
    PROVE  BackedInv'
  <1>b. LineInv /\ HeardInv /\ FlagInv /\ posts \in Seq(Submission)
    BY DEF BackedInv, PlacedInv, Placed, Shaped
  <1> DEFINE post == [posts[k] EXCEPT !.daemon = "blocked"]
             e == Event("blocked", k)
  <1>0. k \in 1..Len(posts) /\ posts[k] \in Submission /\ Len(posts) \in Nat
    BY <1>b, Posts, LenProperties
  <1>1. k \in 1..Len(posts) /\ post \in Submission /\ post.via = posts[k].via /\ k \in Nat
    BY <1>0 DEF Submission
  <1>2. posts' = [posts EXCEPT ![k] = post]
    BY DEF DaemonBlocks, Decide
  <1> HIDE DEF post
  <1>3. /\ UNCHANGED <<running, parked, live, known, required, turnActive, inFlight, missed>>
        /\ Announce(<<e>>)
    BY DEF DaemonBlocks, Announce, daemonVars, viewVars, turnVars
  <1>4. e \in AnEvent /\ e.type = "blocked"
    BY <1>1, EventTypes DEF AnEventType
  <1>5. Fits(e, running, running')
    BY <1>3, <1>4 DEF Fits, TurnOn, TurnOver
  <1>6. HeardInv'
    <2>1. Says(<<e>>, running, running')
      BY <1>5 DEF Says
    <2> HIDE DEF e
    <2> QED BY <1>b, <1>3, <2>1, AnnounceTells
  <1>7. ASSUME inFlight', live', ~required'
        PROVE  running' # None \/ Over(feed') \/ Raised(posts', feed', missed')
    <2>1. feed \in Seq(AnEvent) /\ known
      BY <1>b, <1>3, <1>7 DEF HeardInv, Tells
    <2>2. feed' = Append(feed, e)
      BY <1>3, <1>4, <2>1, AppendKeeps DEF Announce
    <2>3. /\ Over(feed) => Over(feed')
          /\ \A r : Blocked(feed, r) \/ e = Event("blocked", r) => Blocked(feed', r)
      BY <1>4, <2>1, <2>2, AppendKeeps
    <2>4. Raised(posts, feed, missed) => Raised(posts', feed', missed')
      <3>1. Blocked(feed', k)
        BY <2>3 DEF e
      <3> QED BY <1>b, <1>1, <1>2, <1>3, <2>3, <3>1, RaisedPosts
    <2> QED BY <1>b, <1>3, <1>7, <2>3, <2>4 DEF FlagInv
  <1>8. LineInv' /\ FlagInv'
    BY <1>b, <1>3, <1>7 DEF LineInv, FlagInv
  <1> QED BY <1>6, <1>8 DEF BackedInv

LEMMA LineKeeps ==
    ASSUME PlacedInv, BackedInv, LineStep, UNCHANGED <<live, known, required, turnActive>>
    PROVE  BackedInv'
  <1>1. PICK events : Announcement(events)
    BY LineSays DEF BackedInv
  <1>2. CASE running # None \/ running' # None
    <2>1. HeardInv' /\ FlagInv'
      BY <1>1, <1>2, AnnounceKeeps DEF Announcement, BackedInv
    <2> QED BY <2>1, LineSays DEF BackedInv
  <1> QED BY <1>1, <1>2, BlockKeeps DEF Announcement

LEMMA StopBacked ==
    ASSUME PlacedInv, BackedInv, AskStop \/ ServeStop \/ StopMissed
    PROVE  BackedInv'
  <1>1. LineInv /\ HeardInv /\ FlagInv
    BY DEF BackedInv
  <1>2. UNCHANGED <<live, known, required, turnActive, inFlight, posts>>
    BY DEF AskStop, ServeStop, StopMissed, queueVars, turnVars
  <1>3. CASE UNCHANGED <<daemonVars, feedVars>>
    BY <1>1, <1>2, <1>3 DEF BackedInv, LineInv, HeardInv, FlagInv, daemonVars, feedVars
  <1>4. CASE EndTurn \/ Drop(stop.of)
    BY <1>2, <1>4, LineKeeps DEF LineStep
  <1> QED BY <1>3, <1>4 DEF AskStop, ServeStop, StopMissed

LEMMA BackedInit == Init => BackedInv
  <1> SUFFICES ASSUME Init PROVE BackedInv
    OBVIOUS
  <1>1. /\ running = None /\ parked = <<>> /\ feed = <<>> /\ snap = NoSnapshot
        /\ live = TRUE /\ known = TRUE /\ inFlight = FALSE /\ turnActive = FALSE
    BY DEF Init
  <1>2. <<>> \in Seq(Nat \ {0})
    OBVIOUS
  <1>3. Tells(feed, turnActive, running)
    <2>1. Tells(<<>>, None # None, None)
      BY TellsNow
    <2>2. (None # None) = FALSE
      OBVIOUS
    <2> QED BY <1>1, <2>1, <2>2
  <1> QED BY <1>1, <1>2, <1>3 DEF BackedInv, LineInv, HeardInv, FlagInv, None

LEMMA BackedNext == PlacedInv /\ BackedInv /\ [Next]_vars => BackedInv'
  <1> SUFFICES ASSUME PlacedInv, BackedInv, [Next]_vars PROVE BackedInv'
    OBVIOUS
  <1>0. LineInv /\ HeardInv /\ FlagInv /\ posts \in Seq(Submission)
    BY DEF BackedInv, PlacedInv, Placed, Shaped
  <1>1. ASSUME NEW k \in PostIds, DaemonRefuses(k)
        PROVE  BackedInv'
    <2>1. UNCHANGED <<running, parked, feed, snap, live, known, required, turnActive, missed>>
      BY <1>1 DEF DaemonRefuses, daemonVars, feedVars, viewVars, turnVars
    <2>2. FlagInv'
      BY <1>0, <1>1, <2>1, RefuseRaises, FlagStays
    <2> QED BY <2>1, <2>2, FlagKeeps
  <1>2. ASSUME LineStep, UNCHANGED <<live, known, required, turnActive>>
        PROVE  BackedInv'
    BY <1>2, LineKeeps
  <1>3. CASE \/ Daemon \/ ForeignTurn \/ TurnVanishes
             \/ \E k \in PostIds : DaemonBlocks(k) \/ DropParked(k)
    BY <1>2, <1>3 DEF Daemon, LineStep, DaemonStarts, DaemonParks, DaemonBlocks, DropParked, TurnEnds,
                      ForeignTurn, TurnVanishes, viewVars, turnVars
  <1>4. CASE Answers \/ \E k \in PostIds : AnswerLost(k)
    BY <1>4, AnswersBacked DEF Answers, Answered
  <1>5. CASE Evict \/ ForgetSession
    <2>1. /\ UNCHANGED <<running, parked>> /\ live' = FALSE
          /\ UNCHANGED <<feed, known, snap>> \/ (known' = FALSE /\ snap' = NoSnapshot)
      BY <1>5 DEF Evict, ForgetSession, daemonVars, feedVars
    <2> QED BY <1>0, <2>1 DEF BackedInv, LineInv, HeardInv, FlagInv
  <1>6. CASE UNCHANGED vars
    <2>1. UNCHANGED <<running, parked, snap, feed, live, known, required, turnActive, inFlight, posts,
                      missed>>
      BY <1>6 DEF vars, daemonVars, feedVars, viewVars, turnVars, queueVars
    <2> QED BY <1>0, <2>1 DEF BackedInv, LineInv, HeardInv, FlagInv
  <1> QED BY <1>1, <1>2, <1>3, <1>4, <1>5, <1>6, UserBacked, ReceiveBacked, SnapshotBacked,
             ResyncBacked, StopBacked
      DEF Next

LEMMA BackedFlag == PlacedInv /\ BackedInv => InFlightBacked
  <1> SUFFICES ASSUME PlacedInv, BackedInv, inFlight, live, ~required, ~BlockMissed, running = None
               PROVE  \/ \E k \in PostIds : Waiting(k) /\ posts[k].via # "steer"
                      \/ \E i \in DOMAIN feed : feed[i].type \in Ends
    BY DEF InFlightBacked
  <1>1. feed \in Seq(AnEvent) /\ (Over(feed) \/ Raised(posts, feed, missed))
    BY DEF BackedInv, HeardInv, FlagInv, Tells
  <1>2. DOMAIN feed = 1..Len(feed) /\ PostIds = 1..Len(posts)
    BY <1>1, LenProperties DEF PostIds
  <1>3. CASE Over(feed)
    BY <1>2, <1>3 DEF Over, TurnOver, Ends
  <1>4. CASE Raised(posts, feed, missed)
    <2>1. PICK r \in 1..Len(posts) :
             Raiser(posts, r) /\ (Open(posts[r]) \/ Blocked(feed, r) \/ r \in missed)
      BY <1>4 DEF Raised
    <2>2. CASE Open(posts[r])
      BY <1>2, <2>2 DEF Open, Waiting
    <2>3. CASE Blocked(feed, r)
      BY <1>2, <2>3 DEF Blocked, Event, Ends
    <2>4. CASE r \in missed
      <3>1. Len(posts) \in Nat
        BY PlacedParts DEF PlacedInv
      <3>2. \A later \in PostIds : later > r => later \in (r + 1)..Len(posts)
        BY <1>2, <3>1
      <3>3. BlockMissed
        BY <2>1, <2>4, <3>2 DEF BlockMissed, Raiser
      <3> QED BY <3>3
    <2> QED BY <2>1, <2>2, <2>3, <2>4
  <1> QED BY <1>1, <1>3, <1>4

(* The session never shows "working" with nothing left that could end it:  *)
(* no answer, no turn and no announcement (submitPromptInternal, the       *)
(* branches after a failure, finishPromptLocal, clearWorkingFlags), but    *)
(* for a prompt blocked by a hook whose one event the client could not     *)
(* recognize.                                                              *)
THEOREM WorkingBacked == Spec => []InFlightBacked
  <1>1. Init => PlacedInv /\ BackedInv
    BY PlacedInit, BackedInit
  <1>2. PlacedInv /\ BackedInv /\ [Next]_vars => (PlacedInv /\ BackedInv)'
    BY PlacedNext, BackedNext
  <1>3. Spec => [](PlacedInv /\ BackedInv)
    BY <1>1, <1>2, PTL DEF Spec
  <1> QED BY <1>3, BackedFlag, PTL
----------------------------------------------------------------------------
(* The shape of the state.  Formed says of the daemon's and the client's   *)
(* references to submissions that they name submissions made: ids.         *)

EventOf(ids) == [type : AnEventType, of : {Foreign} \cup ids]

SnapshotOf(ids) == [since : Seq(EventOf(ids)), active : BOOLEAN, generation : Nat]

Formed(ids, run, line, f, sn, prompt) ==
    /\ run \in {None, Foreign} \cup ids /\ prompt \in {None, Foreign} \cup ids
    /\ line \in Seq(ids) /\ f \in Seq(EventOf(ids))
    /\ sn # NoSnapshot => sn \in SnapshotOf(ids)

FormedInv == Formed(PostIds, running, parked, feed, snap, promptId)

SwitchesInv ==
    /\ live \in BOOLEAN /\ known \in BOOLEAN /\ required \in BOOLEAN
    /\ inFlight \in BOOLEAN /\ turnActive \in BOOLEAN
    /\ failures.count \in 0..(FlushBudget - 1)

(* More submissions do no harm.                                            *)
LEMMA FormedWider ==
    ASSUME NEW ids, NEW more, ids \subseteq more,
           NEW run, NEW line, NEW f, NEW sn, NEW prompt, Formed(ids, run, line, f, sn, prompt)
    PROVE  Formed(more, run, line, f, sn, prompt)
  <1>1. EventOf(ids) \subseteq EventOf(more)
    BY DEF EventOf
  <1>2. line \in Seq(more) /\ f \in Seq(EventOf(more))
    BY <1>1, SeqMonotonic DEF Formed
  <1>3. ASSUME sn # NoSnapshot
        PROVE  sn \in SnapshotOf(more)
    <2>1. sn \in SnapshotOf(ids)
      BY <1>3 DEF Formed
    <2>2. Seq(EventOf(ids)) \subseteq Seq(EventOf(more))
      BY <1>1, SeqMonotonic
    <2> QED BY <2>1, <2>2 DEF SnapshotOf
  <1> QED BY <1>2, <1>3 DEF Formed

(* No step takes a submission away.                                        *)
LEMMA AppendGrows ==
    ASSUME NEW S, NEW s \in Seq(S), NEW e
    PROVE  Len(Append(s, e)) = Len(s) + 1 /\ Len(s) \in Nat
  <1>1. s \in Seq(S \cup {e})
    BY SeqMonotonic
  <1> QED BY <1>1, AppendProperties, LenProperties

LEMMA PostsGrow ==
    ASSUME PlacedInv, [Next]_vars
    PROVE  PostIds \subseteq PostIds'
  <1>1. posts \in Seq(Submission) /\ Len(posts) \in Nat
    BY PlacedParts DEF PlacedInv
  <1>2. CASE Len(posts') = Len(posts)
    BY <1>2 DEF PostIds
  <1>3. CASE Len(posts') = Len(posts) + 1
    BY <1>1, <1>3 DEF PostIds
  <1>4. \A k \in PostIds : \A new : Len([posts EXCEPT ![k] = new]) = Len(posts)
    BY <1>1
  <1>5. /\ \A k \in PostIds : \A c : Len(Settle(k, c)) = Len(posts)
        /\ \A k \in PostIds : \A d : Decide(k, d) => Len(posts') = Len(posts)
    BY <1>4 DEF Settle, Decide
  <1>6. \A post : Len(Append(posts, post)) = Len(posts) + 1
    BY <1>1, AppendGrows
  <1>7. ASSUME NEW k \in PostIds
        PROVE  \A post : Len(Append(Settle(k, "rejected"), post)) = Len(posts) + 1
    <2>1. Settle(k, "rejected") \in Seq(Submission)
      BY SettledSeq
    <2> QED BY <1>5, <2>1, AppendGrows
  <1>8. FinishPrompt => Len(posts') = Len(posts) \/ Len(posts') = Len(posts) + 1
    BY <1>6 DEF FinishPrompt, FlushHead
  <1>9. CASE \/ Daemon
             \/ \E k \in PostIds :
                   DaemonRefuses(k) \/ DaemonBlocks(k) \/ DropParked(k) \/ AnswerLost(k)
    <2>1. ASSUME NEW k \in PostIds,
                 DaemonStarts(k) \/ DaemonParks(k) \/ DaemonBlocks(k) \/ DaemonRefuses(k)
          PROVE  Len(posts') = Len(posts)
      BY <1>5, <2>1 DEF DaemonStarts, DaemonParks, DaemonBlocks, DaemonRefuses
    <2>2. ASSUME NEW k \in PostIds, DropParked(k)
          PROVE  Len(posts') = Len(posts)
      BY <2>2 DEF DropParked, queueVars
    <2>3. ASSUME NEW k \in PostIds, AnswerLost(k)
          PROVE  Len(posts') = Len(posts)
      BY <1>5, <2>3 DEF AnswerLost
    <2>4. TurnEnds => Len(posts') = Len(posts)
      BY DEF TurnEnds, queueVars
    <2> QED BY <1>2, <1>9, <2>1, <2>2, <2>3, <2>4 DEF Daemon
  <1>10. CASE Answers
    BY <1>2, <1>3, <1>5, <1>7, <1>10 DEF Answers, AnswerOk, SteerAnswered, RefusedSend, RefusedFlush,
       FlushExhausted, FlushForgotten, FlushHead
  <1>11. CASE User
    BY <1>2, <1>3, <1>6, <1>11 DEF User, Enqueue, EnqueueAndFlush, SendNow, Steer, Unqueue,
       ReorderQueue, FlushHead
  <1>12. CASE Receive
    <2>1. FinishPrompt \/ UNCHANGED posts
      BY <1>12 DEF Receive, Handle, Overhear, ClearWorkingFlags, Ignore
    <2> QED BY <1>2, <1>3, <1>8, <2>1
  <1>13. CASE ApplySnapshot
    <2>1. FinishPrompt \/ UNCHANGED posts
      BY <1>13 DEF ApplySnapshot
    <2> QED BY <1>2, <1>3, <1>8, <2>1
  <1>14. CASE \/ ForeignTurn \/ TurnVanishes \/ AskStop \/ ServeStop \/ StopMissed \/ TakeSnapshot
             \/ DiscardSnapshot \/ Evict \/ Resync \/ Omit \/ ForgetSession \/ UNCHANGED vars
    BY <1>2, <1>14 DEF ForeignTurn, TurnVanishes, AskStop, ServeStop, StopMissed, TakeSnapshot,
       DiscardSnapshot, Evict, Resync, Omit, ForgetSession, vars, queueVars
  <1> QED BY <1>9, <1>10, <1>11, <1>12, <1>13, <1>14 DEF Next

(* Announcements name submissions made.                                    *)
LEMMA AnnounceFormed ==
    ASSUME NEW ids, NEW run, NEW line,
           Formed(ids, run, line, feed, snap, promptId),
           NEW events \in Seq(EventOf(ids)), Announce(events)
    PROVE  feed' \in Seq(EventOf(ids)) /\ (snap' # NoSnapshot => snap' \in SnapshotOf(ids))
  <1>1. feed \in Seq(EventOf(ids)) /\ (snap # NoSnapshot => snap \in SnapshotOf(ids))
    BY DEF Formed
  <1>2. feed' \in Seq(EventOf(ids))
    BY <1>1, ConcatProperties DEF Announce
  <1>3. ASSUME snap' # NoSnapshot
        PROVE  snap' \in SnapshotOf(ids)
    <2>1. snap # NoSnapshot /\ snap' = [snap EXCEPT !.since = @ \o events]
      BY <1>3 DEF Announce
    <2>2. snap \in SnapshotOf(ids) /\ snap.since \in Seq(EventOf(ids))
      BY <1>1, <2>1 DEF SnapshotOf
    <2>3. snap.since \o events \in Seq(EventOf(ids))
      BY <2>2, ConcatProperties
    <2> QED BY <2>1, <2>2, <2>3 DEF SnapshotOf
  <1> QED BY <1>2, <1>3

(* The steps of the daemon, Stop included.                                 *)
LEMMA LineFormed ==
    ASSUME FormedInv, PlacedInv,
           \/ \E k \in PostIds : DaemonStarts(k) \/ DaemonParks(k) \/ DaemonBlocks(k)
           \/ \E k : Drop(k)
           \/ EndTurn \/ ForeignTurn \/ TurnVanishes,
           UNCHANGED promptId
    PROVE  Formed(PostIds, running', parked', feed', snap', promptId')
  <1> DEFINE ids == PostIds
  <1>1. /\ running \in {None, Foreign} \cup ids /\ parked \in Seq(ids)
        /\ promptId' \in {None, Foreign} \cup ids
        /\ Formed(ids, running, parked, feed, snap, promptId)
    BY DEF FormedInv, Formed
  <1> HIDE DEF ids
  <1>2. ASSUME NEW type \in AnEventType, NEW k \in {Foreign} \cup ids
        PROVE  Event(type, k) \in EventOf(ids)
    BY DEF Event, EventOf
  <1>3. ASSUME NEW e \in EventOf(ids), Announce(<<e>>)
        PROVE  feed' \in Seq(EventOf(ids)) /\ (snap' # NoSnapshot => snap' \in SnapshotOf(ids))
    <2>1. <<e>> \in Seq(EventOf(ids))
      OBVIOUS
    <2> QED BY <1>1, <1>3, <2>1, AnnounceFormed
  <1>4. running # None => running \in {Foreign} \cup ids
    BY <1>1
  <1>5. ASSUME NEW k \in PostIds, DaemonStarts(k)
        PROVE  Formed(ids, running', parked', feed', snap', promptId')
    <2>1. Event("began", k) \in EventOf(ids)
      BY <1>2 DEF AnEventType, ids
    <2>2. running' = k /\ parked' = parked /\ Announce(<<Event("began", k)>>)
      BY <1>5 DEF DaemonStarts
    <2> QED BY <1>1, <1>3, <2>1, <2>2 DEF Formed, ids
  <1>6. ASSUME NEW k \in PostIds, DaemonParks(k)
        PROVE  Formed(ids, running', parked', feed', snap', promptId')
    <2>1. Event("submitted", k) \in EventOf(ids)
      BY <1>2 DEF AnEventType, ids
    <2>2. running' = running /\ parked' = Append(parked, k) /\ Announce(<<Event("submitted", k)>>)
      BY <1>6 DEF DaemonParks
    <2>3. parked' \in Seq(ids)
      BY <1>1, <2>2, AppendProperties DEF ids
    <2> QED BY <1>1, <1>3, <2>1, <2>2, <2>3 DEF Formed
  <1>7. ASSUME NEW k, Drop(k)
        PROVE  Formed(ids, running', parked', feed', snap', promptId')
    <2>1. running' = running /\ Unpark(k) /\ Announce(<<Event("dropped", k)>>)
      BY <1>7 DEF Drop
    <2>2. parked' \in Seq(ids) /\ k \in ids
      BY <1>1, <2>1, UnparkKeeps
    <2>3. Event("dropped", k) \in EventOf(ids)
      BY <1>2, <2>2 DEF AnEventType
    <2> QED BY <1>1, <1>3, <2>1, <2>2, <2>3 DEF Formed
  <1>12. ASSUME NEW k \in PostIds, DaemonBlocks(k)
         PROVE  Formed(ids, running', parked', feed', snap', promptId')
    <2>1. Event("blocked", k) \in EventOf(ids)
      BY <1>2 DEF AnEventType, ids
    <2>2. running' = running /\ parked' = parked /\ Announce(<<Event("blocked", k)>>)
      BY <1>12 DEF DaemonBlocks, daemonVars
    <2> QED BY <1>1, <1>3, <2>1, <2>2 DEF Formed
  <1>8. CASE ForeignTurn
    <2>1. Event("began", Foreign) \in EventOf(ids)
      BY <1>2 DEF AnEventType
    <2>2. running' = Foreign /\ parked' = parked /\ Announce(<<Event("began", Foreign)>>)
      BY <1>8 DEF ForeignTurn
    <2>3. Formed(ids, running', parked', feed', snap', promptId')
      BY <1>1, <1>3, <2>1, <2>2 DEF Formed
    <2> QED BY <2>3 DEF ids
  <1>9. CASE \/ TurnVanishes
             \/ /\ running # None /\ running' = None /\ parked' = parked
                /\ Announce(<<Event("ended", running)>>)
    <2>1. PICK type \in {"quiet", "ended"} : Announce(<<Event(type, running)>>)
      BY <1>9 DEF TurnVanishes
    <2>2. running # None /\ running' = None /\ parked' = parked
      BY <1>9 DEF TurnVanishes
    <2>3. Event(type, running) \in EventOf(ids)
      BY <1>2, <1>4, <2>2 DEF AnEventType
    <2>4. Formed(ids, running', parked', feed', snap', promptId')
      BY <1>1, <1>3, <2>1, <2>2, <2>3 DEF Formed
    <2> QED BY <2>4 DEF ids
  <1>10. CASE /\ running # None /\ parked # <<>>
              /\ running' = Head(parked) /\ parked' = Tail(parked)
              /\ Announce(<<Event("handed", running), Event("started", Head(parked))>>)
    <2>1. Head(parked) \in ids /\ Tail(parked) \in Seq(ids)
      BY <1>1, <1>10, HeadTailProperties
    <2> DEFINE e == Event("handed", running)
               d == Event("started", Head(parked))
    <2>2. e \in EventOf(ids) /\ d \in EventOf(ids)
      BY <1>2, <1>4, <1>10, <2>1 DEF AnEventType
    <2> HIDE DEF e, d
    <2>3. <<e, d>> \in Seq(EventOf(ids))
      BY <2>2
    <2>4. Announce(<<e, d>>)
      BY <1>10 DEF e, d
    <2>5. feed' \in Seq(EventOf(ids)) /\ (snap' # NoSnapshot => snap' \in SnapshotOf(ids))
      BY <1>1, <2>3, <2>4, AnnounceFormed
    <2>6. Formed(ids, running', parked', feed', snap', promptId')
      BY <1>1, <1>10, <2>1, <2>5 DEF Formed
    <2> QED BY <2>6 DEF ids
  <1>11. CASE EndTurn
    <2>1. CASE parked = <<>>
      BY <1>9, <1>11, <2>1 DEF EndTurn
    <2>2. CASE parked # <<>>
      BY <1>10, <1>11, <2>2 DEF EndTurn
    <2> QED BY <2>1, <2>2
  <1> QED BY <1>5, <1>6, <1>7, <1>8, <1>9, <1>11, <1>12 DEF ids

LEMMA FormedNext ==
    ASSUME PlacedInv, FormedInv, [Next]_vars
    PROVE  FormedInv'
  <1> DEFINE ids == PostIds
             Goal == Formed(ids, running', parked', feed', snap', promptId')
  <1>1. Formed(ids, running, parked, feed, snap, promptId)
    BY DEF FormedInv
  <1>2. ASSUME UNCHANGED <<running, parked, feed, snap>>,
               promptId' \in {None, Foreign} \cup ids
        PROVE  Goal
    BY <1>1, <1>2 DEF Formed
  <1>3. UNCHANGED promptId => promptId' \in {None, Foreign} \cup ids
    BY <1>1 DEF Formed
  <1>4. ASSUME NEW k \in PostIds,
               DaemonStarts(k) \/ DaemonParks(k) \/ DaemonBlocks(k) \/ DropParked(k)
        PROVE  Goal
    BY <1>4, LineFormed DEF DaemonStarts, DaemonParks, DaemonBlocks, DropParked, turnVars
  <1>5. ASSUME TurnEnds \/ ForeignTurn \/ TurnVanishes
        PROVE  Goal
    BY <1>5, LineFormed DEF TurnEnds, ForeignTurn, TurnVanishes, turnVars
  <1>6. ASSUME ServeStop
        PROVE  Goal
    <2>1. UNCHANGED promptId
      BY <1>6 DEF ServeStop, turnVars
    <2>2. EndTurn \/ (\E k : Drop(k)) \/ UNCHANGED <<running, parked, feed, snap>>
      BY <1>6 DEF ServeStop, daemonVars, feedVars
    <2> QED BY <1>2, <1>3, <2>1, <2>2, LineFormed
  <1>7. ASSUME AskStop \/ StopMissed
        PROVE  Goal
    <2>1. UNCHANGED <<running, parked, feed, snap>> /\ promptId' \in {None, promptId}
      BY <1>7 DEF AskStop, StopMissed, daemonVars, feedVars, turnVars
    <2> QED BY <1>2, <1>3, <2>1
  <1>8. ASSUME User
        PROVE  Goal
    <2>1. UNCHANGED <<running, parked, feed, snap, promptId>>
      BY <1>8 DEF User, Enqueue, EnqueueAndFlush, SendNow, Steer, Unqueue, ReorderQueue,
         daemonVars, feedVars, turnVars
    <2> QED BY <1>2, <1>3, <2>1
  <1>9. ASSUME NEW k \in PostIds, DaemonRefuses(k) \/ AnswerLost(k) \/ AnswerOk(k) \/ RefusedSend(k)
               \/ RefusedFlush(k) \/ FlushExhausted(k) \/ FlushForgotten(k)
        PROVE  Goal
    <2>1. UNCHANGED <<running, parked, feed, snap>> /\ promptId' \in {promptId, k}
      BY <1>9 DEF DaemonRefuses, AnswerLost, AnswerOk, RefusedSend, RefusedFlush, FlushExhausted,
         FlushForgotten, daemonVars, feedVars, turnVars
    <2> QED BY <1>2, <1>3, <2>1
  <1>10. ASSUME NEW k \in PostIds, SteerAnswered(k)
         PROVE  Goal
    <2>1. UNCHANGED <<running, feed, snap, promptId>> /\ (UNCHANGED parked \/ Unpark(k))
      BY <1>10 DEF SteerAnswered, feedVars, turnVars
    <2>2. parked' \in Seq(ids)
      BY <1>1, <2>1, UnparkKeeps DEF Formed
    <2> QED BY <1>1, <2>1, <2>2 DEF Formed
  <1>11. ASSUME Receive
         PROVE  Goal
    <2> DEFINE e == Head(feed)
    <2>1. feed # <<>> /\ feed' = Tail(feed) /\ UNCHANGED <<running, parked, snap>>
      BY <1>11 DEF Receive, daemonVars
    <2>2. feed \in Seq(EventOf(ids))
      BY <1>1 DEF Formed
    <2>3. feed' \in Seq(EventOf(ids)) /\ e \in EventOf(ids)
      BY <2>1, <2>2, HeadTailProperties
    <2> HIDE DEF e
    <2>4. Handle(e) \/ Overhear(e)
      BY <1>11 DEF Receive, e
    <2>5. promptId' \in {None, promptId, e.of}
      BY <2>4 DEF Handle, Overhear, FinishPrompt, ClearWorkingFlags, Ignore, turnVars
    <2>6. e.of \in {Foreign} \cup ids
      BY <2>3 DEF EventOf
    <2> QED BY <1>1, <2>1, <2>3, <2>5, <2>6 DEF Formed
  <1>12. ASSUME TakeSnapshot \/ DiscardSnapshot
         PROVE  Goal
    <2>1. UNCHANGED <<running, parked, feed, promptId>>
      BY <1>12 DEF TakeSnapshot, DiscardSnapshot, daemonVars, turnVars
    <2>2. Len(posts) \in Nat /\ <<>> \in Seq(EventOf(ids))
      BY PlacedParts DEF PlacedInv
    <2>3. [since |-> <<>>, active |-> running # None, generation |-> Len(posts)] \in SnapshotOf(ids)
      BY <2>2 DEF SnapshotOf
    <2>4. snap' # NoSnapshot => snap' \in SnapshotOf(ids)
      BY <1>12, <2>3 DEF TakeSnapshot, DiscardSnapshot
    <2> QED BY <1>1, <2>1, <2>4 DEF Formed
  <1>13. ASSUME ApplySnapshot
         PROVE  Goal
    <2>1. /\ UNCHANGED <<running, parked>> /\ promptId' \in {None, promptId}
          /\ snap # NoSnapshot /\ feed' = snap.since /\ snap' = NoSnapshot
      BY <1>13 DEF ApplySnapshot, FinishPrompt, daemonVars
    <2>2. feed' \in Seq(EventOf(ids))
      BY <1>1, <2>1 DEF Formed, SnapshotOf
    <2> QED BY <1>1, <2>1, <2>2 DEF Formed
  <1>14. ASSUME ForgetSession
         PROVE  Goal
    <2>1. UNCHANGED <<running, parked>> /\ snap' = NoSnapshot /\ feed' = <<>> /\ promptId' = None
      BY <1>14 DEF ForgetSession, daemonVars
    <2> QED BY <1>1, <2>1 DEF Formed
  <1>15. ASSUME Evict \/ Resync \/ UNCHANGED vars
         PROVE  Goal
    <2>1. UNCHANGED <<running, parked, feed, snap, promptId>>
      BY <1>15 DEF Evict, Resync, vars, daemonVars, feedVars, turnVars
    <2> QED BY <1>2, <1>3, <2>1
  <1>18. ASSUME Omit
         PROVE  Goal
    <2>1. feed # <<>> /\ feed' = Tail(feed) /\ UNCHANGED <<running, parked, snap, promptId>>
      BY <1>18 DEF Omit, daemonVars, turnVars
    <2>2. feed' \in Seq(EventOf(ids))
      BY <1>1, <2>1, HeadTailProperties DEF Formed
    <2> QED BY <1>1, <2>1, <2>2 DEF Formed
  <1> HIDE DEF Goal
  <1>16. Goal
    BY <1>4, <1>5, <1>6, <1>7, <1>8, <1>9, <1>10, <1>11, <1>12, <1>13, <1>14, <1>15, <1>18
       DEF Next, Daemon, Answers
  <1>17. Formed(PostIds', running', parked', feed', snap', promptId')
    BY <1>16, PostsGrow, FormedWider DEF Goal
  <1> QED BY <1>17 DEF FormedInv

(* The flags are flags, and a count that reaches the budget is not kept.   *)
LEMMA CountNext ==
    ASSUME failures.count \in 0..(FlushBudget - 1), [Next]_vars
    PROVE  failures'.count \in 0..(FlushBudget - 1)
  <1>1. FlushBudget \in Nat \ {0}
    BY BoundsAssumption
  <1>2. CASE UNCHANGED failures
    BY <1>2
  <1>3. CASE failures' = NoFailures
    BY <1>1, <1>3 DEF NoFailures
  <1>4. ASSUME NEW k \in PostIds, RefusedFlush(k)
        PROVE  failures'.count \in 0..(FlushBudget - 1)
    <2>1. failures'.count = FlushFailures(k) /\ ~(FlushFailures(k) >= FlushBudget)
      BY <1>4 DEF RefusedFlush, Exhausted
    <2>2. FlushFailures(k) \in Nat
      BY DEF FlushFailures
    <2> QED BY <1>1, <2>1, <2>2
  <1>5. ASSUME NEW k \in PostIds,
               \/ AnswerOk(k) \/ SteerAnswered(k) \/ RefusedSend(k) \/ FlushExhausted(k)
               \/ FlushForgotten(k) \/ AnswerLost(k) \/ DaemonRefuses(k) \/ DaemonStarts(k)
               \/ DaemonParks(k) \/ DaemonBlocks(k) \/ DropParked(k)
        PROVE  failures' = NoFailures \/ UNCHANGED failures
    BY <1>5 DEF AnswerOk, SteerAnswered, RefusedSend, FlushExhausted, FlushForgotten, AnswerLost,
       DaemonRefuses, DaemonStarts, DaemonParks, DaemonBlocks, DropParked, queueVars
  <1>6. User => UNCHANGED failures
    BY DEF User, Enqueue, EnqueueAndFlush, SendNow, Steer, Unqueue, ReorderQueue
  <1>7. ASSUME \/ TurnEnds \/ ForeignTurn \/ TurnVanishes \/ AskStop \/ ServeStop \/ StopMissed
               \/ Receive \/ TakeSnapshot \/ ApplySnapshot \/ DiscardSnapshot \/ Evict \/ Resync
               \/ Omit \/ ForgetSession \/ UNCHANGED vars
        PROVE  failures' = NoFailures \/ UNCHANGED failures
    BY <1>7 DEF TurnEnds, ForeignTurn, TurnVanishes, AskStop, ServeStop, StopMissed, Receive,
       TakeSnapshot, ApplySnapshot, DiscardSnapshot, Evict, Resync, Omit, ForgetSession, vars, queueVars
  <1> QED BY <1>2, <1>3, <1>4, <1>5, <1>6, <1>7 DEF Next, Daemon, Answers

LEMMA ViewNext ==
    ASSUME live \in BOOLEAN, known \in BOOLEAN, required \in BOOLEAN, [Next]_vars
    PROVE  live' \in BOOLEAN /\ known' \in BOOLEAN /\ required' \in BOOLEAN
  <1>1. CASE Evict \/ Resync \/ ForgetSession \/ ApplySnapshot
    BY <1>1 DEF Evict, Resync, ForgetSession, ApplySnapshot
  <1>2. ASSUME NEW k \in PostIds,
               \/ AnswerOk(k) \/ SteerAnswered(k) \/ RefusedSend(k) \/ RefusedFlush(k)
               \/ FlushExhausted(k) \/ FlushForgotten(k) \/ AnswerLost(k) \/ DaemonRefuses(k)
               \/ DaemonStarts(k) \/ DaemonParks(k) \/ DaemonBlocks(k) \/ DropParked(k)
        PROVE  UNCHANGED <<live, known, required>>
    BY <1>2 DEF AnswerOk, SteerAnswered, RefusedSend, RefusedFlush, FlushExhausted, FlushForgotten,
       AnswerLost, DaemonRefuses, DaemonStarts, DaemonParks, DaemonBlocks, DropParked, viewVars
  <1>3. User => UNCHANGED <<live, known, required>>
    BY DEF User, Enqueue, EnqueueAndFlush, SendNow, Steer, Unqueue, ReorderQueue, viewVars
  <1>4. ASSUME \/ TurnEnds \/ ForeignTurn \/ TurnVanishes \/ AskStop \/ ServeStop \/ StopMissed
               \/ Receive \/ TakeSnapshot \/ DiscardSnapshot \/ Omit \/ UNCHANGED vars
        PROVE  UNCHANGED <<live, known, required>>
    BY <1>4 DEF TurnEnds, ForeignTurn, TurnVanishes, AskStop, ServeStop, StopMissed, Receive,
       TakeSnapshot, DiscardSnapshot, Omit, vars, viewVars
  <1> QED BY <1>1, <1>2, <1>3, <1>4 DEF Next, Daemon, Answers

LEMMA BusyNext ==
    ASSUME inFlight \in BOOLEAN, turnActive \in BOOLEAN, FormedInv, [Next]_vars
    PROVE  inFlight' \in BOOLEAN /\ turnActive' \in BOOLEAN
  <1>1. FinishPrompt => inFlight' \in BOOLEAN
    BY DEF FinishPrompt
  <1>2. ClearWorkingFlags => inFlight' \in BOOLEAN /\ turnActive' \in BOOLEAN
    BY DEF ClearWorkingFlags
  <1>3. CASE Receive
    <2>1. ASSUME NEW e, Handle(e) \/ Overhear(e)
          PROVE  inFlight' \in BOOLEAN /\ turnActive' \in BOOLEAN
      <3>1. \/ FinishPrompt /\ turnActive' \in {FALSE, turnActive}
            \/ ClearWorkingFlags
            \/ inFlight' = inFlight /\ turnActive' \in {TRUE, turnActive}
        BY <2>1 DEF Handle, Overhear, Ignore, turnVars
      <3> QED BY <1>1, <1>2, <3>1
    <2> QED BY <1>3, <2>1 DEF Receive
  <1>4. CASE ApplySnapshot
    <2>1. /\ snap # NoSnapshot /\ turnActive' = snap.active
          /\ FinishPrompt \/ inFlight' = inFlight
      BY <1>4 DEF ApplySnapshot
    <2>2. snap.active \in BOOLEAN
      BY <2>1 DEF FormedInv, Formed, SnapshotOf
    <2> QED BY <1>1, <2>1, <2>2
  <1>5. ASSUME NEW k \in PostIds,
               \/ AnswerOk(k) \/ SteerAnswered(k) \/ RefusedSend(k) \/ RefusedFlush(k)
               \/ FlushExhausted(k) \/ FlushForgotten(k) \/ AnswerLost(k) \/ DaemonRefuses(k)
               \/ DaemonStarts(k) \/ DaemonParks(k) \/ DaemonBlocks(k) \/ DropParked(k)
        PROVE  inFlight' \in BOOLEAN /\ turnActive' \in BOOLEAN
    <2>1. turnActive' = turnActive
      BY <1>5 DEF AnswerOk, SteerAnswered, RefusedSend, RefusedFlush, FlushExhausted, FlushForgotten,
         AnswerLost, DaemonRefuses, DaemonStarts, DaemonParks, DaemonBlocks, DropParked, turnVars
    <2>2. inFlight' \in {TRUE, FALSE, inFlight, FlagAfterFailure(k)}
      BY <1>5 DEF AnswerOk, SteerAnswered, RefusedSend, RefusedFlush, FlushExhausted, FlushForgotten,
         AnswerLost, DaemonRefuses, DaemonStarts, DaemonParks, DaemonBlocks, DropParked, turnVars
    <2>3. FlagAfterFailure(k) \in BOOLEAN
      BY DEF FlagAfterFailure
    <2> QED BY <2>1, <2>2, <2>3
  <1>6. ASSUME User
        PROVE  inFlight' \in BOOLEAN /\ turnActive' \in BOOLEAN
    <2>1. turnActive' = turnActive /\ inFlight' \in {TRUE, inFlight, inFlight \/ ~Running}
      BY <1>6 DEF User, Enqueue, EnqueueAndFlush, SendNow, Steer, Unqueue, ReorderQueue, turnVars
    <2> QED BY <2>1
  <1>7. ASSUME \/ TurnEnds \/ ForeignTurn \/ TurnVanishes \/ AskStop \/ ServeStop \/ StopMissed
               \/ TakeSnapshot \/ DiscardSnapshot \/ Evict \/ Resync \/ Omit \/ ForgetSession
               \/ UNCHANGED vars
        PROVE  inFlight' \in {FALSE, inFlight} /\ turnActive' \in {FALSE, turnActive}
    BY <1>7 DEF TurnEnds, ForeignTurn, TurnVanishes, AskStop, ServeStop, StopMissed, TakeSnapshot,
       DiscardSnapshot, Evict, Resync, Omit, ForgetSession, vars, turnVars
  <1>8. inFlight' \in {FALSE, inFlight} /\ turnActive' \in {FALSE, turnActive}
           => inFlight' \in BOOLEAN /\ turnActive' \in BOOLEAN
    OBVIOUS
  <1> QED BY <1>3, <1>4, <1>5, <1>6, <1>7, <1>8 DEF Next, Daemon, Answers

TypeInv == PlacedInv /\ FormedInv /\ SwitchesInv

LEMMA TypeInit == Init => TypeInv
  <1> SUFFICES ASSUME Init PROVE TypeInv
    OBVIOUS
  <1>1. PlacedInv
    BY PlacedInit
  <1>2. FormedInv
    <2>1. <<>> \in Seq(PostIds) /\ <<>> \in Seq(EventOf(PostIds))
      OBVIOUS
    <2> QED BY <2>1 DEF Init, FormedInv, Formed
  <1>3. SwitchesInv
    <2>1. NoFailures.count \in 0..(FlushBudget - 1)
      BY BoundsAssumption DEF NoFailures
    <2> QED BY <2>1 DEF Init, SwitchesInv
  <1> QED BY <1>1, <1>2, <1>3 DEF TypeInv

LEMMA TypeNextKept == TypeInv /\ [Next]_vars => TypeInv'
  BY PlacedNext, FormedNext, CountNext, ViewNext, BusyNext DEF TypeInv, SwitchesInv

LEMMA Typed == TypeInv => TypeOK
  <1> SUFFICES ASSUME TypeInv PROVE TypeOK
    OBVIOUS
  <1>1. /\ running \in {None, Foreign} \cup PostIds /\ promptId \in {None, Foreign} \cup PostIds
        /\ parked \in Seq(PostIds) /\ feed \in Seq(EventOf(PostIds))
    BY DEF TypeInv, FormedInv, Formed
  <1>2. \A i \in DOMAIN feed : feed[i].of \in {Foreign} \cup PostIds
    <2> DEFINE all == EventOf(PostIds)
    <2>1. \A i \in DOMAIN feed : feed[i] \in all
      <3>1. DOMAIN feed = 1..Len(feed)
        BY <1>1, LenProperties
      <3> HIDE DEF all
      <3>2. feed \in Seq(all)
        BY <1>1 DEF all
      <3> QED BY <3>1, <3>2, ElementOfSeq
    <2> QED BY <2>1 DEF EventOf
  <1>3. {live, known, required, inFlight, turnActive} \subseteq BOOLEAN
    BY DEF TypeInv, SwitchesInv
  <1>4. queue \in Seq(1..typed) /\ gone \subseteq 1..typed
    <2>1. /\ queue \in Seq(Nat) /\ ToSet(queue) \subseteq 1..typed /\ gone \subseteq 1..typed
      BY Posts DEF TypeInv, PlacedInv, Placed
    <2>2. \A i \in 1..Len(queue) : queue[i] \in 1..typed
      BY <2>1, SeqElements
    <2>3. Len(queue) \in Nat /\ queue \in [1..Len(queue) -> Nat]
      BY <2>1, LenProperties
    <2>4. queue \in [1..Len(queue) -> 1..typed]
      BY <2>2, <2>3
    <2>5. queue \in Seq(1..typed)
      BY <2>3, <2>4, SeqDef
    <2> QED BY <2>1, <2>5
  <1> QED BY <1>1, <1>2, <1>3, <1>4 DEF TypeOK, TypeInv, SwitchesInv

(* Whatever the daemon answers and however the user, Stop and snapshots    *)
(* interleave, references name submissions that were made and the failure  *)
(* count of the queue's head stays below the budget (flushQueueHead).      *)
THEOREM TypesCorrect == Spec => []TypeOK
  <1>1. Spec => []TypeInv
    BY TypeInit, TypeNextKept, PTL DEF Spec
  <1> QED BY <1>1, Typed, PTL

----------------------------------------------------------------------------
(* Drains.  The credit covers every end still in the feed, and one more    *)
(* where the client shows a turn, or a prompt that nothing open stands     *)
(* for, that has ended without the feed saying so: it was missed.  It also *)
(* covers what a snapshot will make the feed, with one to spare for the    *)
(* drain if the snapshot shows no turn and is not overtaken, unless the    *)
(* client will be idle when it gets there.                                 *)

EndsIn(f) == {i \in DOMAIN f : f[i].type \in Ends}
Count(f) == Cardinality(EndsIn(f))

Waits(subs) == Raised(subs, <<>>, {})

(* n is the number of submissions, busy whether the client is.             *)
Credited(sn, f, busy, n, c) ==
    sn.generation = n =>
        /\ c >= Count(sn.since)
        /\ ~sn.active /\ Len(f) >= Len(sn.since) =>
              \/ c >= Count(sn.since) + 1
              \/ ~busy /\ \A i \in 1..(Len(f) - Len(sn.since)) : f[i].type \notin TurnOn

DrainInv ==
    /\ credit \in Nat
    /\ known => credit >= Count(feed)
    /\ known /\ running = None /\ turnActive /\ ~Over(feed) => credit >= Count(feed) + 1
    /\ known /\ running = None /\ inFlight /\ ~Waits(posts) => credit >= 1
    /\ snap # NoSnapshot =>
          /\ snap.generation \in Nat /\ snap.generation <= Len(posts)
          /\ Credited(snap, feed, Running, Len(posts), credit)

LEMMA CountedEnds ==
    ASSUME NEW f \in Seq(AnEvent)
    PROVE  /\ IsFiniteSet(EndsIn(f)) /\ Count(f) \in Nat
           /\ EndsIn(f) = {i \in 1..Len(f) : f[i].type \in Ends}
  <1>1. Len(f) \in Nat /\ DOMAIN f = 1..Len(f)
    BY LenProperties
  <1>2. IsFiniteSet(1..Len(f))
    BY <1>1, FS_Interval
  <1>3. EndsIn(f) \in SUBSET (1..Len(f))
    BY <1>1 DEF EndsIn
  <1>4. IsFiniteSet(EndsIn(f))
    BY <1>2, <1>3, FS_Subset
  <1> QED BY <1>1, <1>4, FS_CardinalityType DEF Count, EndsIn

LEMMA CountConcat ==
    ASSUME NEW f \in Seq(AnEvent), NEW g \in Seq(AnEvent)
    PROVE  Count(f \o g) <= Count(f) + Count(g)
  <1> DEFINE h == f \o g
             S == EndsIn(f)
             T == EndsIn(g)
             U == {Len(f) + i : i \in T}
  <1>1. /\ h \in Seq(AnEvent) /\ Len(h) = Len(f) + Len(g) /\ Len(f) \in Nat /\ Len(g) \in Nat
        /\ \A i \in 1..Len(h) : h[i] = IF i <= Len(f) THEN f[i] ELSE g[i - Len(f)]
    BY ConcatProperties, LenProperties
  <1>2. /\ IsFiniteSet(S) /\ IsFiniteSet(T) /\ Cardinality(S) \in Nat /\ Cardinality(T) \in Nat
        /\ S = {i \in 1..Len(f) : f[i].type \in Ends}
        /\ T = {i \in 1..Len(g) : g[i].type \in Ends}
    BY CountedEnds DEF Count
  <1> HIDE DEF h, S, T
  <1>3. EndsIn(h) \subseteq S \cup U
    <2>1. EndsIn(h) = {i \in 1..Len(h) : h[i].type \in Ends}
      BY <1>1, CountedEnds
    <2>2. ASSUME NEW i \in 1..Len(h), h[i].type \in Ends, i > Len(f)
          PROVE  i \in U
      <3>1. i - Len(f) \in 1..Len(g) /\ ~(i <= Len(f)) /\ i = Len(f) + (i - Len(f))
        BY <1>1, <2>2
      <3>2. i - Len(f) \in T
        BY <1>1, <1>2, <2>2, <3>1
      <3> QED BY <3>1, <3>2
    <2> QED BY <1>1, <1>2, <2>1, <2>2
  <1>4. IsFiniteSet(U) /\ Cardinality(U) <= Cardinality(T)
    <2> DEFINE m == [x \in U |-> x - Len(f)]
    <2>1. \A x \in U : x \in Int /\ x - Len(f) \in T
      BY <1>1, <1>2
    <2> HIDE DEF U
    <2>2. m \in Injection(U, T)
      BY <1>1, <2>1 DEF Injection, IsInjective
    <2> HIDE DEF m
    <2> QED BY <1>2, <2>2, FS_Injection
  <1> HIDE DEF U
  <1>5. IsFiniteSet(S \cup U) /\ Cardinality(S \cup U) <= Cardinality(S) + Cardinality(U)
    <2>1. S \cap U \in SUBSET S
      OBVIOUS
    <2>2. IsFiniteSet(S \cap U)
      BY <1>2, <2>1, FS_Subset
    <2>3. Cardinality(S \cap U) \in Nat /\ Cardinality(U) \in Nat
      BY <1>4, <2>2, FS_CardinalityType
    <2>4. /\ IsFiniteSet(S \cup U)
          /\ Cardinality(S \cup U) = Cardinality(S) + Cardinality(U) - Cardinality(S \cap U)
      BY <1>2, <1>4, FS_Union
    <2> QED BY <1>2, <2>3, <2>4
  <1>6. Cardinality(EndsIn(h)) <= Cardinality(S \cup U)
    BY <1>3, <1>5, FS_Subset
  <1>7. Cardinality(EndsIn(h)) \in Nat /\ Cardinality(U) \in Nat /\ Cardinality(S \cup U) \in Nat
    BY <1>1, <1>4, <1>5, CountedEnds, FS_CardinalityType DEF Count
  <1> QED BY <1>2, <1>4, <1>5, <1>6, <1>7 DEF Count, h, S, T

LEMMA CountTail ==
    ASSUME NEW f \in Seq(AnEvent), f # <<>>
    PROVE  /\ Tail(f) \in Seq(AnEvent) /\ Count(f) >= Count(Tail(f))
           /\ Head(f).type \in Ends => Count(f) >= Count(Tail(f)) + 1
  <1> DEFINE g == Tail(f)
             F == EndsIn(f)
             T == EndsIn(g)
  <1>1. /\ g \in Seq(AnEvent) /\ Len(g) \in Nat /\ Len(f) = Len(g) + 1 /\ Head(f) = f[1]
        /\ \A i \in 1..Len(g) : g[i] = f[i + 1]
    BY HeadTailProperties, EmptySeq
  <1> HIDE DEF g
  <1>2. /\ IsFiniteSet(F) /\ IsFiniteSet(T) /\ Cardinality(F) \in Nat /\ Cardinality(T) \in Nat
        /\ F = {i \in 1..Len(f) : f[i].type \in Ends}
        /\ T = {i \in 1..Len(g) : g[i].type \in Ends}
    BY <1>1, CountedEnds DEF Count
  <1> HIDE DEF F, T
  <1>3. IsFiniteSet(F \ {1}) /\ Cardinality(F \ {1}) = (IF 1 \in F THEN Cardinality(F) - 1 ELSE Cardinality(F))
    <2>1. CASE 1 \in F
      BY <1>2, <2>1, FS_RemoveElement
    <2>2. CASE 1 \notin F
      <3>1. F \ {1} = F
        BY <2>2
      <3> QED BY <1>2, <2>2, <3>1
    <2> QED BY <2>1, <2>2
  <1>4. Cardinality(T) <= Cardinality(F \ {1})
    <2> DEFINE m == [i \in T |-> i + 1]
    <2>1. \A i \in T : i \in Nat /\ i > 0 /\ i + 1 \in F \ {1}
      BY <1>1, <1>2
    <2>2. m \in Injection(T, F \ {1})
      BY <2>1 DEF Injection, IsInjective
    <2> HIDE DEF m
    <2> QED BY <1>3, <2>2, FS_Injection
  <1>5. Head(f).type \in Ends => 1 \in F
    BY <1>1, <1>2
  <1> QED BY <1>1, <1>2, <1>3, <1>4, <1>5 DEF Count, g, F, T

LEMMA CountOne ==
    ASSUME NEW f \in Seq(AnEvent), NEW i \in 1..Len(f), f[i].type \in Ends
    PROVE  Count(f) >= 1
  <1>1. /\ IsFiniteSet(EndsIn(f)) /\ Count(f) \in Nat /\ EndsIn(f) # {}
    BY CountedEnds
  <1>2. Cardinality(EndsIn(f)) # 0
    BY <1>1, FS_EmptySet
  <1> QED BY <1>1, <1>2 DEF Count

LEMMA CountOver ==
    ASSUME NEW f \in Seq(AnEvent), Over(f)
    PROVE  Count(f) >= 1
  BY CountOne DEF Over, TurnOver, Ends

LEMMA OverConcat ==
    ASSUME NEW f \in Seq(AnEvent), NEW g \in Seq(AnEvent), Over(f)
    PROVE  Over(f \o g)
  <1>1. /\ Len(f \o g) = Len(f) + Len(g) /\ Len(f) \in Nat /\ Len(g) \in Nat
        /\ \A i \in 1..Len(f) : i \in 1..Len(f \o g) /\ (f \o g)[i] = f[i]
    BY ConcatProperties, LenProperties
  <1> QED BY <1>1 DEF Over

LEMMA CountNone == Count(<<>>) = 0
  <1>1. EndsIn(<<>>) = {}
    BY DEF EndsIn
  <1> QED BY <1>1, FS_EmptySet DEF Count

LEMMA SaidSeq ==
    ASSUME NEW events, NEW run, NEW next, Says(events, run, next)
    PROVE  events \in Seq(AnEvent)
  <1>1. ASSUME NEW e \in AnEvent
        PROVE  <<e>> \in Seq(AnEvent)
    OBVIOUS
  <1>2. ASSUME NEW e \in AnEvent, NEW d \in AnEvent
        PROVE  <<e, d>> \in Seq(AnEvent)
    OBVIOUS
  <1> HIDE DEF AnEvent
  <1> QED BY <1>1, <1>2 DEF Says, Fits

(* A step that announces: the credit grows with the feed.                  *)
LEMMA AnnounceDrains ==
    ASSUME PlacedInv, BackedInv, DrainInv,
           NEW events, Says(events, running, running'), Announce(events),
           UNCHANGED <<live, known, required, inFlight, turnActive>>, Len(posts') = Len(posts),
           running = None /\ running' = None => UNCHANGED posts \/ Count(events) >= 1
    PROVE  DrainInv'
  <1>1. /\ events \in Seq(AnEvent) /\ Count(events) \in Nat /\ credit \in Nat
        /\ credit' = credit + Count(events)
    BY SaidSeq, CountedEnds DEF DrainInv, Announce, Count, EndsIn
  <1>2. ASSUME known
        PROVE  /\ feed \in Seq(AnEvent) /\ feed' = feed \o events /\ feed' \in Seq(AnEvent)
               /\ Count(feed) \in Nat /\ Count(feed') \in Nat
               /\ Count(feed') <= Count(feed) + Count(events)
               /\ credit >= Count(feed)
               /\ running # None /\ running' = None => Over(feed')
    <2>1. feed \in Seq(AnEvent) /\ feed' = feed \o events /\ credit >= Count(feed)
      BY <1>2 DEF BackedInv, HeardInv, Tells, Announce, DrainInv
    <2>2. feed' \in Seq(AnEvent)
      BY <1>1, <2>1, ConcatProperties
    <2>3. running # None /\ running' = None => Over(feed')
      BY <1>2, AnnounceTells DEF BackedInv
    <2> QED BY <1>1, <2>1, <2>2, <2>3, CountConcat, CountedEnds
  <1>3. ASSUME known', running' = None, turnActive', ~Over(feed')
        PROVE  credit' >= Count(feed') + 1
    <2>1. known /\ turnActive /\ running = None
      BY <1>2, <1>3
    <2>2. ~Over(feed)
      BY <1>1, <1>2, <1>3, <2>1, OverConcat
    <2>3. credit >= Count(feed) + 1
      BY <2>1, <2>2 DEF DrainInv
    <2> QED BY <1>1, <1>2, <2>1, <2>3
  <1>4. ASSUME known', running' = None, inFlight', ~Waits(posts')
        PROVE  credit' >= 1
    <2>1. CASE running # None
      <3>1. Over(feed') /\ Count(feed') >= 1
        BY <1>2, <1>4, <2>1, CountOver
      <3> QED BY <1>1, <1>2, <1>4, <3>1
    <2>2. CASE running = None /\ UNCHANGED posts
      <3>1. credit >= 1
        BY <1>4, <2>2 DEF DrainInv
      <3> QED BY <1>1, <3>1
    <2>3. CASE Count(events) >= 1
      BY <1>1, <2>3
    <2> QED BY <1>4, <2>1, <2>2, <2>3
  <1>5. ASSUME snap' # NoSnapshot
        PROVE  /\ snap'.generation \in Nat /\ snap'.generation <= Len(posts)
               /\ Credited(snap', feed', Running, Len(posts), credit')
    <2>1. snap # NoSnapshot /\ snap' = [snap EXCEPT !.since = @ \o events]
      BY <1>5 DEF Announce
    <2>2. snap \in [since : Seq(AnEvent), active : BOOLEAN, generation : Nat] /\ known
      BY <2>1 DEF BackedInv, HeardInv
    <2>3. /\ snap'.since = snap.since \o events /\ snap'.active = snap.active
          /\ snap'.generation = snap.generation /\ snap.generation \in Nat
          /\ snap.since \in Seq(AnEvent)
      BY <2>1, <2>2
    <2> DEFINE s == snap.since
               r == s \o events
    <2>4. /\ Credited(snap, feed, Running, Len(posts), credit) /\ snap.generation <= Len(posts)
          /\ snap'.since = r /\ s \in Seq(AnEvent)
      BY <2>1, <2>3 DEF DrainInv
    <2> HIDE DEF s
    <2>5. /\ Count(s) \in Nat /\ Count(r) \in Nat /\ Count(r) <= Count(s) + Count(events)
          /\ Len(r) = Len(s) + Len(events) /\ Len(s) \in Nat /\ Len(events) \in Nat
      <3>1. r \in Seq(AnEvent) /\ Len(r) = Len(s) + Len(events)
        BY <1>1, <2>4, ConcatProperties
      <3>2. Count(r) <= Count(s) + Count(events)
        BY <1>1, <2>4, CountConcat
      <3> QED BY <1>1, <2>4, <3>1, <3>2, CountedEnds, LenProperties
    <2>6. /\ Len(feed) \in Nat /\ Len(feed') = Len(feed) + Len(events)
          /\ \A i \in 1..Len(feed) : feed'[i] = feed[i]
      BY <1>1, <1>2, <2>2, ConcatProperties, LenProperties
    <2> HIDE DEF r
    <2>7. ASSUME snap.generation = Len(posts)
          PROVE  credit' >= Count(r)
      <3>1. credit >= Count(s)
        BY <2>4, <2>7 DEF Credited, s
      <3> QED BY <1>1, <2>5, <3>1
    <2>8. ASSUME snap.generation = Len(posts), ~snap.active, Len(feed') >= Len(r)
          PROVE  \/ credit' >= Count(r) + 1
                 \/ ~Running /\ \A i \in 1..(Len(feed') - Len(r)) : feed'[i].type \notin TurnOn
      <3>1. Len(feed) >= Len(s) /\ Len(feed') - Len(r) = Len(feed) - Len(s)
        BY <2>5, <2>6, <2>8
      <3>2. \/ credit >= Count(s) + 1
            \/ ~Running /\ \A i \in 1..(Len(feed) - Len(s)) : feed[i].type \notin TurnOn
        BY <2>4, <2>8, <3>1 DEF Credited, s
      <3>3. \A i \in 1..(Len(feed) - Len(s)) : i \in 1..Len(feed)
        BY <2>5, <2>6
      <3>4. CASE credit >= Count(s) + 1
        BY <1>1, <2>5, <3>4
      <3>5. CASE ~Running /\ \A i \in 1..(Len(feed) - Len(s)) : feed[i].type \notin TurnOn
        BY <2>6, <3>1, <3>3, <3>5
      <3> QED BY <3>2, <3>4, <3>5
    <2>9. Credited(snap', feed', Running, Len(posts), credit')
      BY <2>3, <2>4, <2>7, <2>8 DEF Credited
    <2> QED BY <2>3, <2>4, <2>9
  <1>6. Running' = Running
    BY DEF Running
  <1> QED BY <1>1, <1>2, <1>3, <1>4, <1>5, <1>6 DEF DrainInv

(* A step that leaves the feed, the snapshot and the credit alone.         *)
LEMMA StillDrains ==
    ASSUME PlacedInv, PlacedInv', DrainInv, PostIds \subseteq PostIds',
           UNCHANGED <<running, known, credit, feed, snap, turnActive>>, Keeps(<<>>, {}),
           (inFlight' => inFlight) \/ Len(posts') # Len(posts)
    PROVE  DrainInv'
  <1>1. Len(posts) \in Nat /\ Len(posts') \in Nat
    <2>1. posts \in Seq(Submission) /\ posts' \in Seq(Submission)
      BY DEF PlacedInv, Placed, Shaped
    <2> QED BY <2>1, LenProperties
  <1>2. Len(posts) <= Len(posts')
    <2>1. Len(posts) = 0 \/ Len(posts) \in 1..Len(posts')
      BY <1>1 DEF PostIds
    <2> QED BY <1>1, <2>1
  <1>3. ASSUME snap # NoSnapshot
        PROVE  /\ snap.generation \in Nat /\ snap.generation <= Len(posts')
               /\ Credited(snap, feed, Running', Len(posts'), credit)
    <2>1. /\ snap.generation \in Nat /\ snap.generation <= Len(posts)
          /\ Credited(snap, feed, Running, Len(posts), credit)
      BY <1>3 DEF DrainInv
    <2>2. snap.generation = Len(posts') => Len(posts') = Len(posts)
      BY <1>1, <1>2, <2>1
    <2>3. snap.generation = Len(posts') => (Running' => Running)
      BY <2>2 DEF Running
    <2> QED BY <1>1, <1>2, <2>1, <2>2, <2>3 DEF Credited
  <1>4. ASSUME known', running' = None, inFlight', ~Waits(posts')
        PROVE  credit' >= 1
    <2>1. inFlight /\ ~Waits(posts)
      BY <1>4 DEF Keeps, Waits
    <2> QED BY <1>4, <2>1 DEF DrainInv
  <1>5. /\ credit' \in Nat /\ (known' => credit' >= Count(feed'))
        /\ known' /\ running' = None /\ turnActive' /\ ~Over(feed') => credit' >= Count(feed') + 1
    BY DEF DrainInv
  <1> QED BY <1>3, <1>4, <1>5 DEF DrainInv

(* Only a new submission makes the client busy, but for a turn's start.    *)
LEMMA ClientDrains ==
    ASSUME PlacedInv, PlacedInv', DrainInv, PostIds \subseteq PostIds',
           \/ User
           \/ \E k \in PostIds : Answered(k) \/ DaemonRefuses(k)
           \/ AskStop \/ StopMissed \/ Evict \/ Resync \/ UNCHANGED vars
    PROVE  DrainInv'
  <1>1. posts \in Seq(Submission) /\ Len(posts) \in Nat
    BY PlacedParts DEF PlacedInv
  <1>2. \A post : Len(Append(posts, post)) # Len(posts)
    BY <1>1, AppendGrows
  <1>3. ASSUME User
        PROVE  DrainInv'
    <2>1. UNCHANGED <<running, known, credit, feed, snap, turnActive>>
      BY <1>3 DEF User, Enqueue, EnqueueAndFlush, SendNow, Steer, Unqueue, ReorderQueue, feedVars,
         viewVars, turnVars, daemonVars
    <2>2. inFlight' = inFlight \/ Len(posts') # Len(posts)
      BY <1>2, <1>3 DEF User, Enqueue, EnqueueAndFlush, SendNow, Steer, Unqueue, ReorderQueue,
         FlushHead, turnVars
    <2> QED BY <1>3, <2>1, <2>2, UserRaises, StillDrains
  <1>4. ASSUME NEW k \in PostIds, Answered(k)
        PROVE  DrainInv'
    <2>1. UNCHANGED <<running, known, credit, feed, snap, turnActive>>
      BY <1>4 DEF Answered, AnswerOk, SteerAnswered, AnswerLost, RefusedSend, RefusedFlush,
         FlushExhausted, FlushForgotten, daemonVars, feedVars, viewVars, turnVars
    <2>2. ASSUME FlushExhausted(k)
          PROVE  (inFlight' => inFlight) \/ Len(posts') # Len(posts)
      <3>1. Settle(k, "rejected") \in Seq(Submission)
        BY SettledSeq
      <3>2. Len(Settle(k, "rejected")) = Len(posts)
        BY <1>1 DEF Settle
      <3>3. \A post : Len(Append(Settle(k, "rejected"), post)) # Len(posts)
        BY <1>1, <3>1, <3>2, AppendGrows
      <3> QED BY <2>2, <3>3 DEF FlushExhausted, FlushHead
    <2>3. ASSUME ~FlushExhausted(k)
          PROVE  inFlight' => inFlight
      BY <1>4, <2>3 DEF Answered, AnswerOk, SteerAnswered, AnswerLost, RefusedSend, RefusedFlush,
         FlushForgotten, FlagAfterFailure, turnVars
    <2> QED BY <1>4, <2>1, <2>2, <2>3, AnswersRaise, StillDrains
  <1>5. ASSUME NEW k \in PostIds, DaemonRefuses(k)
        PROVE  DrainInv'
    <2>1. UNCHANGED <<running, known, credit, feed, snap, turnActive, inFlight>>
      BY <1>5 DEF DaemonRefuses, daemonVars, feedVars, viewVars, turnVars
    <2> QED BY <1>5, <2>1, RefuseRaises, StillDrains
  <1>6. ASSUME AskStop \/ StopMissed \/ Evict \/ Resync \/ UNCHANGED vars
        PROVE  DrainInv'
    <2>1. UNCHANGED <<running, known, credit, feed, snap, turnActive, inFlight, posts>>
      BY <1>6 DEF AskStop, StopMissed, Evict, Resync, vars, daemonVars, feedVars, viewVars, queueVars,
         turnVars
    <2>2. Keeps(<<>>, {})
      BY <2>1 DEF Keeps
    <2> QED BY <2>1, <2>2, StillDrains
  <1> QED BY <1>3, <1>4, <1>5, <1>6

(* The daemon's steps.                                                     *)
LEMMA LineDrains ==
    ASSUME PlacedInv, BackedInv, DrainInv, LineStep,
           UNCHANGED <<live, known, required, inFlight, turnActive>>, Len(posts') = Len(posts)
    PROVE  DrainInv'
  <1>1. PICK events : Announcement(events)
    BY LineSays DEF BackedInv
  <1>2. ASSUME NEW k \in PostIds, events = <<Event("blocked", k)>>
        PROVE  Count(events) >= 1
    <2>1. events \in Seq(AnEvent)
      BY <1>1, SaidSeq DEF Announcement
    <2>2. 1 \in 1..Len(events) /\ events[1].type \in Ends
      BY <1>2 DEF Event, Ends
    <2> QED BY <2>1, <2>2, CountOne
  <1>3. running = None /\ running' = None => Count(events) >= 1
    BY <1>1, <1>2 DEF Announcement
  <1> QED BY <1>1, <1>3, AnnounceDrains DEF Announcement

LEMMA DaemonDrains ==
    ASSUME PlacedInv, BackedInv, DrainInv,
           \/ \E k \in PostIds : \/ DaemonStarts(k) \/ DaemonParks(k) \/ DaemonBlocks(k)
                                 \/ DropParked(k)
           \/ TurnEnds \/ ForeignTurn \/ TurnVanishes \/ ServeStop
    PROVE  DrainInv'
  <1>1. UNCHANGED <<live, known, required, inFlight, turnActive>>
    BY DEF DaemonStarts, DaemonParks, DaemonBlocks, DropParked, TurnEnds, ForeignTurn,
       TurnVanishes, ServeStop, viewVars, turnVars
  <1>2. Len(posts') = Len(posts)
    <2>1. ASSUME NEW k \in PostIds, DaemonStarts(k) \/ DaemonParks(k) \/ DaemonBlocks(k)
          PROVE  Len(posts') = Len(posts)
      <3>1. posts \in Seq(Submission)
        BY PlacedParts DEF PlacedInv
      <3> QED BY <2>1, <3>1 DEF DaemonStarts, DaemonParks, DaemonBlocks, Decide
    <2>2. ASSUME NEW k \in PostIds, DropParked(k)
          PROVE  posts' = posts
      BY <2>2 DEF DropParked, queueVars
    <2>3. TurnEnds \/ ForeignTurn \/ TurnVanishes \/ ServeStop => posts' = posts
      BY DEF TurnEnds, ForeignTurn, TurnVanishes, ServeStop, queueVars
    <2> QED BY <2>1, <2>2, <2>3
  <1>3. CASE LineStep
    BY <1>1, <1>2, <1>3, LineDrains
  <1>4. CASE ServeStop /\ UNCHANGED <<running, feed, snap, credit>>
    <2>1. UNCHANGED posts
      BY <1>4 DEF ServeStop, queueVars
    <2> QED BY <1>1, <1>4, <2>1 DEF DrainInv, Running
  <1> QED BY <1>3, <1>4 DEF LineStep, DropParked, TurnEnds, ServeStop, daemonVars, feedVars

(* finishPromptLocal: a drain makes a submission.                          *)
LEMMA FinishDrains ==
    ASSUME PlacedInv, FinishPrompt
    PROVE  \/ Drains = 0 /\ posts' = posts /\ ~inFlight'
           \/ Drains = 1 /\ Running /\ Len(posts') = Len(posts) + 1 /\ Waits(posts')
  <1>1. queue \in Seq(Nat) /\ posts \in Seq(Submission) /\ Len(posts) \in Nat
    BY PlacedParts DEF PlacedInv
  <1>2. CASE posts' = posts
    <2>1. ~inFlight' \/ (queue # <<>> /\ FlushHead(queue, posts))
      BY DEF FinishPrompt
    <2>2. \A post : Append(posts, post) # posts
      BY <1>1, AppendGrows
    <2> QED BY <1>1, <1>2, <2>1, <2>2 DEF FlushHead, Drains
  <1>3. CASE posts' # posts
    <2>1. MayDrain /\ queue # <<>> /\ FlushHead(queue, posts)
      BY <1>3 DEF FinishPrompt
    <2>2. Waits(posts')
      BY <1>1, <2>1, FlushOpen DEF Waits
    <2>3. Len(posts') = Len(posts) + 1
      BY <1>1, <2>1, AppendGrows DEF FlushHead
    <2> QED BY <1>1, <2>1, <2>2, <2>3 DEF MayDrain, Drains
  <1> QED BY <1>2, <1>3

(* The head of the feed is handled, or missed.                             *)
LEMMA HeadDrains ==
    ASSUME PlacedInv, BackedInv, DrainInv, known, feed # <<>>, feed' = Tail(feed),
           UNCHANGED <<running, known, snap>>,
           turnActive' => turnActive \/ Head(feed).type \in TurnOn,
           \/ credit' = credit /\ posts' = posts /\ (inFlight' => inFlight)
           \/ /\ credit' = credit - 1 /\ Len(posts') = Len(posts) + 1 /\ Waits(posts')
              /\ Head(feed).type \in Ends
              /\ Head(feed).type \in TurnOver => ~turnActive'
    PROVE  DrainInv'
  <1> DEFINE e == Head(feed)
  <1>1. /\ Len(posts) \in Nat /\ credit \in Nat /\ credit >= Count(feed)
        /\ \E flag \in BOOLEAN : Tells(feed, flag, running)
    BY PlacedParts DEF DrainInv, PlacedInv, BackedInv, HeardInv
  <1>2. /\ feed \in Seq(AnEvent) /\ feed' \in Seq(AnEvent)
        /\ Count(feed) \in Nat /\ Count(feed') \in Nat /\ Count(feed) >= Count(feed')
        /\ e.type \in Ends => Count(feed) >= Count(feed') + 1
        /\ Over(feed) => e.type \in TurnOver \/ Over(feed')
    <2>1. feed \in Seq(AnEvent)
      BY <1>1 DEF Tells
    <2> QED BY <2>1, CountTail, CountedEnds, HeadGone
  <1>3. /\ e.type \in TurnOver => e.type \in Ends
        /\ e.type \in Ends => e.type \notin TurnOn
    BY DEF TurnOver, TurnOn, Ends
  <1>4. /\ turnActive' => turnActive \/ e.type \in TurnOn
        /\ \/ credit' = credit /\ posts' = posts /\ (inFlight' => inFlight)
           \/ /\ credit' = credit - 1 /\ Len(posts') = Len(posts) + 1 /\ Waits(posts')
              /\ e.type \in Ends /\ (e.type \in TurnOver => ~turnActive')
    OBVIOUS
  <1>5. /\ Len(feed) \in Nat /\ Len(feed') \in Nat /\ Len(feed) = Len(feed') + 1 /\ e = feed[1]
        /\ \A i \in 1..Len(feed') : feed'[i] = feed[i + 1]
    BY <1>2, HeadTailProperties, EmptySeq
  <1> HIDE DEF e
  <1>6. credit' \in Nat /\ credit' >= Count(feed')
    BY <1>1, <1>2, <1>4
  <1>7. ASSUME running = None, turnActive', ~Over(feed')
        PROVE  credit' >= Count(feed') + 1
    <2>1. CASE e.type \in TurnOver
      BY <1>1, <1>2, <1>3, <1>4, <1>7, <2>1
    <2>2. CASE e.type \notin TurnOver
      <3>1. ~Over(feed)
        BY <1>2, <1>7, <2>2
      <3>2. e.type \notin TurnOn
        <4>1. ASSUME e.type \in TurnOn
              PROVE  Over(feed)
          <5>1. 1 \in 1..Len(feed)
            BY <1>5
          <5> QED BY <1>1, <1>5, <1>7, <4>1, <5>1, TellsOver
        <4> QED BY <3>1, <4>1
      <3>3. credit >= Count(feed) + 1
        BY <1>4, <1>7, <3>1, <3>2 DEF DrainInv
      <3> QED BY <1>1, <1>2, <1>4, <3>3
    <2> QED BY <2>1, <2>2
  <1>8. ASSUME running = None, inFlight', ~Waits(posts')
        PROVE  credit' >= 1
    BY <1>4, <1>8 DEF DrainInv
  <1>9. ASSUME snap # NoSnapshot
        PROVE  /\ snap.generation \in Nat /\ snap.generation <= Len(posts')
               /\ Credited(snap, feed', Running', Len(posts'), credit')
    <2> DEFINE s == snap.since
    <2>1. /\ snap.generation \in Nat /\ snap.generation <= Len(posts) /\ s \in Seq(AnEvent)
          /\ Credited(snap, feed, Running, Len(posts), credit)
      BY <1>9 DEF DrainInv, BackedInv, HeardInv
    <2>2. Len(s) \in Nat
      BY <2>1, LenProperties
    <2>3. CASE Len(posts') = Len(posts) + 1
      BY <1>1, <2>1, <2>3 DEF Credited
    <2>4. CASE credit' = credit /\ posts' = posts /\ (inFlight' => inFlight)
      <3>1. ASSUME snap.generation = Len(posts)
            PROVE  credit >= Count(s)
        BY <2>1, <3>1 DEF Credited
      <3>2. ASSUME snap.generation = Len(posts), ~snap.active, Len(feed') >= Len(s)
            PROVE  \/ credit >= Count(s) + 1
                   \/ ~Running' /\ \A i \in 1..(Len(feed') - Len(s)) : feed'[i].type \notin TurnOn
        <4>1. Len(feed) >= Len(s) /\ 1 \in 1..(Len(feed) - Len(s))
          BY <1>5, <2>2, <3>2
        <4>2. \/ credit >= Count(s) + 1
              \/ ~Running /\ \A i \in 1..(Len(feed) - Len(s)) : feed[i].type \notin TurnOn
          BY <2>1, <3>2, <4>1 DEF Credited
        <4>3. ASSUME ~Running, \A i \in 1..(Len(feed) - Len(s)) : feed[i].type \notin TurnOn
              PROVE  ~Running' /\ \A i \in 1..(Len(feed') - Len(s)) : feed'[i].type \notin TurnOn
          <5>1. e.type \notin TurnOn
            BY <1>5, <4>1, <4>3
          <5>2. ~Running'
            BY <1>4, <2>4, <4>3, <5>1 DEF Running
          <5>3. \A i \in 1..(Len(feed') - Len(s)) :
                   i \in 1..Len(feed') /\ i + 1 \in 1..(Len(feed) - Len(s))
            BY <1>5, <2>2
          <5> QED BY <1>5, <4>3, <5>2, <5>3
        <4> QED BY <4>2, <4>3
      <3>3. Credited(snap, feed', Running', Len(posts'), credit')
        BY <2>4, <3>1, <3>2 DEF Credited
      <3> QED BY <2>1, <2>4, <3>3
    <2> QED BY <1>4, <2>3, <2>4
  <1> QED BY <1>6, <1>7, <1>8, <1>9 DEF DrainInv

LEMMA ReceiveDrains ==
    ASSUME PlacedInv, BackedInv, DrainInv, Receive
    PROVE  DrainInv'
  <1> DEFINE e == Head(feed)
  <1>1. /\ known /\ feed # <<>> /\ feed' = Tail(feed) /\ UNCHANGED <<running, known, snap>>
        /\ Handle(e) \/ Overhear(e)
        /\ credit' = credit - Drains /\ credit \in Nat /\ Len(posts) \in Nat
    BY PlacedParts DEF Receive, viewVars, daemonVars, DrainInv, PlacedInv
  <1> HIDE DEF e
  <1>2. turnActive' => turnActive \/ e.type \in TurnOn
    BY <1>1 DEF Handle, Overhear, ClearWorkingFlags, Ignore, turnVars, TurnOn
  <1>3. \/ posts' = posts /\ (inFlight' => inFlight)
        \/ FinishPrompt /\ e.type \in Ends /\ (e.type \in TurnOver => ~turnActive')
    BY <1>1 DEF Handle, Overhear, ClearWorkingFlags, Ignore, turnVars, Ends, TurnOver
  <1>4. posts' = posts => credit' = credit
    BY <1>1 DEF Drains
  <1>5. \/ credit' = credit /\ posts' = posts /\ (inFlight' => inFlight)
        \/ /\ credit' = credit - 1 /\ Len(posts') = Len(posts) + 1 /\ Waits(posts')
           /\ e.type \in Ends /\ (e.type \in TurnOver => ~turnActive')
    BY <1>1, <1>3, <1>4, FinishDrains
  <1> QED BY <1>1, <1>2, <1>5, HeadDrains DEF e

LEMMA OmitDrains ==
    ASSUME PlacedInv, BackedInv, DrainInv, Omit
    PROVE  DrainInv'
  <1>1. /\ known /\ feed # <<>> /\ feed' = Tail(feed)
        /\ UNCHANGED <<running, known, snap, credit, posts, inFlight, turnActive>>
    BY DEF Omit, daemonVars, viewVars, queueVars, turnVars, BackedInv, HeardInv
  <1> QED BY <1>1, HeadDrains

(* A snapshot takes the place of the feed.                                 *)
LEMMA SnapshotDrains ==
    ASSUME PlacedInv, BackedInv, DrainInv, TakeSnapshot \/ ApplySnapshot \/ DiscardSnapshot
    PROVE  DrainInv'
  <1>1. Len(posts) \in Nat /\ credit \in Nat
    BY PlacedParts DEF PlacedInv, DrainInv
  <1>2. CASE TakeSnapshot
    <2>1. /\ UNCHANGED <<feed, known, turnActive, inFlight, posts, credit, running>> /\ known
          /\ snap' = [since |-> <<>>, active |-> running # None, generation |-> Len(posts)]
          /\ Pending = {}
      BY <1>2 DEF TakeSnapshot, viewVars, turnVars, queueVars, daemonVars
    <2>2. /\ snap'.since = <<>> /\ snap'.active = (running # None) /\ snap'.generation = Len(posts)
          /\ Len(<<>>) = 0
      BY <2>1
    <2>3. PICK flag \in BOOLEAN : Tells(feed, flag, running)
      BY <2>1 DEF BackedInv, HeardInv
    <2>4. /\ feed \in Seq(AnEvent) /\ Len(feed) \in Nat /\ Count(feed) \in Nat
          /\ credit >= Count(feed)
      BY <2>1, <2>3, LenProperties, CountedEnds DEF Tells, DrainInv
    <2>5. ~Waits(posts)
      <3>1. \A r : ~Blocked(<<>>, r)
        BY DEF Blocked
      <3> QED BY <2>1, <3>1 DEF Waits, Raised, Open, Pending, PostIds
    <2>6. ASSUME running = None
          PROVE  \/ credit >= 0 + 1
                 \/ ~Running /\ \A i \in 1..Len(feed) : feed[i].type \notin TurnOn
      <3>1. CASE Over(feed)
        BY <1>1, <2>4, <3>1, CountOver
      <3>2. CASE ~Over(feed)
        <4>1. \A i \in 1..Len(feed) : feed[i].type \notin TurnOn
          BY <2>3, <2>6, <3>2, TellsOver
        <4>2. turnActive => credit >= Count(feed) + 1
          BY <2>1, <2>6, <3>2 DEF DrainInv
        <4>3. inFlight => credit >= 1
          BY <2>1, <2>5, <2>6 DEF DrainInv
        <4> QED BY <1>1, <2>4, <4>1, <4>2, <4>3 DEF Running
      <3> QED BY <3>1, <3>2
    <2>7. Len(feed) - 0 = Len(feed)
      BY <2>4
    <2>8. Credited(snap', feed, Running, Len(posts), credit)
      <3>1. Count(snap'.since) = 0 /\ Len(snap'.since) = 0
        BY <2>2, CountNone
      <3>2. ~snap'.active => running = None
        BY <2>2
      <3> QED BY <1>1, <2>6, <2>7, <3>1, <3>2 DEF Credited
    <2>9. Running' = Running
      BY <2>1 DEF Running
    <2> QED BY <1>1, <2>1, <2>2, <2>8, <2>9 DEF DrainInv
  <1>3. CASE ApplySnapshot
    <2> DEFINE s == snap.since
    <2>1. /\ known /\ snap # NoSnapshot /\ ~IsStale /\ snap.generation = Len(posts)
          /\ feed' = s /\ snap' = NoSnapshot /\ UNCHANGED <<known, running>>
          /\ turnActive' = snap.active
          /\ IF snap.active THEN UNCHANGED <<inFlight, posts>> ELSE FinishPrompt
          /\ credit' = IF MustApply /\ Overtaken THEN credit ELSE credit - Drains
      BY <1>3 DEF ApplySnapshot, IsLocalTurnCurrent, daemonVars
    <2>2. /\ snap.active \in BOOLEAN /\ s \in Seq(AnEvent) /\ Tells(s, snap.active, running)
          /\ feed \in Seq(AnEvent)
          /\ Credited(snap, feed, Running, Len(posts), credit)
      BY <2>1 DEF DrainInv, BackedInv, HeardInv, Tells
    <2>3. Len(feed) \in Nat /\ Len(s) \in Nat /\ Count(s) \in Nat /\ credit >= Count(s)
      BY <2>1, <2>2, LenProperties, CountedEnds DEF Credited
    <2>4. CASE snap.active
      <3>1. credit' = credit /\ posts' = posts
        BY <1>1, <2>1, <2>4 DEF Drains
      <3>2. running = None => Over(s) /\ Count(s) >= 1
        BY <2>2, <2>4, TellsOver, CountOver
      <3> HIDE DEF s
      <3> QED BY <1>1, <2>1, <2>3, <3>1, <3>2 DEF DrainInv
    <2>5. CASE ~snap.active
      <3>1. FinishPrompt /\ ~turnActive'
        BY <2>1, <2>5
      <3>2. ASSUME Drains = 0, ~inFlight'
            PROVE  DrainInv'
        <4>1. credit' = credit
          BY <1>1, <2>1, <3>2
        <4> HIDE DEF s
        <4> QED BY <1>1, <2>1, <2>3, <3>1, <3>2, <4>1 DEF DrainInv
      <3>3. ASSUME Drains = 1, Running, Waits(posts')
            PROVE  DrainInv'
        <4>1. credit' \in Nat /\ credit' >= Count(s)
          <5>1. CASE MustApply /\ Overtaken
            BY <1>1, <2>1, <2>3, <5>1
          <5>2. CASE ~(MustApply /\ Overtaken)
            <6>1. Len(feed) >= Len(s)
              BY <2>1, <2>3, <5>2 DEF IsStale, Overtaken
            <6>2. credit >= Count(s) + 1
              BY <2>1, <2>2, <2>5, <3>3, <6>1 DEF Credited
            <6>3. credit' = credit - 1
              BY <2>1, <3>3, <5>2
            <6> HIDE DEF s
            <6> QED BY <1>1, <2>3, <6>2, <6>3
          <5> QED BY <5>1, <5>2
        <4> HIDE DEF s
        <4> QED BY <2>1, <3>1, <3>3, <4>1 DEF DrainInv
      <3> QED BY <3>1, <3>2, <3>3, FinishDrains
    <2> QED BY <2>4, <2>5
  <1>4. CASE DiscardSnapshot
    <2>1. /\ UNCHANGED <<feed, known, running, credit, turnActive, inFlight, posts>>
          /\ snap' = NoSnapshot
      BY <1>4 DEF DiscardSnapshot, viewVars, daemonVars, turnVars, queueVars
    <2> QED BY <2>1 DEF DrainInv
  <1> QED BY <1>2, <1>3, <1>4

LEMMA DrainInit == Init => DrainInv
  <1> SUFFICES ASSUME Init PROVE DrainInv
    OBVIOUS
  <1>1. /\ credit = 0 /\ snap = NoSnapshot /\ feed = <<>> /\ ~turnActive /\ ~inFlight
        /\ Count(<<>>) = 0
    BY CountNone DEF Init
  <1> QED BY <1>1 DEF DrainInv

LEMMA DrainNext == PlacedInv /\ BackedInv /\ DrainInv /\ [Next]_vars => DrainInv'
  <1> SUFFICES ASSUME PlacedInv, BackedInv, DrainInv, [Next]_vars PROVE DrainInv'
    OBVIOUS
  <1>1. PlacedInv' /\ PostIds \subseteq PostIds'
    BY PlacedNext, PostsGrow
  <1>2. CASE ForgetSession
    <2>1. UNCHANGED credit /\ snap' = NoSnapshot /\ ~known'
      BY <1>2 DEF ForgetSession
    <2> QED BY <2>1 DEF DrainInv
  <1>3. CASE \/ \E k \in PostIds : Answered(k) \/ DaemonRefuses(k)
             \/ User \/ AskStop \/ StopMissed \/ Evict \/ Resync \/ UNCHANGED vars
    BY <1>1, <1>3, ClientDrains
  <1>4. CASE \/ \E k \in PostIds : \/ DaemonStarts(k) \/ DaemonParks(k) \/ DaemonBlocks(k)
                                   \/ DropParked(k)
             \/ TurnEnds \/ ForeignTurn \/ TurnVanishes \/ ServeStop
    BY <1>4, DaemonDrains
  <1> QED BY <1>2, <1>3, <1>4, ReceiveDrains, OmitDrains, SnapshotDrains
      DEF Next, Daemon, Answers, Answered

(* At most one queued prompt is drained for each end of a turn or of a     *)
(* prompt that got none, however often the client learns of it, overhears  *)
(* or misses it (finishPromptLocal, handleSessionSnapshot); only a         *)
(* snapshot that must be applied although it is overtaken may drain        *)
(* without one.                                                            *)
THEOREM DrainsCredited == Spec => []OneDrainPerEnd
  <1>1. Init => PlacedInv /\ BackedInv /\ DrainInv
    BY PlacedInit, BackedInit, DrainInit
  <1>2. PlacedInv /\ BackedInv /\ DrainInv /\ [Next]_vars => (PlacedInv /\ BackedInv /\ DrainInv)'
    BY PlacedNext, BackedNext, DrainNext
  <1>3. DrainInv => OneDrainPerEnd
    BY DEF DrainInv, OneDrainPerEnd
  <1>4. Spec => [](PlacedInv /\ BackedInv /\ DrainInv)
    BY <1>1, <1>2, PTL DEF Spec
  <1> QED BY <1>3, <1>4, PTL
=============================================================================
