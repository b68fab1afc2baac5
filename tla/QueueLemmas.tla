----------------------------- MODULE QueueLemmas -----------------------------
(***************************************************************************)
(* Lemmas about the queues of threads the kernel is made of: sequences in  *)
(* which nothing occurs twice (lib/kernel/list.c, where one element has    *)
(* one place), and the sets of their elements.                             *)
(***************************************************************************)
EXTENDS Integers, Sequences, Functions, SequenceTheorems, TLAPS

\* The elements of a sequence by position.
LEMMA RangeByIndex ==
  ASSUME NEW S, NEW q \in Seq(S)
  PROVE  /\ Range(q) \subseteq S
         /\ \A x : x \in Range(q) <=> \E i \in 1..Len(q) : q[i] = x
         /\ IsInjective(q) <=> \A i, j \in 1..Len(q) : q[i] = q[j] => i = j
BY DEF Range, IsInjective

\* list_push_back() of something new.
LEMMA PushBack ==
  ASSUME NEW S, NEW q \in Seq(S), NEW x \in S
  PROVE  /\ Append(q, x) \in Seq(S)
         /\ Range(Append(q, x)) = Range(q) \cup {x}
         /\ IsInjective(q) /\ x \notin Range(q) => IsInjective(Append(q, x))
<1>1. Append(q, x) \in Seq(S) /\ Len(Append(q, x)) = Len(q) + 1
  OBVIOUS
<1>2. \A i \in 1..Len(q) : Append(q, x)[i] = q[i]
  OBVIOUS
<1>3. Append(q, x)[Len(q) + 1] = x
  OBVIOUS
<1>4. Range(Append(q, x)) = Range(q) \cup {x}
  BY <1>1, <1>2, <1>3 DEF Range, IsInjective
<1>5. IsInjective(q) /\ x \notin Range(q) => IsInjective(Append(q, x))
  BY <1>1, <1>2, <1>3 DEF Range, IsInjective
<1>6. QED
  BY <1>1, <1>4, <1>5

\* list_pop_front() of a list that is not empty.
LEMMA PopFront ==
  ASSUME NEW S, NEW q \in Seq(S), q # <<>>
  PROVE  /\ Head(q) \in Range(q)
         /\ Tail(q) \in Seq(S)
         /\ Range(q) = Range(Tail(q)) \cup {Head(q)}
         /\ IsInjective(q) => IsInjective(Tail(q)) /\ Head(q) \notin Range(Tail(q))
<1>1. Len(q) \in Nat /\ Len(q) > 0 /\ Head(q) = q[1]
  OBVIOUS
<1>2. /\ Tail(q) \in Seq(S)
      /\ Len(Tail(q)) = Len(q) - 1
      /\ \A i \in 1..(Len(q) - 1) : Tail(q)[i] = q[i + 1]
  BY HeadTailProperties
<1>3. \A i \in 1..Len(q) : i = 1 \/ (i - 1 \in 1..(Len(q) - 1) /\ q[i] = Tail(q)[i - 1])
  BY <1>1, <1>2
<1>4. Head(q) \in Range(q)
  BY <1>1 DEF Range, IsInjective
<1>5. Range(q) = Range(Tail(q)) \cup {Head(q)}
  <2>1. \A y \in Range(q) : y \in Range(Tail(q)) \cup {Head(q)}
    <3>1. SUFFICES ASSUME NEW y \in Range(q), y # Head(q) PROVE y \in Range(Tail(q))
      OBVIOUS
    <3>2. PICK i \in 1..Len(q) : q[i] = y
      BY DEF Range
    <3>3. i - 1 \in 1..(Len(q) - 1) /\ Tail(q)[i - 1] = y
      BY <1>1, <1>3, <3>1, <3>2
    <3>4. DOMAIN Tail(q) = 1..(Len(q) - 1)
      BY <1>2, LenProperties
    <3>5. QED
      BY <3>3, <3>4 DEF Range
  <2>2. \A y \in Range(Tail(q)) : y \in Range(q)
    <3>1. SUFFICES ASSUME NEW y \in Range(Tail(q)) PROVE y \in Range(q)
      OBVIOUS
    <3>2. PICK i \in 1..(Len(q) - 1) : Tail(q)[i] = y
      BY <1>2 DEF Range, IsInjective
    <3>3. i + 1 \in 1..Len(q) /\ q[i + 1] = y
      BY <1>1, <1>2, <3>2
    <3>4. QED
      BY <3>3 DEF Range, IsInjective
  <2>3. QED
    BY <1>4, <2>1, <2>2
<1>6. ASSUME IsInjective(q)
      PROVE  IsInjective(Tail(q)) /\ Head(q) \notin Range(Tail(q))
  <2>1. \A i, j \in 1..Len(q) : q[i] = q[j] => i = j
    BY <1>6 DEF Range, IsInjective
  <2>2. \A i, j \in 1..(Len(q) - 1) : Tail(q)[i] = Tail(q)[j] => i = j
    <3>1. SUFFICES ASSUME NEW i \in 1..(Len(q) - 1), NEW j \in 1..(Len(q) - 1),
                          Tail(q)[i] = Tail(q)[j]
                   PROVE  i = j
      OBVIOUS
    <3>2. i + 1 \in 1..Len(q) /\ j + 1 \in 1..Len(q) /\ q[i + 1] = q[j + 1]
      BY <1>1, <1>2, <3>1
    <3>3. i + 1 = j + 1
      BY <2>1, <3>2
    <3>4. QED
      BY <3>3
  <2>3. \A i \in 1..(Len(q) - 1) : Tail(q)[i] # q[1]
    <3>1. SUFFICES ASSUME NEW i \in 1..(Len(q) - 1), Tail(q)[i] = q[1] PROVE FALSE
      OBVIOUS
    <3>2. i + 1 \in 1..Len(q) /\ 1 \in 1..Len(q) /\ q[i + 1] = q[1]
      BY <1>1, <1>2, <3>1
    <3>3. i + 1 = 1
      BY <2>1, <3>2
    <3>4. QED
      BY <3>3
  <2>4. QED
    BY <1>1, <1>2, <2>2, <2>3 DEF Range, IsInjective
<1>7. QED
  BY <1>2, <1>4, <1>5, <1>6

\* Moving one list to the end of another.
LEMMA Splice ==
  ASSUME NEW S, NEW p \in Seq(S), NEW q \in Seq(S)
  PROVE  /\ p \o q \in Seq(S)
         /\ Len(p \o q) = Len(p) + Len(q)
         /\ \A i \in 1..Len(p) : (p \o q)[i] = p[i]
         /\ \A i \in 1..Len(q) : (p \o q)[Len(p) + i] = q[i]
         /\ Range(p \o q) = Range(p) \cup Range(q)
         /\ IsInjective(p) /\ IsInjective(q) /\ Range(p) \cap Range(q) = {}
              => IsInjective(p \o q)
<1>1. /\ p \o q \in Seq(S)
      /\ Len(p \o q) = Len(p) + Len(q)
      /\ Len(p) \in Nat /\ Len(q) \in Nat
      /\ \A i \in 1..(Len(p) + Len(q)) :
           (p \o q)[i] = IF i =< Len(p) THEN p[i] ELSE q[i - Len(p)]
  BY ConcatProperties
<1>2. Range(p \o q) = Range(p) \cup Range(q)
  BY RangeConcatenation
<1>3. ASSUME IsInjective(p), IsInjective(q), Range(p) \cap Range(q) = {}
      PROVE  IsInjective(p \o q)
  <2>1. \A i, j \in 1..Len(p) : p[i] = p[j] => i = j
    BY <1>3 DEF Range, IsInjective
  <2>2. \A i, j \in 1..Len(q) : q[i] = q[j] => i = j
    BY <1>3 DEF Range, IsInjective
  <2>3. \A i \in 1..Len(p), j \in 1..Len(q) : p[i] # q[j]
    BY <1>3 DEF Range, IsInjective
  <2>4. ASSUME NEW i \in 1..Len(p \o q), NEW j \in 1..Len(p \o q),
               (p \o q)[i] = (p \o q)[j]
        PROVE  i = j
    <3>1. CASE i =< Len(p) /\ j =< Len(p)
      BY <1>1, <2>1, <2>4, <3>1
    <3>2. CASE i > Len(p) /\ j > Len(p)
      <4>1. i - Len(p) \in 1..Len(q) /\ j - Len(p) \in 1..Len(q)
        BY <1>1, <3>2
      <4>2. q[i - Len(p)] = q[j - Len(p)]
        BY <1>1, <2>4, <3>2
      <4>3. QED
        BY <1>1, <2>2, <4>1, <4>2
    <3>3. CASE i =< Len(p) /\ j > Len(p)
      <4>1. i \in 1..Len(p) /\ j - Len(p) \in 1..Len(q)
        BY <1>1, <3>3
      <4>2. p[i] = q[j - Len(p)]
        BY <1>1, <2>4, <3>3
      <4>3. QED
        BY <2>3, <4>1, <4>2
    <3>4. CASE i > Len(p) /\ j =< Len(p)
      <4>1. j \in 1..Len(p) /\ i - Len(p) \in 1..Len(q)
        BY <1>1, <3>4
      <4>2. p[j] = q[i - Len(p)]
        BY <1>1, <2>4, <3>4
      <4>3. QED
        BY <2>3, <4>1, <4>2
    <3>5. QED
      BY <1>1, <3>1, <3>2, <3>3, <3>4
  <2>5. QED
    BY <1>1, <2>4 DEF Range, IsInjective
<1>4. \A i \in 1..Len(q) : (p \o q)[Len(p) + i] = q[i]
  <2>1. \A i \in 1..Len(q) : /\ Len(p) + i \in 1..(Len(p) + Len(q))
                              /\ ~(Len(p) + i =< Len(p)) /\ Len(p) + i - Len(p) = i
    BY <1>1
  <2>2. QED
    BY <1>1, <2>1
<1>5. QED
  BY <1>1, <1>2, <1>3, <1>4

\* Cutting a list in two after its n-th element.
LEMMA Cut ==
  ASSUME NEW S, NEW q \in Seq(S), NEW n \in 0..Len(q)
  PROVE  LET front == SubSeq(q, 1, n)
             back  == SubSeq(q, n + 1, Len(q))
         IN  /\ front \in Seq(S) /\ back \in Seq(S)
             /\ Len(front) = n /\ Len(back) = Len(q) - n
             /\ \A i \in 1..n : front[i] = q[i]
             /\ \A i \in 1..(Len(q) - n) : back[i] = q[n + i]
             /\ Range(q) = Range(front) \cup Range(back)
             /\ IsInjective(q) => /\ IsInjective(front) /\ IsInjective(back)
                                  /\ Range(front) \cap Range(back) = {}
<1> DEFINE front == SubSeq(q, 1, n)
           back  == SubSeq(q, n + 1, Len(q))
<1>1. Len(q) \in Nat /\ n \in Nat /\ n =< Len(q) /\ \A i \in 1..Len(q) : q[i] \in S
  OBVIOUS
<1>2. front \in Seq(S) /\ Len(front) = n /\ \A i \in 1..n : front[i] = q[i]
  <2>1. \A i \in 1..n : q[i] \in S
    BY <1>1
  <2>2. QED
    BY <1>1, <2>1, SubSeqProperties
<1>3. /\ back \in Seq(S) /\ Len(back) = Len(q) - n
      /\ \A i \in 1..(Len(q) - n) : back[i] = q[n + i]
  <2>1. \A i \in (n + 1)..Len(q) : q[i] \in S
    BY <1>1
  <2>2. /\ back \in Seq(S)
        /\ Len(back) = IF n + 1 =< Len(q) THEN Len(q) - (n + 1) + 1 ELSE 0
        /\ \A i \in 1..(Len(q) - (n + 1) + 1) : back[i] = q[(n + 1) + i - 1]
    BY <1>1, <2>1, SubSeqProperties
  <2>3. QED
    BY <1>1, <2>2
<1> HIDE DEF front, back
<1>4. \A i \in 1..Len(q) : \/ i \in 1..n
                           \/ i - n \in 1..(Len(q) - n) /\ q[i] = back[i - n]
  BY <1>1, <1>3
<1>5. \A i \in 1..(Len(q) - n) : n + i \in 1..Len(q)
  BY <1>1
<1>6. Range(q) = Range(front) \cup Range(back)
  <2>1. \A x \in Range(q) : x \in Range(front) \cup Range(back)
    BY <1>2, <1>3, <1>4 DEF Range, IsInjective
  <2>2. \A x \in Range(front) : x \in Range(q)
    BY <1>1, <1>2 DEF Range, IsInjective
  <2>3. \A x \in Range(back) : x \in Range(q)
    <3>1. SUFFICES ASSUME NEW x \in Range(back) PROVE x \in Range(q)
      OBVIOUS
    <3>2. PICK i \in 1..(Len(q) - n) : back[i] = x
      BY <1>3 DEF Range
    <3>3. n + i \in 1..Len(q) /\ q[n + i] = x
      BY <1>3, <1>5, <3>2
    <3>4. QED
      BY <3>3 DEF Range
  <2>4. QED
    BY <2>1, <2>2, <2>3
<1>7. ASSUME IsInjective(q)
      PROVE  IsInjective(front) /\ IsInjective(back) /\ Range(front) \cap Range(back) = {}
  <2>1. \A i, j \in 1..Len(q) : q[i] = q[j] => i = j
    BY <1>7 DEF Range, IsInjective
  <2>2. IsInjective(front)
    BY <1>1, <1>2, <2>1 DEF Range, IsInjective
  <2>3. \A i, j \in 1..(Len(q) - n) : back[i] = back[j] => i = j
    <3>1. SUFFICES ASSUME NEW i \in 1..(Len(q) - n), NEW j \in 1..(Len(q) - n),
                          back[i] = back[j]
                   PROVE  i = j
      OBVIOUS
    <3>2. q[n + i] = q[n + j] /\ n + i \in 1..Len(q) /\ n + j \in 1..Len(q)
      BY <1>3, <1>5, <3>1
    <3>3. n + i = n + j
      BY <2>1, <3>2
    <3>4. QED
      BY <1>1, <3>3
  <2>4. \A i \in 1..n, j \in 1..(Len(q) - n) : front[i] # back[j]
    <3>1. SUFFICES ASSUME NEW i \in 1..n, NEW j \in 1..(Len(q) - n), front[i] = back[j]
                   PROVE  FALSE
      OBVIOUS
    <3>2. q[i] = q[n + j] /\ i \in 1..Len(q) /\ n + j \in 1..Len(q)
      BY <1>1, <1>2, <1>3, <1>5, <3>1
    <3>3. i = n + j
      BY <2>1, <3>2
    <3>4. QED
      BY <1>1, <3>3
  <2>5. Range(front) \cap Range(back) = {}
    BY <1>2, <1>3, <2>4 DEF Range, IsInjective
  <2>6. DOMAIN back = 1..(Len(q) - n)
    BY <1>3
  <2>7. IsInjective(back)
    BY <2>3, <2>6 DEF IsInjective
  <2>8. QED
    BY <2>2, <2>5, <2>7
<1>8. QED
  BY <1>2, <1>3, <1>6, <1>7 DEF front, back

\* list_remove() of the k-th element: those behind it move up by one.
LEMMA CutOut ==
  ASSUME NEW S, NEW q \in Seq(S), NEW k \in 1..Len(q)
  PROVE  LET rest == SubSeq(q, 1, k - 1) \o SubSeq(q, k + 1, Len(q))
         IN  /\ rest \in Seq(S) /\ Len(rest) = Len(q) - 1
             /\ \A j \in 1..(Len(q) - 1) : rest[j] = IF j < k THEN q[j] ELSE q[j + 1]
<1> DEFINE front == SubSeq(q, 1, k - 1)
           back  == SubSeq(q, k + 1, Len(q))
<1>1. /\ front \in Seq(S) /\ Len(front) = k - 1 /\ \A j \in 1..(k - 1) : front[j] = q[j]
  <2>1. k - 1 \in 0..Len(q) /\ (k - 1) + 1 = k
    OBVIOUS
  <2> QED
    BY <2>1, Cut
<1>2. /\ back \in Seq(S) /\ Len(back) = Len(q) - k
      /\ \A j \in 1..(Len(q) - k) : back[j] = q[k + j]
  <2>1. k \in 0..Len(q)
    OBVIOUS
  <2> QED
    BY <2>1, Cut
<1> HIDE DEF front, back
<1>3. front \o back \in Seq(S) /\ Len(front \o back) = Len(q) - 1
  BY <1>1, <1>2
<1>4. ASSUME NEW j \in 1..(Len(q) - 1)
      PROVE  (front \o back)[j] = IF j < k THEN q[j] ELSE q[j + 1]
  <2>1. CASE j < k
    BY <1>1, <1>2, <2>1
  <2>2. CASE j >= k
    <3>1. (front \o back)[j] = back[j - (k - 1)] /\ j - (k - 1) \in 1..(Len(q) - k)
      BY <1>1, <1>2, <2>2
    <3>2. back[j - (k - 1)] = q[j + 1]
      BY <1>2, <3>1
    <3> QED
      BY <2>2, <3>1, <3>2
  <2>3. j < k \/ j >= k
    OBVIOUS
  <2> QED
    BY <2>1, <2>2, <2>3
<1> QED
  BY <1>3, <1>4 DEF front, back
===============================================================================
