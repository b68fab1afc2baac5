------------------------------- MODULE Library -------------------------------
(***************************************************************************)
(* Algorithms of the library against what they are to compute: sorting and *)
(* searching in lib/kernel/list.c and lib/stdlib.c, and the 64-bit         *)
(* division of lib/arithmetic.c, here with words of HALF instead of 32     *)
(* bits.  A list is the sequence of its elements; an element has a key,    *)
(* which is what less() compares, and the place it came from.              *)
(***************************************************************************)
EXTENDS Integers, Sequences

LOCAL INSTANCE SequencesExt
LOCAL INSTANCE FiniteSetsExt

CONSTANTS Key, MaxList,  \* the lists tried: keys, length
          HALF           \* bits of a word

ASSUME LibraryAssumption == Key \subseteq Nat /\ Key # {} /\ MaxList \in Nat /\ HALF \in Nat \ {0}

VARIABLES job,    \* what is called, with which arguments
          result

library == <<job, result>>

Pending == [done |-> FALSE]

-----------------------------------------------------------------------------
(* lib/kernel/list.c *)

less(a, b) == a.key < b.key

\* The first place after i where the order breaks, or the end.
find_end_of_run(l, i) == Min({j \in (i + 1)..(Len(l) + 1) : j = Len(l) + 1 \/ less(l[j], l[j - 1])})

RECURSIVE inplace_merge(_, _)
inplace_merge(a, b) ==
  IF a = <<>> \/ b = <<>> THEN a \o b
  ELSE IF ~less(Head(b), Head(a)) THEN <<Head(a)>> \o inplace_merge(Tail(a), b)
                                  ELSE <<Head(b)>> \o inplace_merge(a, Tail(b))

\* A pass merges the first run with the second, the third with the fourth, ...
RECURSIVE Pass(_)
Pass(l) ==
  LET a1b0 == find_end_of_run(l, 1)
      b1 == find_end_of_run(l, a1b0)
      rest == Pass(SubSeq(l, b1, Len(l)))
  IN  IF l = <<>> THEN [list |-> l, runs |-> 0]
      ELSE IF a1b0 = Len(l) + 1 THEN [list |-> l, runs |-> 1]
      ELSE [list |-> inplace_merge(SubSeq(l, 1, a1b0 - 1), SubSeq(l, a1b0, b1 - 1)) \o rest.list,
            runs |-> 1 + rest.runs]

RECURSIVE list_sort(_)
list_sort(l) == LET p == Pass(l) IN IF p.runs > 1 THEN list_sort(p.list) ELSE p.list

list_insert_ordered(l, e) ==
  InsertAt(l, Min({Len(l) + 1} \cup {i \in DOMAIN l : less(e, l[i])}), e)

\* What is left, and what list_unique() appends to duplicates.
list_unique(l) ==
  FoldLeft(LAMBDA r, e : IF r.kept # <<>> /\ ~less(Last(r.kept), e) /\ ~less(e, Last(r.kept))
                           THEN [r EXCEPT !.duplicates = Append(@, e)]
                           ELSE [r EXCEPT !.kept = Append(@, e)],
           [kept |-> <<>>, duplicates |-> <<>>], l)

list_max(l) == FoldLeft(LAMBDA m, e : IF less(m, e) THEN e ELSE m, Head(l), Tail(l))
list_min(l) == FoldLeft(LAMBDA m, e : IF less(e, m) THEN e ELSE m, Head(l), Tail(l))

-----------------------------------------------------------------------------
(* lib/stdlib.c *)

do_swap(array, a, b) == [array EXCEPT ![a] = array[b], ![b] = array[a]]

RECURSIVE heapify(_, _, _)
heapify(array, i, cnt) ==
  LET left == 2 * i
      right == 2 * i + 1
      larger == IF left <= cnt /\ less(array[i], array[left]) THEN left ELSE i
      largest == IF right <= cnt /\ less(array[larger], array[right]) THEN right ELSE larger
  IN  IF largest = i THEN array ELSE heapify(do_swap(array, i, largest), largest, cnt)

sort(array) ==
  LET cnt == Len(array)
      heap == FoldLeft(LAMBDA a, k : heapify(a, cnt \div 2 + 1 - k, cnt), array, [k \in 1..(cnt \div 2) |-> k])
  IN  FoldLeft(LAMBDA a, k : heapify(do_swap(a, 1, cnt + 1 - k), 1, cnt - k), heap, [k \in 1..(cnt - 1) |-> k])

\* The index found in array[first + 1 .. last], 0 if none.
RECURSIVE BinarySearch(_, _, _, _)
BinarySearch(key, array, first, last) ==
  LET middle == first + (last - first) \div 2
  IN  IF first >= last THEN 0
      ELSE IF key < array[middle + 1].key THEN BinarySearch(key, array, first, middle)
      ELSE IF key > array[middle + 1].key THEN BinarySearch(key, array, middle + 1, last)
      ELSE middle + 1
binary_search(key, array) == BinarySearch(key, array, 0, Len(array))

-----------------------------------------------------------------------------
(* lib/arithmetic.c *)

Word == 2^HALF           \* 2^32
Long == Word * Word      \* 2^64
ToSigned(x, modulus) == LET r == x % modulus IN IF r < modulus \div 2 THEN r ELSE r - modulus

TRAP == -1
divl(n, d) == IF n \div d < Word THEN n \div d ELSE TRAP

nlz(x) == HALF - 1 - Max({k \in 0..(HALF - 1) : 2^k <= x})

\* Mutant of udiv64: the quotient of the two most significant words is not corrected.
udiv64_estimate(n, d) ==
  LET d1 == d \div Word
      s == nlz(d1)
  IN  IF d1 = 0 THEN divl((Word * ((n \div Word) % d)) + (n % Word), d) + (Word * ((n \div Word) \div d))
      ELSE IF n < d THEN 0
      ELSE divl(n \div 2, ((d * 2^s) % Long) \div Word) \div 2^(HALF - 1 - s)

udiv64(n, d) ==
  LET d1 == d \div Word
      s == nlz(d1)
      q == divl(n \div 2, ((d * 2^s) % Long) \div Word) \div 2^(HALF - 1 - s)
  IN  IF d1 = 0 THEN divl((Word * ((n \div Word) % d)) + (n % Word), d) + (Word * ((n \div Word) \div d))
      ELSE IF n < d THEN 0
      ELSE IF (n - (q - 1) * d) % Long < d THEN q - 1 ELSE q

\* The remainder is returned in one word.
umod64(n, d) == (n - d * udiv64(n, d)) % Word

Abs(n) == IF n >= 0 THEN n ELSE -n
sdiv64(n, d) ==
  LET q == udiv64(Abs(n), Abs(d)) IN ToSigned(IF (n < 0) = (d < 0) THEN q ELSE -q, Long)
smod64(n, d) == ToSigned(n - d * sdiv64(n, d), Word)

-----------------------------------------------------------------------------

Lists == UNION {[1..n -> Key] : n \in 0..MaxList}
Elements(keys) == [i \in DOMAIN keys |-> [key |-> keys[i], from |-> i]]
Unsigned64 == 0..(Long - 1)
Signed64 == (-(Long \div 2))..(Long \div 2 - 1)

LibraryInit ==
  /\ result = Pending
  /\ \/ \E keys \in Lists : job = [call |-> "list", list |-> Elements(keys)]
     \/ \E n, d \in Unsigned64 : d # 0 /\ job = [call |-> "unsigned", n |-> n, d |-> d]
     \/ \E n, d \in Signed64 : d # 0 /\ job = [call |-> "signed", n |-> n, d |-> d]

OnList ==
  /\ job.call = "list" /\ ~result.done
  /\ LET sorted == list_sort(job.list)
     IN  result' = [done |-> TRUE, sorted |-> sorted, heap_sorted |-> sort(job.list),
                    inserted |-> [k \in Key |-> list_insert_ordered(sorted, [key |-> k, from |-> 0])],
                    unique |-> list_unique(sorted),
                    ends |-> IF sorted = <<>> THEN <<>> ELSE <<list_min(job.list), list_max(job.list)>>,
                    found |-> [k \in Key |-> binary_search(k, sorted)]]
  /\ UNCHANGED job

OnUnsigned ==
  /\ job.call = "unsigned" /\ ~result.done
  /\ result' = [done |-> TRUE, q |-> udiv64(job.n, job.d), r |-> umod64(job.n, job.d)]
  /\ UNCHANGED job

OnSigned ==
  /\ job.call = "signed" /\ ~result.done
  /\ result' = [done |-> TRUE, q |-> sdiv64(job.n, job.d), r |-> smod64(job.n, job.d)]
  /\ UNCHANGED job

LibraryNext == OnList \/ OnUnsigned \/ OnSigned

LibrarySpec == LibraryInit /\ [][LibraryNext]_library

-----------------------------------------------------------------------------
(* Properties. *)

Before(a, b) == a.key < b.key \/ (a.key = b.key /\ a.from < b.from)
InOrder(s, before(_, _)) == \A i, j \in DOMAIN s : i < j => before(s[i], s[j])
SameElements(s, l) == Len(s) = Len(l) /\ ToSet(s) = ToSet(l)
NotAfter(a, b) == a.key <= b.key

\* list_sort() keeps the order of elements with equal keys, and what is inserted
\* into a sorted list comes after its equals; sort() sorts as well; list_unique()
\* keeps the first of each key; the searches find what there is.
ListsRight ==
  job.call = "list" /\ result.done =>
    LET sorted == result.sorted
    IN  /\ SameElements(sorted, job.list) /\ InOrder(sorted, Before)
        /\ SameElements(result.heap_sorted, job.list) /\ InOrder(result.heap_sorted, NotAfter)
        /\ \A k \in Key :
             /\ result.inserted[k] = SelectSeq(sorted, LAMBDA e : e.key <= k) \o <<[key |-> k, from |-> 0]>>
                                     \o SelectSeq(sorted, LAMBDA e : e.key > k)
             /\ IF \E e \in ToSet(sorted) : e.key = k THEN sorted[result.found[k]].key = k ELSE result.found[k] = 0
        /\ SameElements(result.unique.kept \o result.unique.duplicates, job.list)
        /\ \A e \in ToSet(job.list) : (\E d \in ToSet(result.unique.duplicates) : d = e)
                                      <=> \E f \in ToSet(job.list) : f.key = e.key /\ f.from < e.from
        /\ sorted # <<>> => /\ result.ends[1] = sorted[1]
                            /\ result.ends[2] = CHOOSE e \in ToSet(sorted) : e.key = Last(sorted).key
                                                  /\ \A f \in ToSet(sorted) : f.key = e.key => e.from <= f.from

\* The quotient is exact for all operands (but for the one that overflows), without
\* a trap on the way, and the remainder for divisors of one word.
DivisionRight ==
  /\ job.call = "unsigned" /\ result.done =>
       /\ result.q = job.n \div job.d
       /\ job.d <= Word => result.r = job.n % job.d
  /\ job.call = "signed" /\ result.done /\ ~(job.n = -(Long \div 2) /\ job.d = -1) =>
       /\ Abs(result.q) = Abs(job.n) \div Abs(job.d)
       /\ result.q # 0 => (result.q < 0 <=> (job.n < 0) # (job.d < 0))
       /\ Abs(job.d) <= Word \div 2 => result.r = job.n - job.d * result.q

LibraryRight == ListsRight /\ DivisionRight

\* arithmetic.c:155: "Divides unsigned 64-bit N by unsigned 64-bit D and returns the
\* remainder."
RemainderRight == job.call = "unsigned" /\ result.done => result.r = job.n % job.d
===============================================================================
