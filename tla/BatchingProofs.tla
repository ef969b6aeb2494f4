--------------------------- MODULE BatchingProofs ---------------------------
(***************************************************************************)
(* The runtime's source queue conserves events and keeps its budgets for   *)
(* every source log, every RuntimeOptions and every size of hand-over.     *)
(*                                                                         *)
(* Both properties are about recursive functions, the byte count of a      *)
(* chunk and the concatenation of the batches.  What they compute is       *)
(* derived from NatSetInduction, induction stated for a set of naturals:   *)
(* a function that satisfies the recursion exists, and the value at n      *)
(* depends on the first n elements only.                                   *)
(***************************************************************************)
EXTENDS Batching, SequenceTheorems, WellFoundedInduction, TLAPS

(* A set of naturals with 0 and the successor of each member is Nat.       *)
LEMMA NatSetInduction ==
    ASSUME NEW T, 0 \in T, \A n \in Nat : n \in T => n + 1 \in T
    PROVE  Nat \subseteq T
<1> DEFINE U == Nat \ T
<1> SUFFICES ASSUME U # {}
             PROVE  FALSE
  OBVIOUS
<1>1. PICK x \in U : \A y \in U : ~(<<y, x>> \in OpToRel(<, Nat))
  <2>1. U \subseteq Nat
    OBVIOUS
  <2> HIDE DEF U
  <2> QED
    BY <2>1, NatLessThanWellFounded, WFMin
<1>2. x # 0 /\ x - 1 \in Nat /\ x - 1 < x
  OBVIOUS
<1>3. <<x - 1, x>> \in OpToRel(<, Nat)
  BY <1>2 DEF OpToRel
<1>4. x - 1 \in T
  BY <1>1, <1>2, <1>3
<1> QED
  BY <1>2, <1>4

(* A set of naturals below a bound has a largest member.                   *)
LEMMA LargestMember ==
    ASSUME NEW k \in Nat, NEW S \in SUBSET (1..k), S # {}
    PROVE  \E i \in S : \A j \in S : j <= i
<1> DEFINE T == {n \in Nat : (\E i \in S : i <= n) => \E i \in S : i <= n /\ \A j \in S : j <= n => j <= i}
<1>1. 0 \in T
  OBVIOUS
<1>2. ASSUME NEW n \in Nat, n \in T
      PROVE  n + 1 \in T
  <2>1. CASE n + 1 \in S
    BY <2>1
  <2>2. CASE n + 1 \notin S
    <3>1. \A j \in S : j <= n + 1 <=> j <= n
      BY <2>2
    <3> QED
      BY <1>2, <3>1
  <2> QED
    BY <2>1, <2>2
<1> HIDE DEF T
<1>3. k \in T
  BY <1>1, <1>2, NatSetInduction
<1>4. \A j \in S : j <= k
  OBVIOUS
<1> QED
  BY <1>3, <1>4 DEF T

-----------------------------------------------------------------------------
(* The recursion of chunk_bytes has a solution over every length.          *)
LEMMA BytesExist ==
    ASSUME NEW q, NEW len \in Nat
    PROVE  \E f : f = [k \in 0..len |-> IF k = 0 THEN 0 ELSE f[k - 1] + q[k].bytes]
<1> DEFINE Solves(f, n) == f = [k \in 0..n |-> IF k = 0 THEN 0 ELSE f[k - 1] + q[k].bytes]
           T == {n \in Nat : \E f : Solves(f, n)}
<1>1. 0 \in T
  <2>1. Solves([k \in 0..0 |-> 0], 0)
    OBVIOUS
  <2> QED
    BY <2>1
<1>2. ASSUME NEW n \in Nat, n \in T
      PROVE  n + 1 \in T
  <2>1. PICK f : Solves(f, n)
    BY <1>2
  <2> DEFINE v == f[n] + q[n + 1].bytes
             g == [k \in 0..(n + 1) |-> IF k = n + 1 THEN v ELSE f[k]]
  <2>2. \A k \in 0..n : f[k] = IF k = 0 THEN 0 ELSE f[k - 1] + q[k].bytes
    BY <2>1
  <2>3. ASSUME NEW k \in 0..(n + 1)
        PROVE  g[k] = IF k = 0 THEN 0 ELSE g[k - 1] + q[k].bytes
    <3>1. CASE k = n + 1
      BY <3>1
    <3>2. CASE k # n + 1
      <4>1. k \in 0..n /\ g[k] = f[k] /\ (k # 0 => g[k - 1] = f[k - 1])
        BY <3>2
      <4> HIDE DEF g
      <4> QED
        BY <2>2, <4>1
    <3> QED
      BY <3>1, <3>2
  <2>4. g = [k \in 0..(n + 1) |-> g[k]]
    OBVIOUS
  <2> HIDE DEF g
  <2>5. Solves(g, n + 1)
    BY <2>3, <2>4
  <2> QED
    BY <2>5
<1> HIDE DEF T
<1>3. len \in T
  BY <1>1, <1>2, NatSetInduction
<1> QED
  BY <1>3 DEF T

(* chunk_bytes starts at zero and adds one event's size at a time.         *)
LEMMA ChunkBytesRecursion ==
    ASSUME NEW q, Len(q) \in Nat
    PROVE  \A k \in 0..Len(q) :
              ChunkBytes(q)[k] = IF k = 0 THEN 0 ELSE ChunkBytes(q)[k - 1] + q[k].bytes
<1> DEFINE f == ChunkBytes(q)
<1>1. \E g : g = [k \in 0..Len(q) |-> IF k = 0 THEN 0 ELSE g[k - 1] + q[k].bytes]
  BY BytesExist
<1>2. f = [k \in 0..Len(q) |-> IF k = 0 THEN 0 ELSE f[k - 1] + q[k].bytes]
  BY <1>1 DEF ChunkBytes
<1> HIDE DEF f
<1>3. \A k \in 0..Len(q) : f[k] = IF k = 0 THEN 0 ELSE f[k - 1] + q[k].bytes
  BY <1>2
<1> QED
  BY <1>3 DEF f

(* The byte count of a prefix is the count of the queue at that point.     *)
LEMMA ChunkBytesOfPrefix ==
    ASSUME NEW Q, NEW q \in Seq(Q), NEW n \in 0..Len(q)
    PROVE  ChunkBytes(SubSeq(q, 1, n))[n] = ChunkBytes(q)[n]
<1> DEFINE p == SubSeq(q, 1, n)
           T == {k \in Nat : k <= n => ChunkBytes(p)[k] = ChunkBytes(q)[k]}
<1>1. Len(q) \in Nat /\ Len(p) = n /\ \A k \in 1..n : p[k] = q[k]
  OBVIOUS
<1> HIDE DEF p
<1>2. \A k \in 0..n :
          /\ ChunkBytes(p)[k] = IF k = 0 THEN 0 ELSE ChunkBytes(p)[k - 1] + p[k].bytes
          /\ ChunkBytes(q)[k] = IF k = 0 THEN 0 ELSE ChunkBytes(q)[k - 1] + q[k].bytes
  BY <1>1, ChunkBytesRecursion
<1>3. 0 \in T
  BY <1>2
<1>4. ASSUME NEW k \in Nat, k \in T
      PROVE  k + 1 \in T
  BY <1>1, <1>2, <1>4
<1> HIDE DEF T
<1>5. n \in T
  BY <1>3, <1>4, NatSetInduction
<1> QED
  BY <1>5 DEF T, p

-----------------------------------------------------------------------------
(* The recursion of Concat has a solution over every length.               *)
LEMMA JoinedExist ==
    ASSUME NEW q, NEW len \in Nat
    PROVE  \E f : f = [k \in 0..len |-> IF k = 0 THEN <<>> ELSE f[k - 1] \o q[k]]
<1> DEFINE join(x, k) == x \o q[k]
           Solves(f, n) == f = [k \in 0..n |-> IF k = 0 THEN <<>> ELSE join(f[k - 1], k)]
           T == {n \in Nat : \E f : Solves(f, n)}
<1> HIDE DEF join
<1>1. 0 \in T
  <2>1. Solves([k \in 0..0 |-> <<>>], 0)
    OBVIOUS
  <2> QED
    BY <2>1
<1>2. ASSUME NEW n \in Nat, n \in T
      PROVE  n + 1 \in T
  <2>1. PICK f : Solves(f, n)
    BY <1>2
  <2> DEFINE v == join(f[n], n + 1)
             g == [k \in 0..(n + 1) |-> IF k = n + 1 THEN v ELSE f[k]]
  <2>2. \A k \in 0..n : f[k] = IF k = 0 THEN <<>> ELSE join(f[k - 1], k)
    BY <2>1
  <2>3. ASSUME NEW k \in 0..(n + 1)
        PROVE  g[k] = IF k = 0 THEN <<>> ELSE join(g[k - 1], k)
    <3>1. CASE k = n + 1
      BY <3>1
    <3>2. CASE k # n + 1
      <4>1. k \in 0..n /\ g[k] = f[k] /\ (k # 0 => g[k - 1] = f[k - 1])
        BY <3>2
      <4> HIDE DEF g
      <4> QED
        BY <2>2, <4>1
    <3> QED
      BY <3>1, <3>2
  <2>4. g = [k \in 0..(n + 1) |-> g[k]]
    OBVIOUS
  <2> HIDE DEF g
  <2>5. Solves(g, n + 1)
    BY <2>3, <2>4
  <2> QED
    BY <2>5
<1> HIDE DEF T
<1>3. len \in T
  BY <1>1, <1>2, NatSetInduction
<1> QED
  BY <1>3 DEF T, join

(* Joined(s) is the function Concat(s) is the last value of.               *)
Joined(s) ==
    CHOOSE f : f = [k \in 0..Len(s) |-> IF k = 0 THEN <<>> ELSE f[k - 1] \o s[k]]

(* Concat joins one sequence at a time.                                    *)
LEMMA ConcatRecursion ==
    ASSUME NEW s, Len(s) \in Nat
    PROVE  /\ Concat(s) = Joined(s)[Len(s)]
           /\ Joined(s)[0] = <<>>
           /\ \A k \in Nat : k < Len(s) => Joined(s)[k + 1] = Joined(s)[k] \o s[k + 1]
<1> DEFINE f == Joined(s)
           join(x, k) == x \o s[k]
<1>1. \E g : g = [k \in 0..Len(s) |-> IF k = 0 THEN <<>> ELSE g[k - 1] \o s[k]]
  BY JoinedExist
<1>2. f = [k \in 0..Len(s) |-> IF k = 0 THEN <<>> ELSE join(f[k - 1], k)]
  BY <1>1 DEF Joined
<1>3. Concat(s) = f[Len(s)]
  BY DEF Concat, Joined
<1> HIDE DEF f, join
<1>4. f[0] = <<>> /\ \A k \in Nat : k < Len(s) => f[k + 1] = join(f[k], k + 1)
  BY <1>2
<1> QED
  BY <1>3, <1>4 DEF f, join

(* The concatenation of sequences of events is a sequence of events, and   *)
(* one more batch goes to its end.                                         *)
LEMMA ConcatOfAppend ==
    ASSUME NEW E, NEW s \in Seq(Seq(E)), NEW b \in Seq(E)
    PROVE  /\ Concat(s) \in Seq(E)
           /\ Concat(Append(s, b)) = Concat(s) \o b
<1> DEFINE t == Append(s, b)
           n == Len(s)
           T == {k \in Nat : k <= n => Joined(t)[k] = Joined(s)[k] /\ Joined(s)[k] \in Seq(E)}
<1>1. /\ n \in Nat /\ Len(t) = n + 1
      /\ \A k \in 1..n : t[k] = s[k] /\ s[k] \in Seq(E)
      /\ t[n + 1] = b
  BY AppendProperties, ElementOfSeq, LenProperties
<1> HIDE DEF t, n
<1>2. /\ Concat(s) = Joined(s)[n]
      /\ Joined(s)[0] = <<>>
      /\ \A k \in Nat : k < n => Joined(s)[k + 1] = Joined(s)[k] \o s[k + 1]
  BY <1>1, ConcatRecursion DEF n
<1>3. /\ Concat(t) = Joined(t)[n + 1]
      /\ Joined(t)[0] = <<>>
      /\ \A k \in Nat : k < n + 1 => Joined(t)[k + 1] = Joined(t)[k] \o t[k + 1]
  <2>1. Len(t) \in Nat
    BY <1>1
  <2> QED
    BY <1>1, <2>1, ConcatRecursion
<1>4. 0 \in T
  BY <1>2, <1>3, EmptySeq
<1>5. ASSUME NEW k \in Nat, k \in T
      PROVE  k + 1 \in T
  <2> SUFFICES ASSUME k + 1 <= n
               PROVE  Joined(t)[k + 1] = Joined(s)[k + 1] /\ Joined(s)[k + 1] \in Seq(E)
    OBVIOUS
  <2>1. Joined(t)[k] = Joined(s)[k] /\ Joined(s)[k] \in Seq(E)
    BY <1>1, <1>5
  <2>2. /\ Joined(s)[k + 1] = Joined(s)[k] \o s[k + 1]
        /\ Joined(t)[k + 1] = Joined(t)[k] \o t[k + 1]
    <3>1. k < n /\ k < n + 1
      BY <1>1
    <3> QED
      BY <1>2, <1>3, <3>1, Zenon
  <2>3. t[k + 1] = s[k + 1] /\ s[k + 1] \in Seq(E)
    BY <1>1
  <2> QED
    BY <2>1, <2>2, <2>3, ConcatProperties
<1> HIDE DEF T
<1>6. n \in T
  BY <1>1, <1>4, <1>5, NatSetInduction
<1>7. Joined(t)[n] = Joined(s)[n] /\ Joined(s)[n] \in Seq(E)
  BY <1>1, <1>6 DEF T
<1>8. Joined(t)[n + 1] = Joined(t)[n] \o b
  <2>1. n < n + 1
    BY <1>1
  <2> QED
    BY <1>1, <1>3, <2>1, Zenon
<1> QED
  BY <1>2, <1>3, <1>7, <1>8 DEF t

-----------------------------------------------------------------------------
(* The loop of flush_pending_source_events (runtime_poll.rs:669) ends      *)
(* within the free capacity, and every event it took fitted the budget.    *)
LEMMA CutLenBounds ==
    ASSUME NEW opts, NEW q, Len(q) \in Nat, NEW available \in Nat
    PROVE  /\ CutLen(opts, q, available) \in 0..Len(q)
           /\ CutLen(opts, q, available) <= available
           /\ \A j \in 1..CutLen(opts, q, available) : Fits(opts, q, j)
<1> DEFINE limit == Least(available, Len(q))
           fits(j) == Fits(opts, q, j)
           Ends(k) == (\A j \in 1..k : fits(j)) /\ (k < limit => ~fits(k + 1))
           T == {n \in Nat : n <= limit => \A j \in 1..n : fits(j)}
<1>1. limit \in Nat /\ limit <= available /\ limit <= Len(q)
  BY DEF Least
<1>2. CutLen(opts, q, available) = CHOOSE k \in 0..limit : Ends(k)
  BY DEF CutLen
<1> HIDE DEF limit, fits
<1>3. \E k \in 0..limit : Ends(k)
  <2> SUFFICES ASSUME \A k \in 0..limit : ~Ends(k)
               PROVE  FALSE
    OBVIOUS
  <2>1. 0 \in T
    OBVIOUS
  <2>2. ASSUME NEW n \in Nat, n \in T
        PROVE  n + 1 \in T
    <3> SUFFICES ASSUME n + 1 <= limit, NEW j \in 1..(n + 1)
                 PROVE  fits(j)
      OBVIOUS
    <3>1. \A i \in 1..n : fits(i)
      BY <1>1, <2>2
    <3>2. n \in 0..limit /\ n < limit
      BY <1>1
    <3>3. fits(n + 1)
      BY <3>1, <3>2
    <3>4. j = n + 1 \/ j \in 1..n
      OBVIOUS
    <3> QED
      BY <3>1, <3>3, <3>4
  <2> HIDE DEF T
  <2>3. limit \in T
    BY <1>1, <2>1, <2>2, NatSetInduction
  <2>4. \A j \in 1..limit : fits(j)
    BY <1>1, <2>3 DEF T
  <2>5. Ends(limit)
    BY <1>1, <2>4
  <2> QED
    BY <1>1, <2>5
<1>4. CutLen(opts, q, available) \in 0..limit /\ Ends(CutLen(opts, q, available))
  <2> HIDE DEF Ends
  <2> QED
    BY <1>2, <1>3
<1> QED
  BY <1>1, <1>4 DEF fits

(* trim_to_transaction_boundary keeps a prefix of the chunk.               *)
LEMMA TrimLenBounds ==
    ASSUME NEW Q, NEW opts, NEW chunk \in Seq(Q), NEW rest
    PROVE  TrimLen(opts, chunk, rest) \in 0..Len(chunk)
<1> DEFINE others == {i \in DOMAIN chunk : chunk[i].tx # chunk[Len(chunk)].tx}
           largest == CHOOSE i \in others : \A j \in others : j <= i
<1>1. Len(chunk) \in Nat /\ others \in SUBSET (1..Len(chunk))
  OBVIOUS
<1>2. TrimLen(opts, chunk, rest) \in {Len(chunk), 0} \/ (others # {} /\ TrimLen(opts, chunk, rest) = largest)
  BY DEF TrimLen
<1>3. others # {} => largest \in others
  <2> HIDE DEF others
  <2> QED
    BY <1>1, LargestMember
<1> HIDE DEF others, largest
<1>4. others # {} => largest \in 1..Len(chunk)
  BY <1>1, <1>3
<1> QED
  BY <1>1, <1>2, <1>4

(* A batch is a prefix of the queue within both limits.                    *)
LEMMA BatchLenBounds ==
    ASSUME NEW Q, NEW opts, NEW q \in Seq(Q), NEW available \in Nat
    PROVE  /\ BatchLen(opts, q, available) \in 0..Len(q)
           /\ BatchLen(opts, q, available) <= available
           /\ BatchLen(opts, q, available) # 0 => Fits(opts, q, BatchLen(opts, q, available))
<1> DEFINE cut == CutLen(opts, q, available)
           chunk == SubSeq(q, 1, cut)
           n == BatchLen(opts, q, available)
<1>1. Len(q) \in Nat
  OBVIOUS
<1>2. cut \in 0..Len(q) /\ cut <= available /\ \A j \in 1..cut : Fits(opts, q, j)
  BY <1>1, CutLenBounds
<1>3. n = TrimLen(opts, chunk, SubSeq(q, cut + 1, Len(q)))
  BY DEF BatchLen
<1> HIDE DEF cut
<1>4. chunk \in Seq(Q) /\ Len(chunk) = cut
  BY <1>2
<1> HIDE DEF chunk, n
<1>5. n \in 0..cut
  BY <1>3, <1>4, TrimLenBounds
<1>6. n \in 0..Len(q) /\ n <= available /\ (n # 0 => Fits(opts, q, n))
  BY <1>1, <1>2, <1>5
<1> QED
  BY <1>6 DEF n

-----------------------------------------------------------------------------
(* The events the connector can hand over.                                 *)
SourceEvent == {Event(i) : i \in 1..Len(log)}

(* Everything handed over is a sequence of events, and a hand-over of k    *)
(* events continues it.                                                    *)
LEMMA EventsContinue ==
    ASSUME Len(log) \in Nat,
           NEW n \in Nat, NEW k \in Nat, n + k <= Len(log)
    PROVE  /\ Events(1, n) \in Seq(SourceEvent)
           /\ Events(n + 1, n + k) \in Seq(SourceEvent)
           /\ Events(1, n) \o Events(n + 1, n + k) = Events(1, n + k)
<1>1. \A i \in 1..Len(log) : Event(i) \in SourceEvent
  BY DEF SourceEvent
<1> DEFINE e(i) == Event(i)
<1> HIDE DEF e
<1>3. /\ Events(1, n) = [i \in 1..n |-> e(i)]
      /\ Events(1, n + k) = [i \in 1..(n + k) |-> e(i)]
      /\ Events(n + 1, n + k) = [i \in 1..k |-> e(n + i)]
  <2>1. n - 1 + 1 = n /\ (n + k) - 1 + 1 = n + k /\ (n + k) - (n + 1) + 1 = k
    OBVIOUS
  <2>2. \A i \in Nat : 1 + i - 1 = i /\ (n + 1) + i - 1 = n + i
    OBVIOUS
  <2> QED
    BY <2>1, <2>2 DEF Events, e
<1>4. \A i \in 1..(n + k) : e(i) \in SourceEvent
  BY <1>1 DEF e
<1>5. /\ [i \in 1..n |-> e(i)] \in Seq(SourceEvent)
      /\ [i \in 1..k |-> e(n + i)] \in Seq(SourceEvent)
      /\ [i \in 1..(n + k) |-> e(i)] \in Seq(SourceEvent)
  BY <1>4
<1>6. [i \in 1..n |-> e(i)] \o [i \in 1..k |-> e(n + i)] = [i \in 1..(n + k) |-> e(i)]
  <2> DEFINE a == [i \in 1..n |-> e(i)]
             b == [i \in 1..k |-> e(n + i)]
             c == [i \in 1..(n + k) |-> e(i)]
  <2>1. /\ Len(a) = n /\ Len(b) = k /\ Len(c) = n + k
        /\ \A i \in 1..n : a[i] = e(i)
        /\ \A i \in 1..k : b[i] = e(n + i)
        /\ \A i \in 1..(n + k) : c[i] = e(i)
    OBVIOUS
  <2>2. a \in Seq(SourceEvent) /\ b \in Seq(SourceEvent) /\ c \in Seq(SourceEvent)
    BY <1>5
  <2> HIDE DEF a, b, c
  <2>3. /\ a \o b \in Seq(SourceEvent)
        /\ Len(a \o b) = n + k
        /\ \A i \in 1..(n + k) : (a \o b)[i] = IF i <= n THEN a[i] ELSE b[i - n]
    BY <2>1, <2>2, ConcatProperties
  <2>4. ASSUME NEW i \in 1..(n + k)
        PROVE  (a \o b)[i] = c[i]
    <3>1. CASE i <= n
      BY <2>1, <2>3, <3>1
    <3>2. CASE ~(i <= n)
      <4>1. i - n \in 1..k /\ n + (i - n) = i
        BY <3>2
      <4>2. b[i - n] = e(i)
        BY <2>1, <4>1
      <4> QED
        BY <2>1, <2>3, <3>2, <4>2
    <3> QED
      BY <3>1, <3>2
  <2>5. a \o b = c
    BY <2>1, <2>2, <2>3, <2>4, SeqEqual
  <2> QED
    BY <2>5 DEF a, b, c
<1> QED
  BY <1>3, <1>5, <1>6

-----------------------------------------------------------------------------
(* One batch obeys both limits of the options.                             *)
WithinBudget(batch) ==
    /\ Len(batch) <= options.max_buffer_size
    /\ \/ options.max_event_bytes = NoLimit
       \/ Len(batch) = 1
       \/ ChunkBytes(batch)[Len(batch)] <= options.max_event_bytes

TypeInv ==
    /\ options \in RuntimeOptions
    /\ Len(log) \in Nat
    /\ received \in 0..Len(log)
    /\ pending_source_events \in Seq(SourceEvent)
    /\ batches \in Seq(Seq(SourceEvent))

BInv == TypeInv /\ QueueConserved /\ BatchesWithinBudget

(* Log and options are fixed, so what is defined from them stays the same. *)
LEMMA FixedByLog ==
    ASSUME UNCHANGED <<options, log>>
    PROVE  /\ SourceEvent' = SourceEvent
           /\ Events(1, received)' = Events(1, received')
           /\ \A batch : WithinBudget(batch)' <=> WithinBudget(batch)
  BY DEF SourceEvent, Events, Event, ClosesTx, WithinBudget

(* The first events of the queue, as many as BatchLen says, are a batch    *)
(* within the limits.                                                      *)
LEMMA CutWithinBudget ==
    ASSUME options \in RuntimeOptions, NEW Q, NEW queue \in Seq(Q), NEW n,
           n = BatchLen(options, queue, options.max_buffer_size), n # 0
    PROVE  WithinBudget(SubSeq(queue, 1, n))
<1>1. options.max_buffer_size \in Nat
  BY DEF RuntimeOptions
<1>2. n \in 0..Len(queue) /\ n <= options.max_buffer_size /\ Fits(options, queue, n)
  BY <1>1, BatchLenBounds
<1>3. Len(SubSeq(queue, 1, n)) = n
  BY <1>2
<1>4. ChunkBytes(SubSeq(queue, 1, n))[n] = ChunkBytes(queue)[n]
  BY <1>2, ChunkBytesOfPrefix
<1>5. n # 0
  OBVIOUS
<1> QED
  BY ONLY <1>2, <1>3, <1>4, <1>5 DEF Fits, WithinBudget

(* A flush moves the front of the queue into a batch and nothing else.     *)
LEMMA FlushKeeps ==
    ASSUME TypeInv, BatchesWithinBudget, UNCHANGED <<options, log>>,
           NEW queue \in Seq(SourceEvent), Flush(queue)
    PROVE  /\ pending_source_events' \in Seq(SourceEvent)
           /\ batches' \in Seq(Seq(SourceEvent))
           /\ Concat(batches') \o pending_source_events' = Concat(batches) \o queue
           /\ BatchesWithinBudget'
<1> DEFINE n == BatchLen(options, queue, options.max_buffer_size)
           batch == SubSeq(queue, 1, n)
           rest == SubSeq(queue, n + 1, Len(queue))
<1>1. options \in RuntimeOptions /\ options.max_buffer_size \in Nat
  BY DEF TypeInv, RuntimeOptions
<1>2. n \in 0..Len(queue) /\ Len(queue) \in Nat
  BY <1>1, BatchLenBounds
<1>3. n # 0 => WithinBudget(batch)
  BY <1>1, CutWithinBudget
<1>4. pending_source_events' = rest /\ batches' = IF n = 0 THEN batches ELSE Append(batches, batch)
  BY DEF Flush
<1> HIDE DEF n
<1>5. batch \in Seq(SourceEvent) /\ rest \in Seq(SourceEvent)
  BY <1>2
<1>6. batch \o rest = queue
  <2>1. 1 \in 1..Len(queue) + 1 /\ n \in (1 - 1)..Len(queue) /\ Len(queue) \in n..Len(queue)
    BY <1>2
  <2>2. batch \o rest = SubSeq(queue, 1, Len(queue))
    BY <2>1, ConcatAdjacentSubSeq
  <2> QED
    BY <2>2, SubSeqFull
<1>7. n = 0 => rest = queue
  <2> SUFFICES ASSUME n = 0
               PROVE  rest = queue
    OBVIOUS
  <2>1. rest = SubSeq(queue, 1, Len(queue))
    OBVIOUS
  <2> QED
    BY <2>1, SubSeqFull
<1>8. batches \in Seq(Seq(SourceEvent))
  BY DEF TypeInv
<1> HIDE DEF batch, rest
<1>9. batches' \in Seq(Seq(SourceEvent))
  BY <1>4, <1>5, <1>8
<1>10. Concat(batches') \o pending_source_events' = Concat(batches) \o queue
  <2>1. CASE n = 0
    BY <1>4, <1>7, <2>1
  <2>2. CASE n # 0
    <3>1. Concat(batches) \in Seq(SourceEvent) /\ Concat(Append(batches, batch)) = Concat(batches) \o batch
      BY <1>5, <1>8, ConcatOfAppend
    <3>2. (Concat(batches) \o batch) \o rest = Concat(batches) \o (batch \o rest)
      BY <1>5, <3>1, ConcatAssociative, SMTT(30)
    <3> QED
      BY <1>4, <1>6, <2>2, <3>1, <3>2
  <2> QED
    BY <2>1, <2>2
<1>11. BatchesWithinBudget'
  <2>1. \A b \in DOMAIN batches : WithinBudget(batches[b])
    BY DEF BatchesWithinBudget, WithinBudget
  <2>2. \A b \in DOMAIN batches' : WithinBudget(batches'[b])
    <3>1. CASE n = 0
      BY <1>4, <2>1, <3>1
    <3>2. CASE n # 0
      <4> DEFINE ok(s) == WithinBudget(s)
      <4>1. /\ batches' = Append(batches, batch)
            /\ ok(batch)
            /\ \A b \in DOMAIN batches : ok(batches[b])
        BY <1>3, <1>4, <2>1, <3>2 DEF batch
      <4> HIDE DEF ok
      <4>2. \A b \in DOMAIN batches' : ok(batches'[b])
        BY <1>5, <1>8, <4>1, AppendProperties
      <4> QED
        BY <4>2 DEF ok
    <3> QED
      BY <3>1, <3>2
  <2> QED
    BY <2>2 DEF BatchesWithinBudget, WithinBudget
<1> QED
  BY <1>4, <1>5, <1>9, <1>10, <1>11

(* The invariant holds when the runtime is built.                          *)
LEMMA InitBInv == Init => BInv
<1> SUFFICES ASSUME Init
             PROVE  BInv
  OBVIOUS
<1>1. options \in RuntimeOptions /\ log \in Seq([tx : Nat, bytes : Nat])
  BY BatchingConstants DEF Init
<1>2. /\ pending_source_events = <<>> /\ batches = <<>> /\ received = 0
  BY DEF Init
<1>3. TypeInv
  BY <1>1, <1>2 DEF TypeInv
<1>4. Concat(batches) = <<>>
  <2>1. Len(batches) = 0
    BY <1>2
  <2>2. Len(batches) \in Nat
    BY <2>1
  <2>3. Concat(batches) = Joined(batches)[Len(batches)] /\ Joined(batches)[0] = <<>>
    BY <2>2, ConcatRecursion
  <2> QED
    BY <2>1, <2>3
<1>5. Events(1, received) = <<>>
  BY <1>2 DEF Events
<1>6. QueueConserved
  BY <1>2, <1>4, <1>5 DEF QueueConserved
<1>7. BatchesWithinBudget
  BY <1>2 DEF BatchesWithinBudget
<1> QED
  BY <1>3, <1>6, <1>7 DEF BInv

(* Every poll and every acknowledgement keeps the invariant.               *)
LEMMA StepBInv == BInv /\ [Next]_vars => BInv'
<1> SUFFICES ASSUME BInv, [Next]_vars
             PROVE  BInv'
  OBVIOUS
<1>0. TypeInv /\ QueueConserved /\ BatchesWithinBudget
  BY DEF BInv
<1>1. CASE PollQueue
  <2>1. UNCHANGED <<options, log, received>> /\ Flush(pending_source_events)
    BY <1>1 DEF PollQueue
  <2>2. pending_source_events \in Seq(SourceEvent)
    BY <1>0 DEF TypeInv
  <2>3. /\ pending_source_events' \in Seq(SourceEvent)
        /\ batches' \in Seq(Seq(SourceEvent))
        /\ Concat(batches') \o pending_source_events' = Concat(batches) \o pending_source_events
        /\ BatchesWithinBudget'
    BY <1>0, <2>1, <2>2, FlushKeeps
  <2>4. SourceEvent' = SourceEvent /\ Events(1, received)' = Events(1, received)
    BY <2>1, FixedByLog
  <2>5. TypeInv'
    BY <1>0, <2>1, <2>3, <2>4 DEF TypeInv
  <2>6. QueueConserved'
    BY <1>0, <2>3, <2>4 DEF QueueConserved
  <2> QED
    BY <2>3, <2>5, <2>6 DEF BInv
<1>2. CASE \E k \in 1..MaxHandOver : PollSource(k)
  <2>1. PICK k \in 1..MaxHandOver : PollSource(k)
    BY <1>2
  <2> DEFINE more == Events(received + 1, received + k)
             queue == pending_source_events \o more
  <2>2. /\ UNCHANGED <<options, log>> /\ Flush(queue)
        /\ k \in Nat /\ received + k <= Len(log) /\ received' = received + k
    BY <2>1, BatchingConstants DEF PollSource
  <2>3. received \in Nat /\ Len(log) \in Nat /\ pending_source_events \in Seq(SourceEvent)
    BY <1>0 DEF TypeInv
  <2>4. /\ more \in Seq(SourceEvent)
        /\ Events(1, received) \o more = Events(1, received + k)
    BY <2>2, <2>3, EventsContinue
  <2> HIDE DEF more
  <2>5. queue \in Seq(SourceEvent)
    BY <2>3, <2>4, ConcatProperties
  <2>6. Concat(batches) \o queue = Events(1, received + k)
    <3>1. Concat(batches) \in Seq(SourceEvent)
      BY <1>0, EmptySeq, ConcatOfAppend DEF TypeInv
    <3> DEFINE delivered == Concat(batches)
    <3>2. delivered \in Seq(SourceEvent)
      BY <3>1
    <3> HIDE DEF delivered
    <3>3. (delivered \o pending_source_events) \o more = delivered \o (pending_source_events \o more)
      <4>1. /\ delivered \in Seq(SourceEvent)
            /\ pending_source_events \in Seq(SourceEvent)
            /\ more \in Seq(SourceEvent)
        BY <2>3, <2>4, <3>2
      <4> QED
        BY ONLY <4>1, ConcatAssociative, SMTT(30)
    <3>4. delivered \o pending_source_events = Events(1, received)
      BY <1>0 DEF QueueConserved, delivered
    <3> QED
      BY <2>4, <3>3, <3>4 DEF delivered
  <2> HIDE DEF queue
  <2>7. /\ pending_source_events' \in Seq(SourceEvent)
        /\ batches' \in Seq(Seq(SourceEvent))
        /\ Concat(batches') \o pending_source_events' = Concat(batches) \o queue
        /\ BatchesWithinBudget'
    BY <1>0, <2>2, <2>5, FlushKeeps, SMTT(30)
  <2>8. SourceEvent' = SourceEvent /\ Events(1, received)' = Events(1, received + k)
    BY <2>2, FixedByLog
  <2>9. TypeInv'
    BY <1>0, <2>2, <2>3, <2>7, <2>8 DEF TypeInv
  <2>10. QueueConserved'
    BY <2>6, <2>7, <2>8 DEF QueueConserved
  <2> QED
    BY <2>7, <2>9, <2>10 DEF BInv
<1>3. CASE (\E n \in 1..options.max_buffer_size : commit_ack(n)) \/ UNCHANGED vars
  <2>1. UNCHANGED <<options, log, pending_source_events, received, batches>>
    BY <1>3 DEF commit_ack, vars
  <2>2. SourceEvent' = SourceEvent /\ Events(1, received)' = Events(1, received)
    BY <2>1, FixedByLog
  <2>3. TypeInv'
    BY <1>0, <2>1, <2>2 DEF TypeInv
  <2>4. QueueConserved'
    BY <1>0, <2>1, <2>2 DEF QueueConserved
  <2>5. BatchesWithinBudget'
    BY <1>0, <2>1 DEF BatchesWithinBudget
  <2> QED
    BY <2>3, <2>4, <2>5 DEF BInv
<1> QED
  BY <1>1, <1>2, <1>3 DEF Next

(* Whatever the log, the options, the sizes of the hand-overs and the      *)
(* acknowledgements: the batches delivered, followed by the queue, are     *)
(* exactly what the source handed over (flush_pending_source_events and    *)
(* the push-back of trim_to_transaction_boundary, runtime_poll.rs:634).    *)
THEOREM CutsConserveTheQueue == Spec => []QueueConserved
<1>1. BInv => QueueConserved
  BY DEF BInv
<1> QED
  BY <1>1, InitBInv, StepBInv, PTL DEF Spec

(* No batch exceeds max_buffer_size, and none of several events exceeds    *)
(* max_event_bytes, for every log and every options (runtime_poll.rs:669). *)
THEOREM CutsStayWithinBudget == Spec => []BatchesWithinBudget
<1>1. BInv => BatchesWithinBudget
  BY DEF BInv
<1> QED
  BY <1>1, InitBInv, StepBInv, PTL DEF Spec
=============================================================================
