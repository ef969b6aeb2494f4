------------------------ MODULE CommitBarrierProofs ------------------------
(***************************************************************************)
(* The commit barrier is safe for every buffer size, every set of positive *)
(* acknowledgement counts and every number of faults.                      *)
(*                                                                         *)
(* CheckpointWithinAcceptance is not inductive: a save writes a position   *)
(* taken from the queue, so the invariant must say what the queue holds.   *)
(* IInv adds that the queued events are the consecutive last events handed *)
(* over, that everything before them was acknowledged, that the accepted   *)
(* records are exactly a prefix of known length, and that a suspended call *)
(* is saving a non-empty one.                                              *)
(***************************************************************************)
EXTENDS CommitBarrier, FiniteSetTheorems, SequenceTheorems, WellFoundedInduction, TLAPS

(* The accepted records of a queue are its first m. *)
AcceptedUpTo(records, m) ==
    /\ m \in 0..Len(records)
    /\ \A i \in 1..Len(records) : records[i].accepted <=> i <= m

(* A well-formed queue: the records are the last events handed over, in    *)
(* order and at their own positions, the accepted ones are a prefix, and   *)
(* the consumer acknowledged those and everything before the queue.        *)
QueueOK(records, last, acks) ==
    /\ records \in Seq(PendingRecord)
    /\ Len(records) <= MaxBufferSize
    /\ Len(records) <= last
    /\ \E m \in 0..Len(records) : AcceptedUpTo(records, m)
    /\ \A i \in 1..Len(records) :
          /\ records[i].event = (last - Len(records)) + i
          /\ records[i].offset \in {records[i].event, NoOffset}
          /\ records[i].accepted => records[i].event \in acks
    /\ 1..(last - Len(records)) \subseteq acks

RunningInv == running => QueueOK(pending_records, added, acked)

StoppedInv == ~running => pending_records = <<>> /\ call = Idle

(* What a suspended call knows about the queue it will drain or undo.      *)
CallInv ==
    /\ call.op = "none" => call = Idle
    /\ call.op # "none" =>
          LastPersistable(pending_records, CommitLen(pending_records)) # NoOffset
    /\ call.op = "accept_and_commit" =>
          AcceptedUpTo(pending_records, call.previously_accepted + call.count)

IInv ==
    /\ TypeOK
    /\ RunningInv
    /\ StoppedInv
    /\ CallInv
    /\ CheckpointWithinAcceptance

(* What the frame of a suspended accept_and_commit amounts to: undoing its *)
(* marks and taking its saved barrier state is the state before the call.  *)
RestoreInv ==
    call.op = "accept_and_commit" =>
        before = <<UndoAccepted(pending_records, call.previously_accepted, call.count),
                   call.restore_state, committed_event_count>>

-----------------------------------------------------------------------------
(* Every non-empty set of naturals below a bound has a largest element.    *)
LEMMA MaximumExists ==
    ASSUME NEW k \in Nat, NEW T \in SUBSET (1..k), T # {}
    PROVE  \E i \in T : \A j \in T : j <= i
<1> DEFINE U == {n \in Nat : k - n \in T}
<1>1. PICK t \in T : TRUE
  OBVIOUS
<1>2. k - t \in U
  OBVIOUS
<1>3. PICK x \in U : \A y \in U : ~(<<y, x>> \in OpToRel(<, Nat))
  BY <1>2, NatLessThanWellFounded, WFMin
<1>4. \A y \in U : x <= y
  <2>1. \A a, b \in Nat : a < b => <<a, b>> \in OpToRel(<, Nat)
    BY DEF OpToRel
  <2>2. \A y \in U : ~(y < x)
    BY <1>3, <2>1
  <2> QED
    BY <2>2
<1>5. k - x \in T
  OBVIOUS
<1>6. ASSUME NEW j \in T
      PROVE  j <= k - x
  <2>1. k - j \in U
    OBVIOUS
  <2> QED
    BY <1>4, <2>1
<1> QED
  BY <1>5, <1>6

(* CommitLen computes the length of the accepted prefix (take_while).      *)
LEMMA CommitLenOfPrefix ==
    ASSUME NEW r \in Seq(PendingRecord), NEW m, AcceptedUpTo(r, m)
    PROVE  CommitLen(r) = m
<1> DEFINE P(k) == /\ \A i \in 1..k : r[i].accepted
                   /\ k < Len(r) => ~r[k + 1].accepted
<1>1. m \in 0..Len(r) /\ P(m)
  BY DEF AcceptedUpTo
<1>2. \A k \in 0..Len(r) : P(k) => k = m
  BY DEF AcceptedUpTo
<1> QED
  BY <1>1, <1>2 DEF CommitLen

(* How many records an accepted prefix of length m leaves on each side.    *)
LEMMA CountsOfPrefix ==
    ASSUME NEW r \in Seq(PendingRecord), NEW m, AcceptedUpTo(r, m)
    PROVE  /\ Accepted(r) = 1..m
           /\ Unaccepted(r) = (m + 1)..Len(r)
           /\ Cardinality(Accepted(r)) = m
           /\ Cardinality(Unaccepted(r)) = Len(r) - m
<1>1. m \in 0..Len(r) /\ Len(r) \in Nat /\ DOMAIN r = 1..Len(r)
  BY DEF AcceptedUpTo
<1>2. Accepted(r) = 1..m
  BY <1>1 DEF Accepted, AcceptedUpTo
<1>3. Unaccepted(r) = (m + 1)..Len(r)
  BY <1>1 DEF Unaccepted, AcceptedUpTo
<1>4. Cardinality(1..m) = m
  BY <1>1, FS_Interval
<1>5. Cardinality((m + 1)..Len(r)) = Len(r) - m
  <2>1. m + 1 \in Int /\ Len(r) \in Int
    BY <1>1
  <2>2. Cardinality((m + 1)..Len(r)) = IF m + 1 > Len(r) THEN 0 ELSE Len(r) - (m + 1) + 1
    BY ONLY <2>1, FS_Interval
  <2> QED
    BY <1>1, <2>2
<1> QED
  BY <1>2, <1>3, <1>4, <1>5

(* A positive count marks exactly the next `count` records.                *)
LEMMA NextUnacceptedOfPrefix ==
    ASSUME NEW r \in Seq(PendingRecord), NEW m, AcceptedUpTo(r, m),
           NEW n \in Nat \ {0}, n <= Cardinality(Unaccepted(r))
    PROVE  NextUnaccepted(r, n) = (m + 1)..(m + n) /\ m + n \in 0..Len(r)
<1>1. m \in 0..Len(r) /\ Len(r) \in Nat
  BY DEF AcceptedUpTo
<1>2. Unaccepted(r) = (m + 1)..Len(r) /\ n <= Len(r) - m
  BY CountsOfPrefix
<1>3. ASSUME NEW i \in (m + 1)..Len(r)
      PROVE  Cardinality({j \in Unaccepted(r) : j <= i}) = i - m
  <2>1. {j \in Unaccepted(r) : j <= i} = (m + 1)..i
    BY <1>1, <1>2
  <2>2. m + 1 \in Int /\ i \in Int
    BY <1>1
  <2>3. Cardinality((m + 1)..i) = IF m + 1 > i THEN 0 ELSE i - (m + 1) + 1
    BY ONLY <2>2, FS_Interval
  <2>4. Cardinality({j \in Unaccepted(r) : j <= i}) = Cardinality((m + 1)..i)
    BY <2>1
  <2> QED
    BY <1>1, <2>3, <2>4
<1>4. NextUnaccepted(r, n) = {i \in (m + 1)..Len(r) : i - m <= n}
  BY <1>2, <1>3 DEF NextUnaccepted
<1> QED
  BY <1>1, <1>2, <1>4

(* Setting marks keeps the queue a queue and touches nothing else.         *)
LEMMA SetMarks ==
    ASSUME NEW r \in Seq(PendingRecord), NEW S
    PROVE  /\ WithAcceptance(r, S, TRUE) \in Seq(PendingRecord)
           /\ Len(WithAcceptance(r, S, TRUE)) = Len(r)
           /\ \A i \in 1..Len(r) :
                 /\ WithAcceptance(r, S, TRUE)[i].event = r[i].event
                 /\ WithAcceptance(r, S, TRUE)[i].offset = r[i].offset
                 /\ WithAcceptance(r, S, TRUE)[i].accepted <=> (i \in S \/ r[i].accepted)
<1> DEFINE e(i) == IF i \in S THEN [r[i] EXCEPT !.accepted = TRUE] ELSE r[i]
           w == [i \in 1..Len(r) |-> e(i)]
<1>1. Len(r) \in Nat /\ DOMAIN r = 1..Len(r) /\ \A i \in 1..Len(r) : r[i] \in PendingRecord
  BY ElementOfSeq
<1>2. \A i \in 1..Len(r) : e(i) \in PendingRecord
  BY <1>1 DEF PendingRecord
<1>3. WithAcceptance(r, S, TRUE) = w
  BY <1>1 DEF WithAcceptance
<1>4. w \in Seq(PendingRecord) /\ Len(w) = Len(r)
  BY <1>1, <1>2
<1>5. \A i \in 1..Len(r) : /\ e(i).event = r[i].event
                           /\ e(i).offset = r[i].offset
                           /\ e(i).accepted <=> (i \in S \/ r[i].accepted)
  BY <1>1 DEF PendingRecord
<1> QED
  BY <1>3, <1>4, <1>5

(* Clearing marks keeps the queue a queue and touches nothing else.        *)
LEMMA ClearMarks ==
    ASSUME NEW r \in Seq(PendingRecord), NEW S
    PROVE  /\ WithAcceptance(r, S, FALSE) \in Seq(PendingRecord)
           /\ Len(WithAcceptance(r, S, FALSE)) = Len(r)
           /\ \A i \in 1..Len(r) :
                 /\ WithAcceptance(r, S, FALSE)[i].event = r[i].event
                 /\ WithAcceptance(r, S, FALSE)[i].offset = r[i].offset
                 /\ WithAcceptance(r, S, FALSE)[i].accepted <=> (i \notin S /\ r[i].accepted)
<1> DEFINE e(i) == IF i \in S THEN [r[i] EXCEPT !.accepted = FALSE] ELSE r[i]
           w == [i \in 1..Len(r) |-> e(i)]
<1>1. Len(r) \in Nat /\ DOMAIN r = 1..Len(r) /\ \A i \in 1..Len(r) : r[i] \in PendingRecord
  BY ElementOfSeq
<1>2. \A i \in 1..Len(r) : e(i) \in PendingRecord
  BY <1>1 DEF PendingRecord
<1>3. WithAcceptance(r, S, FALSE) = w
  BY <1>1 DEF WithAcceptance
<1>4. w \in Seq(PendingRecord) /\ Len(w) = Len(r)
  BY <1>1, <1>2
<1>5. \A i \in 1..Len(r) : /\ e(i).event = r[i].event
                           /\ e(i).offset = r[i].offset
                           /\ e(i).accepted <=> (i \notin S /\ r[i].accepted)
  BY <1>1 DEF PendingRecord
<1> QED
  BY <1>3, <1>4, <1>5

(* Acknowledging n more records extends the accepted prefix by n.          *)
LEMMA MarkExtendsPrefix ==
    ASSUME NEW r \in Seq(PendingRecord), NEW m, AcceptedUpTo(r, m),
           NEW n \in Nat \ {0}, n <= Cardinality(Unaccepted(r))
    PROVE  AcceptedUpTo(MarkAccepted(r, n), m + n)
<1> DEFINE S == NextUnaccepted(r, n)
           w == WithAcceptance(r, S, TRUE)
<1>1. S = (m + 1)..(m + n) /\ m + n \in 0..Len(r)
  BY NextUnacceptedOfPrefix
<1>2. Len(w) = Len(r) /\ \A i \in 1..Len(r) : w[i].accepted <=> (i \in S \/ r[i].accepted)
  <2> HIDE DEF S
  <2> QED
    BY SetMarks
<1>3. m \in Nat /\ Len(r) \in Nat
  BY DEF AcceptedUpTo
<1> HIDE DEF S, w
<1>4. \A i \in 1..Len(r) : (i \in S \/ r[i].accepted) <=> i <= m + n
  BY <1>1, <1>3 DEF AcceptedUpTo
<1>5. AcceptedUpTo(w, m + n)
  BY <1>1, <1>2, <1>4 DEF AcceptedUpTo
<1> QED
  BY <1>5 DEF MarkAccepted, S, w

(* Undoing the marks of a call leaves a prefix again.                      *)
LEMMA UndoKeepsPrefix ==
    ASSUME NEW r \in Seq(PendingRecord), NEW p \in Nat, NEW n \in Nat,
           AcceptedUpTo(r, p + n)
    PROVE  AcceptedUpTo(UndoAccepted(r, p, n), p)
<1> DEFINE S == {i \in DOMAIN r : p < i /\ i <= p + n}
           w == WithAcceptance(r, S, FALSE)
<1>1. Len(r) \in Nat /\ DOMAIN r = 1..Len(r) /\ p + n \in 0..Len(r)
  BY DEF AcceptedUpTo
<1>2. Len(w) = Len(r) /\ \A i \in 1..Len(r) : w[i].accepted <=> (i \notin S /\ r[i].accepted)
  <2> HIDE DEF S
  <2> QED
    BY ClearMarks
<1>3. \A i \in 1..Len(r) : (i \notin S /\ r[i].accepted) <=> i <= p
  BY <1>1 DEF AcceptedUpTo
<1> HIDE DEF S, w
<1>4. AcceptedUpTo(w, p)
  BY <1>1, <1>2, <1>3 DEF AcceptedUpTo
<1> QED
  BY <1>4 DEF UndoAccepted, S, w

(* Undoing an acknowledgement that followed an accepted prefix gives the   *)
(* queue back, record by record.                                           *)
LEMMA UndoRevertsMark ==
    ASSUME NEW r \in Seq(PendingRecord), NEW m, AcceptedUpTo(r, m),
           NEW n \in Nat \ {0}, n <= Cardinality(Unaccepted(r))
    PROVE  UndoAccepted(MarkAccepted(r, n), m, n) = r
<1> DEFINE S == (m + 1)..(m + n)
           marked(i) == IF i \in S THEN [r[i] EXCEPT !.accepted = TRUE] ELSE r[i]
           w == [i \in 1..Len(r) |-> marked(i)]
<1>1. /\ Len(r) \in Nat /\ DOMAIN r = 1..Len(r) /\ m \in 0..Len(r)
      /\ \A i \in 1..Len(r) : r[i] \in PendingRecord
  BY ElementOfSeq DEF AcceptedUpTo
<1>2. NextUnaccepted(r, n) = S /\ m + n \in 0..Len(r)
  BY NextUnacceptedOfPrefix
<1>3. MarkAccepted(r, n) = w
  BY <1>1, <1>2 DEF MarkAccepted, WithAcceptance
<1>4. {i \in DOMAIN w : m < i /\ i <= m + n} = S
  BY <1>1, <1>2
<1>5. UndoAccepted(w, m, n) =
          [i \in 1..Len(r) |-> IF i \in S THEN [marked(i) EXCEPT !.accepted = FALSE] ELSE marked(i)]
  BY <1>4 DEF UndoAccepted, WithAcceptance
<1>6. ASSUME NEW i \in 1..Len(r)
      PROVE  (IF i \in S THEN [marked(i) EXCEPT !.accepted = FALSE] ELSE marked(i)) = r[i]
  <2>1. CASE i \in S
    <3>1. ~r[i].accepted
      BY <1>1, <2>1 DEF AcceptedUpTo
    <3>2. PICK e \in Nat, o \in Offset, a \in BOOLEAN : r[i] = [event |-> e, offset |-> o, accepted |-> a]
      BY <1>1 DEF PendingRecord
    <3>3. a = FALSE
      BY <3>1, <3>2
    <3> DEFINE record(b) == [event |-> e, offset |-> o, accepted |-> b]
    <3>4. r[i] = record(FALSE)
      BY <3>2, <3>3
    <3>5. \A b, c : [record(b) EXCEPT !.accepted = c] = record(c)
      OBVIOUS
    <3> HIDE DEF record
    <3>6. [record(FALSE) EXCEPT !.accepted = TRUE] = record(TRUE)
      BY ONLY <3>5, Zenon
    <3>7. [record(TRUE) EXCEPT !.accepted = FALSE] = record(FALSE)
      BY ONLY <3>5, Zenon
    <3> QED
      BY <2>1, <3>4, <3>6, <3>7
  <2>2. CASE i \notin S
    BY <2>2
  <2> QED
    BY <2>1, <2>2
<1> HIDE DEF marked, S
<1>7. UndoAccepted(w, m, n) = [i \in 1..Len(r) |-> r[i]]
  BY <1>5, <1>6
<1>8. r = [i \in 1..Len(r) |-> r[i]]
  BY <1>1
<1> QED
  BY <1>3, <1>7, <1>8, SMTT(30)

(* The position a commit saves belongs to a record of the prefix.          *)
LEMMA LastPersistableInPrefix ==
    ASSUME NEW r \in Seq(PendingRecord), NEW k \in 0..Len(r),
           LastPersistable(r, k) # NoOffset
    PROVE  \E i \in 1..k : LastPersistable(r, k) = r[i].offset /\ r[i].offset # NoOffset
<1> DEFINE T == {i \in 1..k : r[i].offset # NoOffset}
<1>1. T # {}
  BY DEF LastPersistable
<1>2. \E i \in T : \A j \in T : j <= i
  <2>1. T \in SUBSET (1..k) /\ k \in Nat
    OBVIOUS
  <2> HIDE DEF T
  <2> QED
    BY <1>1, <2>1, MaximumExists
<1>3. (CHOOSE i \in T : \A j \in T : j <= i) \in T
  BY <1>2
<1>4. LastPersistable(r, k) = r[CHOOSE i \in T : \A j \in T : j <= i].offset
  BY <1>1 DEF LastPersistable
<1> QED
  BY <1>3, <1>4

-----------------------------------------------------------------------------
(* Acknowledging the next n records keeps the queue well-formed.           *)
LEMMA MarkKeepsQueue ==
    ASSUME NEW r, NEW last \in Nat, NEW acks, QueueOK(r, last, acks),
           NEW n \in Nat \ {0}, n <= Cardinality(Unaccepted(r))
    PROVE  QueueOK(MarkAccepted(r, n), last,
                   acks \cup {r[i].event : i \in NextUnaccepted(r, n)})
<1> DEFINE S == NextUnaccepted(r, n)
           w == WithAcceptance(r, S, TRUE)
           more == acks \cup {r[i].event : i \in S}
<1>1. PICK m \in 0..Len(r) : AcceptedUpTo(r, m)
  BY DEF QueueOK
<1>2. r \in Seq(PendingRecord)
  BY DEF QueueOK
<1>3. AcceptedUpTo(w, m + n) /\ m + n \in 0..Len(w)
  <2>1. AcceptedUpTo(w, m + n)
    BY <1>1, <1>2, MarkExtendsPrefix DEF MarkAccepted
  <2> QED
    BY <2>1 DEF AcceptedUpTo
<1>4. /\ w \in Seq(PendingRecord)
      /\ Len(w) = Len(r)
      /\ \A i \in 1..Len(r) : /\ w[i].event = r[i].event
                              /\ w[i].offset = r[i].offset
                              /\ w[i].accepted <=> (i \in S \/ r[i].accepted)
  <2> HIDE DEF S
  <2> QED
    BY <1>2, SetMarks
<1> HIDE DEF w, S
<1>5. \A i \in S : r[i].event \in more
  OBVIOUS
<1>6. acks \subseteq more
  OBVIOUS
<1> HIDE DEF more
<1>7. ASSUME NEW i \in 1..Len(r), w[i].accepted
      PROVE  w[i].event \in more
  <2>1. w[i].event = r[i].event /\ (i \in S \/ r[i].accepted)
    BY <1>4, <1>7
  <2>2. r[i].accepted => r[i].event \in acks
    BY DEF QueueOK
  <2> QED
    BY <1>5, <1>6, <2>1, <2>2
<1>8. QueueOK(w, last, more)
  <2>1. /\ Len(w) <= MaxBufferSize
        /\ Len(w) <= last
        /\ 1..(last - Len(w)) \subseteq more
    BY <1>4, <1>6 DEF QueueOK
  <2>2. ASSUME NEW i \in 1..Len(w)
        PROVE  /\ w[i].event = (last - Len(w)) + i
               /\ w[i].offset \in {w[i].event, NoOffset}
    <3>1. w[i].event = r[i].event /\ w[i].offset = r[i].offset /\ Len(w) = Len(r)
      BY <1>4
    <3> QED
      BY <3>1 DEF QueueOK
  <2> QED
    BY <1>3, <1>4, <1>7, <2>1, <2>2 DEF QueueOK
<1> QED
  BY <1>8 DEF MarkAccepted, more, w, S

(* Pushing the next event keeps the queue well-formed.                     *)
LEMMA PushKeepsQueue ==
    ASSUME NEW r, NEW last \in Nat, NEW acks, QueueOK(r, last, acks),
           Len(r) < MaxBufferSize,
           NEW rec \in PendingRecord, rec.event = last + 1,
           rec.offset \in {last + 1, NoOffset}, ~rec.accepted
    PROVE  QueueOK(Append(r, rec), last + 1, acks)
<1> DEFINE q == Append(r, rec)
           next == last + 1
<1>1. r \in Seq(PendingRecord) /\ Len(r) \in Nat /\ Len(r) <= last
  BY DEF QueueOK
<1>2. /\ q \in Seq(PendingRecord)
      /\ Len(q) = Len(r) + 1
      /\ \A i \in 1..Len(r) : q[i] = r[i]
      /\ q[Len(r) + 1] = rec
  BY <1>1, AppendProperties
<1> HIDE DEF q
<1>3. PICK m \in 0..Len(r) : AcceptedUpTo(r, m)
  BY DEF QueueOK
<1>4. AcceptedUpTo(q, m) /\ m \in 0..Len(q)
  BY <1>1, <1>2, <1>3 DEF AcceptedUpTo
<1>5. next - Len(q) = last - Len(r)
  BY <1>1, <1>2
<1>6. ASSUME NEW i \in 1..Len(q)
      PROVE  /\ q[i].event = (next - Len(q)) + i
             /\ q[i].offset \in {q[i].event, NoOffset}
             /\ q[i].accepted => q[i].event \in acks
  <2>1. CASE i = Len(r) + 1
    BY <1>1, <1>2, <1>5, <2>1
  <2>2. CASE i \in 1..Len(r)
    <3>1. q[i] = r[i]
      BY <1>2, <2>2
    <3> QED
      BY <1>5, <2>2, <3>1 DEF QueueOK
  <2> QED
    BY <1>1, <1>2, <2>1, <2>2
<1>7. 1..(next - Len(q)) \subseteq acks /\ Len(q) <= next
  BY <1>1, <1>2, <1>5 DEF QueueOK
<1>8. Len(q) <= MaxBufferSize
  BY <1>1, <1>2, BarrierConstants DEF BarrierConstants
<1> HIDE DEF next
<1>9. QueueOK(q, next, acks)
  BY <1>2, <1>4, <1>6, <1>7, <1>8 DEF QueueOK
<1> QED
  BY <1>9 DEF q, next

(* Undoing a call's marks keeps the queue well-formed.                     *)
LEMMA UndoKeepsQueue ==
    ASSUME NEW r, NEW last \in Nat, NEW acks, QueueOK(r, last, acks),
           NEW p \in Nat, NEW n \in Nat, AcceptedUpTo(r, p + n)
    PROVE  QueueOK(UndoAccepted(r, p, n), last, acks)
<1> DEFINE S == {i \in DOMAIN r : p < i /\ i <= p + n}
           w == WithAcceptance(r, S, FALSE)
<1>1. r \in Seq(PendingRecord)
  BY DEF QueueOK
<1>2. AcceptedUpTo(w, p) /\ p \in 0..Len(w)
  <2>1. AcceptedUpTo(w, p)
    BY <1>1, UndoKeepsPrefix DEF UndoAccepted
  <2> QED
    BY <2>1 DEF AcceptedUpTo
<1>3. /\ w \in Seq(PendingRecord)
      /\ Len(w) = Len(r)
      /\ \A i \in 1..Len(r) : /\ w[i].event = r[i].event
                              /\ w[i].offset = r[i].offset
                              /\ w[i].accepted <=> (i \notin S /\ r[i].accepted)
  <2> HIDE DEF S
  <2>1. w \in Seq(PendingRecord) /\ Len(w) = Len(r)
    BY <1>1, ClearMarks
  <2>2. ASSUME NEW i \in 1..Len(r)
        PROVE  /\ w[i].event = r[i].event
               /\ w[i].offset = r[i].offset
               /\ w[i].accepted <=> (i \notin S /\ r[i].accepted)
    BY <1>1, ClearMarks
  <2> QED
    BY <2>1, <2>2
<1> HIDE DEF w, S
<1>4. QueueOK(w, last, acks)
  <2>1. /\ Len(w) <= MaxBufferSize
        /\ Len(w) <= last
        /\ 1..(last - Len(w)) \subseteq acks
    BY <1>3 DEF QueueOK
  <2>2. ASSUME NEW i \in 1..Len(w)
        PROVE  /\ w[i].event = (last - Len(w)) + i
               /\ w[i].offset \in {w[i].event, NoOffset}
               /\ w[i].accepted => w[i].event \in acks
    <3>1. /\ w[i].event = r[i].event
          /\ w[i].offset = r[i].offset
          /\ w[i].accepted => r[i].accepted
          /\ Len(w) = Len(r)
      BY <1>3
    <3> QED
      BY <3>1 DEF QueueOK
  <2> QED
    BY <1>2, <1>3, <2>1, <2>2 DEF QueueOK
<1> QED
  BY <1>4 DEF UndoAccepted, w, S

(* Draining the accepted prefix keeps the queue well-formed.               *)
LEMMA DrainKeepsQueue ==
    ASSUME NEW r, NEW last \in Nat, NEW acks, QueueOK(r, last, acks)
    PROVE  /\ QueueOK(Drain(r, CommitLen(r)), last, acks)
           /\ CommitLen(r) \in Nat
<1>1. PICK m \in 0..Len(r) : AcceptedUpTo(r, m)
  BY DEF QueueOK
<1>2. r \in Seq(PendingRecord) /\ Len(r) \in Nat
  BY DEF QueueOK
<1>3. CommitLen(r) = m
  BY <1>1, <1>2, CommitLenOfPrefix
<1> DEFINE d == SubSeq(r, m + 1, Len(r))
<1>4. /\ d \in Seq(PendingRecord)
      /\ Len(d) = Len(r) - m
      /\ \A i \in 1..Len(d) : d[i] = r[m + i]
  BY <1>2, SubSeqProperties
<1> HIDE DEF d
<1>5. \A i \in 1..Len(d) : m + i \in 1..Len(r) /\ ~d[i].accepted
  BY <1>1, <1>2, <1>4 DEF AcceptedUpTo
<1>6. AcceptedUpTo(d, 0)
  BY <1>4, <1>5 DEF AcceptedUpTo
<1>7. \A i \in 1..Len(d) : /\ d[i].event = (last - Len(d)) + i
                           /\ d[i].offset \in {d[i].event, NoOffset}
  BY <1>2, <1>4, <1>5 DEF QueueOK
<1>8. 1..(last - Len(d)) \subseteq acks
  <2> SUFFICES ASSUME NEW e \in 1..(last - Len(d)) PROVE e \in acks
    OBVIOUS
  <2>1. CASE e <= last - Len(r)
    BY <1>2, <2>1 DEF QueueOK
  <2>2. CASE e > last - Len(r)
    <3> DEFINE i == e - (last - Len(r))
    <3>1. i \in 1..m /\ i \in 1..Len(r) /\ (last - Len(r)) + i = e
      BY <1>2, <1>4, <2>2 DEF QueueOK
    <3> HIDE DEF i
    <3>2. r[i].accepted
      BY <1>1, <3>1 DEF AcceptedUpTo
    <3> QED
      BY <3>1, <3>2 DEF QueueOK
  <2> QED
    BY <1>2, <1>4, <2>1, <2>2 DEF QueueOK
<1>9. Len(d) <= MaxBufferSize /\ Len(d) <= last /\ 0 \in 0..Len(d)
  BY <1>2, <1>4, BarrierConstants DEF QueueOK, BarrierConstants
<1>10. QueueOK(d, last, acks)
  BY <1>4, <1>5, <1>6, <1>7, <1>8, <1>9 DEF QueueOK
<1> QED
  BY <1>3, <1>10 DEF Drain, d

(* The position a commit saves lies within what the consumer acknowledged. *)
LEMMA SavedPositionIsAcked ==
    ASSUME NEW r, NEW last \in Nat, NEW acks, QueueOK(r, last, acks),
           LastPersistable(r, CommitLen(r)) # NoOffset
    PROVE  /\ LastPersistable(r, CommitLen(r)) \in Nat
           /\ 1..LastPersistable(r, CommitLen(r)) \subseteq acks
<1>1. PICK m \in 0..Len(r) : AcceptedUpTo(r, m)
  BY DEF QueueOK
<1>2. r \in Seq(PendingRecord) /\ Len(r) \in Nat
  BY DEF QueueOK
<1>3. CommitLen(r) = m
  BY <1>1, <1>2, CommitLenOfPrefix
<1>4. PICK i \in 1..m : LastPersistable(r, m) = r[i].offset /\ r[i].offset # NoOffset
  BY <1>2, <1>3, LastPersistableInPrefix
<1> DEFINE base == last - Len(r)
<1>5. base \in Nat /\ r[i].offset = base + i
  BY <1>2, <1>4 DEF QueueOK
<1>6. ASSUME NEW e \in 1..(base + i) PROVE e \in acks
  <2>1. CASE e <= base
    <3>1. e \in 1..base
      BY <1>5, <2>1
    <3>2. 1..base \subseteq acks
      BY DEF QueueOK
    <3> QED
      BY <3>1, <3>2
  <2>2. CASE e > base
    <3>1. (e - base) \in 1..m /\ (e - base) \in 1..Len(r) /\ base + (e - base) = e
      BY <1>2, <1>5, <2>2
    <3>2. r[e - base].accepted /\ r[e - base].event = base + (e - base)
      BY <1>1, <3>1 DEF AcceptedUpTo, QueueOK
    <3> QED
      BY <3>1, <3>2 DEF QueueOK
  <2> QED
    BY <1>5, <2>1, <2>2
<1> QED
  BY <1>3, <1>4, <1>5, <1>6

-----------------------------------------------------------------------------
(* An empty barrier over an empty store satisfies the inductive invariant. *)
LEMMA InitIInv ==
    Init => IInv
<1> SUFFICES ASSUME Init PROVE IInv
  OBVIOUS
<1> USE DEF Init
<1>1. TypeOK
  <2>1. pending_records \in Seq(PendingRecord) /\ Len(pending_records) <= MaxBufferSize
    BY BarrierConstants DEF BarrierConstants
  <2>2. call \in [op : {"none", "accept_and_commit", "commit"}, count : Nat,
                  previously_accepted : Nat, restore_state : BarrierState]
    BY DEF Idle, BarrierState
  <2> QED
    BY <2>1, <2>2 DEF TypeOK, BarrierState
<1>2. RunningInv /\ StoppedInv /\ CallInv /\ CheckpointWithinAcceptance
  BY DEF RunningInv, StoppedInv, CallInv, CheckpointWithinAcceptance, Idle
<1> QED
  BY <1>1, <1>2 DEF IInv

(* The record a suspended call is saving stays within acceptance.          *)
LEMMA SavedRecordIsAcked ==
    ASSUME IInv, call.op # "none"
    PROVE  /\ SavedRecord \in [offset : Nat, count : Nat]
           /\ 1..SavedRecord.offset \subseteq acked
           /\ running
<1>1. running
  BY DEF IInv, StoppedInv, Idle
<1>2. QueueOK(pending_records, added, acked) /\ added \in Nat
  BY <1>1 DEF IInv, RunningInv, TypeOK
<1>3. LastPersistable(pending_records, CommitLen(pending_records)) # NoOffset
  BY DEF IInv, CallInv
<1>4. /\ LastPersistable(pending_records, CommitLen(pending_records)) \in Nat
      /\ 1..LastPersistable(pending_records, CommitLen(pending_records)) \subseteq acked
  BY <1>2, <1>3, SavedPositionIsAcked
<1>5. CommitLen(pending_records) \in Nat
  BY <1>2, DrainKeepsQueue
<1>6. committed_event_count \in Nat
  BY DEF IInv, TypeOK
<1> QED
  BY <1>1, <1>4, <1>5, <1>6 DEF SavedRecord

(* Whatever a save leaves behind, the durable position is acknowledged.    *)
LEMMA DurableStaysAcked ==
    ASSUME IInv, acked' = acked,
           \/ durable' = durable
           \/ call.op # "none" /\ durable' = SavedRecord
    PROVE  CheckpointWithinAcceptance' /\ durable' \in [offset : Nat, count : Nat]
<1>1. CASE durable' = durable
  BY <1>1 DEF IInv, TypeOK, CheckpointWithinAcceptance
<1>2. CASE call.op # "none" /\ durable' = SavedRecord
  BY <1>2, SavedRecordIsAcked DEF CheckpointWithinAcceptance
<1> QED
  BY <1>1, <1>2

(* Settling a well-formed queue leaves a well-formed queue.                *)
LEMMA SettleKeepsQueue ==
    ASSUME NEW r, NEW last \in Nat, NEW acks, QueueOK(r, last, acks),
           TypeOK, Settle(r)
    PROVE  /\ QueueOK(pending_records', last, acks)
           /\ committed_event_count' \in Nat
           /\ barrier_state' \in BarrierState
<1>1. QueueOK(Drain(r, CommitLen(r)), last, acks) /\ CommitLen(r) \in Nat
  BY DrainKeepsQueue
<1> QED
  BY <1>1 DEF Settle, TypeOK, BarrierState

(* The three ways commit can leave its first half, on any queue that the   *)
(* call's marks were applied to.                                           *)
LEMMA StartCommitKeeps ==
    ASSUME IInv, call.op = "none", running,
           NEW op \in {"accept_and_commit", "commit"}, NEW n \in Nat, NEW r,
           QueueOK(r, added, acked'),
           StartCommit(op, n, r),
           r = <<>> => pending_records = <<>>,
           op = "accept_and_commit" =>
               AcceptedUpTo(r, Cardinality(Accepted(pending_records)) + n),
           Cardinality(Accepted(pending_records)) \in Nat
    PROVE  /\ QueueOK(pending_records', added, acked')
           /\ CallInv'
           /\ committed_event_count' \in Nat
           /\ barrier_state' \in BarrierState
           /\ call' \in [op : {"none", "accept_and_commit", "commit"}, count : Nat,
                         previously_accepted : Nat, restore_state : BarrierState]
<1>0. TypeOK /\ added \in Nat /\ call = Idle
  BY DEF IInv, TypeOK, CallInv
<1>1. CASE /\ r = <<>>
           /\ barrier_state' = "Committed"
           /\ UNCHANGED <<pending_records, committed_event_count, call, before>>
  BY <1>0, <1>1 DEF TypeOK, BarrierState, CallInv
<1>2. CASE Settle(r) /\ UNCHANGED <<call, before>>
  <2>1. /\ QueueOK(pending_records', added, acked')
        /\ committed_event_count' \in Nat
        /\ barrier_state' \in BarrierState
    BY <1>0, <1>2, SettleKeepsQueue
  <2> QED
    BY <1>0, <1>2, <2>1 DEF TypeOK, CallInv
<1>3. CASE /\ LastPersistable(r, CommitLen(r)) # NoOffset
           /\ pending_records' = r
           /\ barrier_state' = "Flushing"
           /\ call' = [op                  |-> op,
                       count               |-> n,
                       previously_accepted |-> Cardinality(Accepted(pending_records)),
                       restore_state       |-> barrier_state]
           /\ UNCHANGED committed_event_count
  BY <1>0, <1>3 DEF TypeOK, BarrierState, CallInv
<1> QED
  BY <1>1, <1>2, <1>3 DEF StartCommit

(* A positive acknowledgement: the marks, and the history that follows.    *)
LEMMA AcknowledgementKeepsQueue ==
    ASSUME IInv, running, NEW n \in Nat \ {0}, n <= Cardinality(Unaccepted(pending_records)),
           acked' = acked \cup
               (IF n = 0 THEN {} ELSE EventsAt(NextUnaccepted(pending_records, n)))
    PROVE  /\ QueueOK(MarkAccepted(pending_records, n), added, acked')
           /\ AcceptedUpTo(MarkAccepted(pending_records, n),
                           Cardinality(Accepted(pending_records)) + n)
           /\ Cardinality(Accepted(pending_records)) \in Nat
           /\ Len(MarkAccepted(pending_records, n)) = Len(pending_records)
           /\ acked' \subseteq Nat
           /\ CheckpointWithinAcceptance => 1..durable.offset \subseteq acked'
<1>1. /\ QueueOK(pending_records, added, acked)
      /\ added \in Nat
      /\ acked \subseteq Nat
      /\ pending_records \in Seq(PendingRecord)
  BY DEF IInv, RunningInv, TypeOK
<1> DEFINE more == {pending_records[i].event : i \in NextUnaccepted(pending_records, n)}
<1>2. acked' = acked \cup more
  BY DEF EventsAt
<1>3. QueueOK(MarkAccepted(pending_records, n), added, acked')
  BY <1>1, <1>2, MarkKeepsQueue
<1>4. PICK m \in 0..Len(pending_records) : AcceptedUpTo(pending_records, m)
  BY <1>1 DEF QueueOK
<1>5. Cardinality(Accepted(pending_records)) = m
  BY <1>1, <1>4, CountsOfPrefix
<1>6. AcceptedUpTo(MarkAccepted(pending_records, n), m + n)
  BY <1>1, <1>4, MarkExtendsPrefix
<1>7. Len(MarkAccepted(pending_records, n)) = Len(pending_records)
  BY <1>1, SetMarks DEF MarkAccepted
<1>8. more \subseteq Nat
  <2>1. \A i \in 1..Len(pending_records) : pending_records[i].event \in Nat
    <3>1. \A i \in 1..Len(pending_records) : pending_records[i] \in PendingRecord
      BY <1>1, ElementOfSeq
    <3> QED
      BY <3>1 DEF PendingRecord
  <2>2. NextUnaccepted(pending_records, n) \subseteq 1..Len(pending_records)
    BY <1>1, <1>4, NextUnacceptedOfPrefix
  <2> QED
    BY <2>1, <2>2
<1>9. CheckpointWithinAcceptance => 1..durable.offset \subseteq acked'
  BY <1>2 DEF CheckpointWithinAcceptance
<1> HIDE DEF more
<1>10. acked' \subseteq Nat
  BY <1>1, <1>2, <1>8
<1> QED
  BY <1>3, <1>4, <1>5, <1>6, <1>7, <1>9, <1>10

(* A failed save puts a well-formed, idle barrier back.                    *)
LEMMA RollBackKeeps ==
    ASSUME IInv, call.op # "none", RollBack
    PROVE  /\ QueueOK(pending_records', added, acked)
           /\ call' = Idle
           /\ barrier_state' \in BarrierState
           /\ committed_event_count' \in Nat
           /\ running
<1>1. running /\ TypeOK /\ added \in Nat
  BY SavedRecordIsAcked DEF IInv, TypeOK
<1>2. QueueOK(pending_records, added, acked)
  BY <1>1 DEF IInv, RunningInv
<1>3. QueueOK(pending_records', added, acked)
  <2>1. CASE call.op = "accept_and_commit"
    <3>1. AcceptedUpTo(pending_records, call.previously_accepted + call.count)
      BY <2>1 DEF IInv, CallInv
    <3>2. call.previously_accepted \in Nat /\ call.count \in Nat
      BY <1>1 DEF TypeOK
    <3> QED
      BY <1>1, <1>2, <2>1, <3>1, <3>2, UndoKeepsQueue DEF RollBack
  <2>2. CASE call.op # "accept_and_commit"
    BY <1>2, <2>2 DEF RollBack
  <2> QED
    BY <2>1, <2>2
<1> QED
  BY <1>1, <1>3 DEF RollBack, TypeOK

(* Every step preserves the inductive invariant.                           *)
LEMMA StepIInv ==
    ASSUME 0 \notin EventCounts, IInv, [Next]_vars
    PROVE  IInv'
<1> USE DEF IInv
<1>0. /\ TypeOK
      /\ added \in Nat
      /\ running => QueueOK(pending_records, added, acked)
      /\ acked \subseteq Nat
  BY DEF TypeOK, RunningInv
<1> DEFINE CallType == [op : {"none", "accept_and_commit", "commit"}, count : Nat,
                        previously_accepted : Nat, restore_state : BarrierState]
<1>idle. Idle \in CallType /\ Idle.op = "none"
  BY DEF Idle, BarrierState
<1>empty. /\ <<>> \in Seq(PendingRecord)
          /\ Len(<<>>) = 0
          /\ 0 <= MaxBufferSize
  BY BarrierConstants DEF BarrierConstants
<1>1. CASE hydrate_committed_event_count
  <2> USE <1>1 DEF hydrate_committed_event_count
  <2>1. TypeOK'
    BY <1>0 DEF TypeOK
  <2>2. QueueOK(<<>>, durable.offset, acked)
    <3>1. AcceptedUpTo(<<>>, 0)
      BY <1>empty DEF AcceptedUpTo
    <3> QED
      BY <1>0, <1>empty, <3>1 DEF QueueOK, TypeOK, CheckpointWithinAcceptance
  <2> QED
    BY <2>1, <2>2 DEF RunningInv, StoppedInv, CallInv, CheckpointWithinAcceptance
<1>2. CASE \E persistent \in BOOLEAN : push_record(persistent)
  <2>1. PICK persistent \in BOOLEAN : push_record(persistent)
    BY <1>2
  <2> DEFINE rec == [event    |-> added + 1,
                     offset   |-> IF persistent THEN added + 1 ELSE NoOffset,
                     accepted |-> FALSE]
             q == Append(pending_records, rec)
  <2> USE <2>1 DEF push_record
  <2>2. QueueOK(pending_records, added, acked) /\ Len(pending_records) < MaxBufferSize
    BY <1>0
  <2>3. rec \in PendingRecord
    BY <1>0 DEF PendingRecord, Offset, NoOffset
  <2>4. rec.event = added + 1 /\ rec.offset \in {added + 1, NoOffset} /\ ~rec.accepted
    OBVIOUS
  <2>5. QueueOK(q, added + 1, acked)
    <3> HIDE DEF rec
    <3> QED
      BY <1>0, <2>2, <2>3, <2>4, PushKeepsQueue
  <2>6. /\ pending_records' = q
        /\ UNCHANGED <<call, durable, running, acked, faults, committed_event_count>>
        /\ added' = added + 1
        /\ barrier_state' = "Open"
        /\ call.op = "none"
        /\ running
    OBVIOUS
  <2> HIDE <2>1 DEF q, push_record
  <2>7. TypeOK'
    BY <1>0, <2>5, <2>6 DEF TypeOK, QueueOK, BarrierState
  <2>8. RunningInv' /\ StoppedInv' /\ CallInv'
    BY <2>5, <2>6 DEF RunningInv, StoppedInv, CallInv
  <2>9. CheckpointWithinAcceptance'
    BY <2>6 DEF CheckpointWithinAcceptance
  <2> QED
    BY <2>7, <2>8, <2>9
<1>3. CASE \E count \in EventCounts : notify_consumer_accepted(count)
  <2>1. PICK n \in EventCounts : notify_consumer_accepted(n)
    BY <1>3
  <2>2. n \in Nat \ {0}
    BY BarrierConstants DEF BarrierConstants
  <2>3. /\ running /\ call.op = "none"
        /\ n <= Cardinality(Unaccepted(pending_records))
        /\ pending_records' = MarkAccepted(pending_records, n)
        /\ acked' = acked \cup
               (IF n = 0 THEN {} ELSE EventsAt(NextUnaccepted(pending_records, n)))
        /\ UNCHANGED <<barrier_state, committed_event_count, call, durable, added, running, faults>>
    BY <2>1 DEF notify_consumer_accepted
  <2>4. QueueOK(pending_records', added, acked') /\ acked' \subseteq Nat /\ CheckpointWithinAcceptance'
    BY <2>2, <2>3, AcknowledgementKeepsQueue DEF CheckpointWithinAcceptance
  <2>5. TypeOK'
    BY <1>0, <2>3, <2>4 DEF TypeOK, QueueOK
  <2>6. RunningInv' /\ StoppedInv' /\ CallInv'
    BY <2>3, <2>4 DEF RunningInv, StoppedInv, CallInv
  <2> QED
    BY <2>4, <2>5, <2>6
<1>4. CASE \E count \in EventCounts : accept_and_commit(count)
  <2>1. PICK n \in EventCounts : accept_and_commit(n)
    BY <1>4
  <2>2. n \in Nat \ {0}
    BY BarrierConstants DEF BarrierConstants
  <2> DEFINE r == MarkAccepted(pending_records, n)
  <2>3. /\ running /\ call.op = "none"
        /\ n <= Cardinality(Unaccepted(pending_records))
        /\ StartCommit("accept_and_commit", n, r)
        /\ acked' = acked \cup
               (IF n = 0 THEN {} ELSE EventsAt(NextUnaccepted(pending_records, n)))
        /\ UNCHANGED <<durable, added, running, faults>>
    BY <2>1 DEF accept_and_commit
  <2>4. /\ QueueOK(r, added, acked')
        /\ AcceptedUpTo(r, Cardinality(Accepted(pending_records)) + n)
        /\ Cardinality(Accepted(pending_records)) \in Nat
        /\ Len(r) = Len(pending_records)
        /\ acked' \subseteq Nat
        /\ CheckpointWithinAcceptance'
    BY <2>2, <2>3, AcknowledgementKeepsQueue DEF CheckpointWithinAcceptance
  <2> HIDE DEF r
  <2>5. r = <<>> => pending_records = <<>>
    <3>1. pending_records \in Seq(PendingRecord)
      BY <1>0 DEF TypeOK
    <3> QED
      BY <2>4, <3>1, <1>empty
  <2>6. /\ QueueOK(pending_records', added, acked')
        /\ CallInv'
        /\ committed_event_count' \in Nat
        /\ barrier_state' \in BarrierState
        /\ call' \in CallType
    BY <2>2, <2>3, <2>4, <2>5, StartCommitKeeps
  <2>7. TypeOK'
    BY <1>0, <2>3, <2>4, <2>6 DEF TypeOK, QueueOK
  <2>8. RunningInv' /\ StoppedInv'
    BY <2>3, <2>6 DEF RunningInv, StoppedInv
  <2> QED
    BY <2>4, <2>6, <2>7, <2>8
<1>5. CASE commit
  <2>1. /\ running /\ call.op = "none"
        /\ StartCommit("commit", 0, pending_records)
        /\ UNCHANGED <<durable, added, running, acked, faults>>
    BY <1>5 DEF commit
  <2>2. QueueOK(pending_records, added, acked')
    BY <1>0, <2>1
  <2>3. Cardinality(Accepted(pending_records)) \in Nat
    <3>1. PICK m \in 0..Len(pending_records) : AcceptedUpTo(pending_records, m)
      BY <2>2 DEF QueueOK
    <3>2. pending_records \in Seq(PendingRecord)
      BY <1>0 DEF TypeOK
    <3> QED
      BY <3>1, <3>2, CountsOfPrefix
  <2>4. /\ QueueOK(pending_records', added, acked')
        /\ CallInv'
        /\ committed_event_count' \in Nat
        /\ barrier_state' \in BarrierState
        /\ call' \in CallType
    BY <2>1, <2>2, <2>3, StartCommitKeeps
  <2>5. TypeOK'
    BY <1>0, <2>1, <2>4 DEF TypeOK, QueueOK
  <2>6. RunningInv' /\ StoppedInv' /\ CheckpointWithinAcceptance'
    BY <2>1, <2>4 DEF RunningInv, StoppedInv, CheckpointWithinAcceptance
  <2> QED
    BY <2>4, <2>5, <2>6
<1>6. CASE SaveSucceeds
  <2>1. /\ call.op # "none"
        /\ durable' = SavedRecord
        /\ Settle(pending_records)
        /\ call' = Idle
        /\ UNCHANGED <<added, running, acked, faults>>
    BY <1>6 DEF SaveSucceeds
  <2>2. CheckpointWithinAcceptance' /\ durable' \in [offset : Nat, count : Nat] /\ running
    BY <2>1, DurableStaysAcked, SavedRecordIsAcked
  <2>3. /\ QueueOK(pending_records', added, acked)
        /\ committed_event_count' \in Nat
        /\ barrier_state' \in BarrierState
    BY <1>0, <2>1, <2>2, SettleKeepsQueue
  <2>4. TypeOK'
    BY <1>0, <1>idle, <2>1, <2>2, <2>3 DEF TypeOK, QueueOK
  <2>5. RunningInv' /\ StoppedInv' /\ CallInv'
    BY <1>idle, <2>1, <2>2, <2>3 DEF RunningInv, StoppedInv, CallInv
  <2> QED
    BY <2>2, <2>4, <2>5
<1>7. CASE SaveFails \/ SaveRefused
  <2>1. /\ call.op # "none"
        /\ RollBack
        /\ durable' = durable \/ durable' = SavedRecord
        /\ UNCHANGED <<added, running, acked>>
        /\ faults' \in Nat
    BY <1>0, <1>7 DEF SaveFails, SaveRefused, TypeOK
  <2>2. CheckpointWithinAcceptance' /\ durable' \in [offset : Nat, count : Nat]
    BY <2>1, DurableStaysAcked
  <2>3. /\ QueueOK(pending_records', added, acked)
        /\ call' = Idle
        /\ barrier_state' \in BarrierState
        /\ committed_event_count' \in Nat
        /\ running
    BY <2>1, RollBackKeeps
  <2>4. TypeOK'
    BY <1>0, <1>idle, <2>1, <2>2, <2>3 DEF TypeOK, QueueOK
  <2>5. RunningInv' /\ StoppedInv' /\ CallInv'
    BY <1>idle, <2>1, <2>3 DEF RunningInv, StoppedInv, CallInv
  <2> QED
    BY <2>2, <2>4, <2>5
<1>8. CASE CallDropped
  <2>1. /\ call.op # "none"
        /\ durable' = durable \/ durable' = SavedRecord
        /\ call' = Idle
        /\ UNCHANGED <<pending_records, barrier_state, committed_event_count,
                       added, running, acked>>
        /\ faults' \in Nat
    BY <1>0, <1>8 DEF CallDropped, TypeOK, barrierVars
  <2>2. CheckpointWithinAcceptance' /\ durable' \in [offset : Nat, count : Nat] /\ running
    BY <2>1, DurableStaysAcked, SavedRecordIsAcked
  <2>3. TypeOK'
    BY <1>0, <1>idle, <2>1, <2>2 DEF TypeOK
  <2>4. RunningInv' /\ StoppedInv' /\ CallInv'
    BY <1>idle, <2>1, <2>2 DEF RunningInv, StoppedInv, CallInv
  <2> QED
    BY <2>2, <2>3, <2>4
<1>9. CASE clear_pending \/ RunEnds
  <2>1. /\ call.op = "none" /\ running
        /\ pending_records' = <<>>
        /\ barrier_state' \in BarrierState
        /\ running' = FALSE
        /\ UNCHANGED <<committed_event_count, call, durable, added, acked, faults>>
    BY <1>0, <1>9 DEF clear_pending, RunEnds, barrierVars, TypeOK, BarrierState
  <2>2. TypeOK'
    BY <1>0, <1>empty, <2>1 DEF TypeOK
  <2>3. RunningInv' /\ CallInv' /\ CheckpointWithinAcceptance'
    BY <2>1 DEF RunningInv, CallInv, CheckpointWithinAcceptance
  <2>4. StoppedInv'
    BY <2>1 DEF StoppedInv, CallInv
  <2> QED
    BY <2>2, <2>3, <2>4
<1>10. CASE ProcessRestarts
  <2>1. /\ \/ durable' = durable
           \/ call.op # "none" /\ durable' = SavedRecord
        /\ pending_records' = <<>>
        /\ barrier_state' = "Open"
        /\ committed_event_count' = 0
        /\ call' = Idle
        /\ running' = FALSE
        /\ UNCHANGED <<added, acked>>
        /\ faults' \in Nat
    BY <1>0, <1>10 DEF ProcessRestarts, TypeOK
  <2>2. CheckpointWithinAcceptance' /\ durable' \in [offset : Nat, count : Nat]
    BY <2>1, DurableStaysAcked
  <2>3. TypeOK'
    BY <1>0, <1>idle, <1>empty, <2>1, <2>2 DEF TypeOK, BarrierState
  <2>4. RunningInv' /\ StoppedInv' /\ CallInv'
    BY <1>idle, <2>1 DEF RunningInv, StoppedInv, CallInv
  <2> QED
    BY <2>2, <2>3, <2>4
<1>11. CASE UNCHANGED vars
  BY <1>11 DEF vars, barrierVars, TypeOK, RunningInv, StoppedInv, CallInv, CheckpointWithinAcceptance
<1> QED
  BY <1>1, <1>2, <1>3, <1>4, <1>5, <1>6, <1>7, <1>8, <1>9, <1>10, <1>11 DEF Next

-----------------------------------------------------------------------------
(* The inductive invariant holds of every reachable state.                 *)
THEOREM InductiveInvariant ==
    ASSUME 0 \notin EventCounts
    PROVE  Spec => []IInv
<1>1. Init => IInv
  BY InitIInv
<1>2. IInv /\ [Next]_vars => IInv'
  BY StepIInv
<1> QED
  BY <1>1, <1>2, PTL DEF Spec

(* Every reachable state of the barrier is well-typed and the queue never  *)
(* exceeds max_buffer_size (push_record, barrier.rs:123).                  *)
THEOREM TypeCorrect ==
    ASSUME 0 \notin EventCounts
    PROVE  Spec => []TypeOK
<1>1. IInv => TypeOK
  BY DEF IInv
<1> QED
  BY <1>1, InductiveInvariant, PTL

(* No checkpoint passes an event the consumer did not accept, for every    *)
(* buffer size, every set of positive acknowledgement counts and any       *)
(* number of failed saves, dropped futures, forced clears and crashes      *)
(* (commit, barrier.rs:234).                                               *)
THEOREM NoCheckpointBeforeAcceptance ==
    ASSUME 0 \notin EventCounts
    PROVE  Spec => []CheckpointWithinAcceptance
<1>1. IInv => CheckpointWithinAcceptance
  BY DEF IInv
<1> QED
  BY <1>1, InductiveInvariant, PTL

(* The acceptance marks form a prefix of the queue in every reachable      *)
(* state, so the undo of accept_and_commit clears its own marks and no     *)
(* others (barrier.rs:172).                                                *)
THEOREM MarksFormAPrefix ==
    ASSUME 0 \notin EventCounts
    PROVE  Spec => []AcceptanceIsAPrefix
<1>1. IInv => AcceptanceIsAPrefix
  <2> SUFFICES ASSUME IInv,
                      NEW i \in DOMAIN pending_records, NEW j \in DOMAIN pending_records,
                      i <= j, pending_records[j].accepted
               PROVE  pending_records[i].accepted
    BY DEF AcceptanceIsAPrefix
  <2>1. CASE running
    <3>1. PICK m \in 0..Len(pending_records) : AcceptedUpTo(pending_records, m)
      BY <2>1 DEF IInv, RunningInv, QueueOK
    <3>2. DOMAIN pending_records = 1..Len(pending_records)
      BY DEF IInv, TypeOK
    <3> QED
      BY <3>1, <3>2 DEF AcceptedUpTo
  <2>2. CASE ~running
    BY <2>2 DEF IInv, StoppedInv
  <2> QED
    BY <2>1, <2>2
<1> QED
  BY <1>1, InductiveInvariant, PTL

(* The frame of accept_and_commit describes the undo of its own marks from *)
(* the moment it suspends (barrier.rs:161) to the end of the save.         *)
LEMMA StepRestoreInv ==
    ASSUME 0 \notin EventCounts, IInv, RestoreInv, [Next]_vars
    PROVE  RestoreInv'
<1>1. CASE \E count \in EventCounts : accept_and_commit(count)
  <2>1. PICK count \in EventCounts : accept_and_commit(count)
    BY <1>1
  <2> DEFINE records == MarkAccepted(pending_records, count)
  <2>2. /\ running /\ call.op = "none"
        /\ count \in Nat \ {0}
        /\ count <= Cardinality(Unaccepted(pending_records))
        /\ StartCommit("accept_and_commit", count, records)
    BY <2>1, BarrierConstants DEF accept_and_commit
  <2>3. CASE call' = call
    BY <2>2, <2>3 DEF RestoreInv
  <2>4. CASE call' # call
    <3>1. /\ pending_records' = records
          /\ call' = [op                  |-> "accept_and_commit",
                      count               |-> count,
                      previously_accepted |-> Cardinality(Accepted(pending_records)),
                      restore_state       |-> barrier_state]
          /\ before' = <<pending_records, barrier_state, committed_event_count>>
          /\ committed_event_count' = committed_event_count
      <4> HIDE DEF records
      <4> QED
        BY <2>2, <2>4 DEF StartCommit, barrierVars
    <3>2. PICK m \in 0..Len(pending_records) : AcceptedUpTo(pending_records, m)
      BY <2>2 DEF IInv, RunningInv, QueueOK
    <3>3. pending_records \in Seq(PendingRecord)
      BY DEF IInv, TypeOK
    <3>4. Cardinality(Accepted(pending_records)) = m
      BY <3>2, <3>3, CountsOfPrefix
    <3>5. UndoAccepted(records, m, count) = pending_records
      BY <2>2, <3>2, <3>3, UndoRevertsMark
    <3> HIDE DEF records
    <3> QED
      BY <3>1, <3>4, <3>5 DEF RestoreInv
  <2> QED
    BY <2>3, <2>4
<1>2. CASE commit
  <2>1. call.op = "none" /\ (call' = call \/ call'.op = "commit")
    BY <1>2 DEF commit, StartCommit
  <2> QED
    BY <2>1 DEF RestoreInv
<1>3. CASE SaveSucceeds \/ SaveFails \/ SaveRefused \/ CallDropped \/ ProcessRestarts
  <2>1. call' = Idle
    BY <1>3 DEF SaveSucceeds, SaveFails, SaveRefused, RollBack, CallDropped, ProcessRestarts
  <2> QED
    BY <2>1 DEF RestoreInv, Idle
<1>4. CASE \/ \E persistent \in BOOLEAN : push_record(persistent)
           \/ \E count \in EventCounts : notify_consumer_accepted(count)
           \/ clear_pending
           \/ RunEnds
  <2>1. call.op = "none" /\ call' = call
    BY <1>4 DEF push_record, notify_consumer_accepted, clear_pending, RunEnds
  <2> QED
    BY <2>1 DEF RestoreInv
<1>5. CASE hydrate_committed_event_count
  <2>1. call' = Idle
    BY <1>5 DEF hydrate_committed_event_count, IInv, StoppedInv
  <2> QED
    BY <2>1 DEF RestoreInv, Idle
<1>6. CASE UNCHANGED vars
  BY <1>6 DEF vars, barrierVars, RestoreInv
<1> QED
  BY <1>1, <1>2, <1>3, <1>4, <1>5, <1>6 DEF Next

(* A failed or refused save of accept_and_commit leaves the barrier exactly *)
(* as the call found it: marks, barrier state and committed count, for     *)
(* every queue and every history of partial acknowledgements, dropped      *)
(* futures and crashes (accept_and_commit, barrier.rs:171).                *)
THEOREM FailedCallsLeaveNoTrace ==
    ASSUME 0 \notin EventCounts
    PROVE  Spec => FailedCallRestores
<1>1. Init => RestoreInv
  BY DEF Init, RestoreInv, Idle
<1>2. IInv /\ RestoreInv /\ [Next]_vars => RestoreInv'
  BY StepRestoreInv
<1>3. RestoreInv /\ [Next]_vars =>
          [SaveFails \/ SaveRefused =>
              (call.op = "accept_and_commit" => barrierVars' = before)]_vars
  BY DEF RestoreInv, SaveFails, SaveRefused, RollBack, barrierVars
<1> QED
  BY <1>1, <1>2, <1>3, InductiveInvariant, PTL DEF Spec, FailedCallRestores
=============================================================================
