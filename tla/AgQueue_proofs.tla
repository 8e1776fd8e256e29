--------------------------- MODULE AgQueue_proofs ---------------------------
(***************************************************************************)
(* What the tail queue operations of AgQueue preserve and return, for      *)
(* queues of any length (their entries, the absence of repeats, the        *)
(* order): the lemmas on which the proofs about the modules that keep      *)
(* their entries in such queues rest.  At the end, induction on numbers,   *)
(* and functions on 0..n that are defined step by step.                    *)
(***************************************************************************)
EXTENDS AgQueue, TLAPS, SequenceTheorems, WellFoundedInduction

\* The position of an entry that is queued is one at which it is found.
LEMMA PosProperties ==
  ASSUME NEW S, NEW q \in Seq(S), NEW e \in Entries(q)
  PROVE  Pos(q, e) \in 1..Len(q) /\ q[Pos(q, e)] = e
<1>1. \E i \in DOMAIN q : q[i] = e  BY DEF Entries
<1> QED  BY <1>1, LenProperties DEF Pos

\* The entries of a queue are elements of the set it is a queue of.
LEMMA EntriesType ==
  ASSUME NEW S, NEW q \in Seq(S)
  PROVE  /\ Entries(q) \subseteq S
         /\ Entries(q) = {q[i] : i \in 1..Len(q)}
         /\ q = << >> <=> Entries(q) = {}
<1>1. DOMAIN q = 1..Len(q)  BY LenProperties
<1>2. Entries(q) \subseteq S  BY <1>1, ElementOfSeq DEF Entries
<1>3. q # << >> => 1 \in 1..Len(q)  BY EmptySeq, LenProperties
<1>4. q = << >> => 1..Len(q) = {}  BY EmptySeq
<1> QED  BY <1>1, <1>2, <1>3, <1>4 DEF Entries

\* AG_TAILQ_FIRST and AG_TAILQ_NEXT return an entry, or nil.
LEMMA TailqFirstNext ==
  ASSUME NEW S, NEW nil, NEW q \in Seq(S)
  PROVE  /\ TailqFirst(q, nil) \in S \cup {nil}
         /\ q # << >> => TailqFirst(q, nil) \in S
         /\ \A e \in Entries(q) : TailqNext(q, e, nil) \in S \cup {nil}
<1>1. q # << >> => 1 \in 1..Len(q)  BY EmptySeq, LenProperties
<1>2. q # << >> => TailqFirst(q, nil) \in S  BY <1>1, ElementOfSeq DEF TailqFirst
<1>3. TailqFirst(q, nil) \in S \cup {nil}  BY <1>2 DEF TailqFirst
<1>4. ASSUME NEW e \in Entries(q)
      PROVE  TailqNext(q, e, nil) \in S \cup {nil}
  <2>1. CASE Pos(q, e) = Len(q)  BY <2>1 DEF TailqNext
  <2>2. CASE Pos(q, e) # Len(q)
    <3>1. Pos(q, e) + 1 \in 1..Len(q)  BY <2>2, PosProperties, LenProperties
    <3> QED  BY <2>2, <3>1, ElementOfSeq DEF TailqNext
  <2> QED  BY <2>1, <2>2
<1> QED  BY <1>2, <1>3, <1>4

\* AG_TAILQ_FIRST of a queue that is not empty, and AG_TAILQ_NEXT of an entry that
\* is not the last, are entries of the queue; the latter is another one.
LEMMA FirstNextQueued ==
  ASSUME NEW S, NEW nil, NEW q \in Seq(S)
  PROVE  /\ TailqFirst(q, nil) # nil => TailqFirst(q, nil) \in Entries(q)
         /\ \A e \in Entries(q) : TailqNext(q, e, nil) # nil =>
              /\ TailqNext(q, e, nil) \in Entries(q)
              /\ NoRepeats(q) => TailqNext(q, e, nil) # e
<1>0. DOMAIN q = 1..Len(q)  BY LenProperties
<1>1. q # << >> => 1 \in 1..Len(q)  BY EmptySeq, LenProperties
<1>2. TailqFirst(q, nil) # nil => TailqFirst(q, nil) \in Entries(q)
  BY <1>0, <1>1 DEF TailqFirst, Entries
<1>3. ASSUME NEW e \in Entries(q), TailqNext(q, e, nil) # nil
      PROVE  /\ TailqNext(q, e, nil) \in Entries(q)
             /\ NoRepeats(q) => TailqNext(q, e, nil) # e
  <2> DEFINE i == Pos(q, e)
  <2>1. i \in 1..Len(q) /\ q[i] = e  BY PosProperties
  <2>2. i # Len(q) /\ TailqNext(q, e, nil) = q[i + 1]  BY <1>3 DEF TailqNext
  <2>3. i + 1 \in 1..Len(q) /\ i + 1 # i
    <3> HIDE DEF i
    <3> QED  BY <2>1, <2>2, LenProperties
  <2> HIDE DEF i
  <2> QED  BY <1>0, <2>1, <2>2, <2>3 DEF Entries, NoRepeats
<1> QED  BY <1>2, <1>3

\* AG_TAILQ_INSERT_BEFORE of an entry that is not queued, at any position up to
\* the end of the queue, adds it and no other.
LEMMA InsertBeforeProperties ==
  ASSUME NEW S, NEW q \in Seq(S), NoRepeats(q),
         NEW e \in S, e \notin Entries(q), NEW i \in 1..(Len(q) + 1)
  PROVE  /\ TailqInsertBefore(q, i, e) \in Seq(S)
         /\ Entries(TailqInsertBefore(q, i, e)) = Entries(q) \cup {e}
         /\ NoRepeats(TailqInsertBefore(q, i, e))
<1> DEFINE r == TailqInsertBefore(q, i, e)
           n == Len(q)
<1>0. n \in Nat /\ DOMAIN q = 1..n /\ \A j \in 1..n : q[j] \in S
  BY LenProperties, ElementOfSeq
<1>1. /\ r \in Seq(S)
      /\ Len(r) = n + 1
      /\ \A j \in 1..(n + 1) :
           r[j] = IF j < i THEN q[j] ELSE IF j = i THEN e ELSE q[j - 1]
  <2> DEFINE a == SubSeq(q, 1, i - 1)
             b == SubSeq(q, i, n)
  <2>1. /\ a \in Seq(S) /\ Len(a) = i - 1
        /\ \A j \in 1..(i - 1) : a[j] = q[j]
    BY <1>0, SubSeqProperties
  <2>2. /\ b \in Seq(S) /\ Len(b) = n - i + 1
        /\ \A j \in 1..(n - i + 1) : b[j] = q[i + j - 1]
    BY <1>0, SubSeqProperties
  <2>3. r = (a \o <<e>>) \o b  BY DEF TailqInsertBefore, InsertAt
  <2> DEFINE c == a \o <<e>>
  <2>4. <<e>> \in Seq(S) /\ Len(<<e>>) = 1 /\ <<e>>[1] = e
    OBVIOUS
  <2> HIDE DEF a, b, r, n
  <2>5. /\ c \in Seq(S) /\ Len(c) = Len(a) + Len(<<e>>)
        /\ \A j \in 1..(Len(a) + Len(<<e>>)) :
             c[j] = IF j <= Len(a) THEN a[j] ELSE <<e>>[j - Len(a)]
    BY <2>1, <2>4, ConcatProperties
  <2> HIDE DEF c
  <2>6. c \in Seq(S) /\ Len(c) = i /\ \A j \in 1..i : c[j] = IF j < i THEN q[j] ELSE e
    <3>1. Len(c) = i  BY <2>1, <2>4, <2>5, <1>0 DEF n
    <3>2. ASSUME NEW j \in 1..i  PROVE c[j] = IF j < i THEN q[j] ELSE e
      <4>1. CASE j < i
        <5>1. j <= Len(a) /\ j \in 1..(i - 1)  BY <4>1, <2>1, <1>0 DEF n
        <5> QED  BY <4>1, <5>1, <2>1, <2>4, <2>5, <1>0 DEF n
      <4>2. CASE j = i
        <5>1. ~(j <= Len(a)) /\ j - Len(a) = 1  BY <4>2, <2>1, <1>0 DEF n
        <5> QED  BY <4>2, <5>1, <2>1, <2>4, <2>5, <1>0 DEF n
      <4> QED  BY <4>1, <4>2, <1>0 DEF n
    <3> QED  BY <3>1, <3>2, <2>5
  <2>7. /\ c \o b \in Seq(S) /\ Len(c \o b) = Len(c) + Len(b)
        /\ \A j \in 1..(Len(c) + Len(b)) :
             (c \o b)[j] = IF j <= Len(c) THEN c[j] ELSE b[j - Len(c)]
    BY <2>2, <2>6, ConcatProperties
  <2>8. r = c \o b  BY <2>3 DEF c
  <2>9. Len(r) = n + 1  BY <2>2, <2>6, <2>7, <2>8, <1>0
  <2>10. ASSUME NEW j \in 1..(n + 1)
         PROVE  r[j] = IF j < i THEN q[j] ELSE IF j = i THEN e ELSE q[j - 1]
    <3>1. CASE j <= i
      <4>1. j \in 1..i  BY <3>1
      <4> QED  BY <3>1, <4>1, <2>2, <2>6, <2>7, <2>8, <1>0 DEF n
    <3>2. CASE j > i
      <4>1. j - i \in 1..(n - i + 1) /\ i + (j - i) - 1 = j - 1  BY <3>2, <1>0 DEF n
      <4>2. r[j] = b[j - i]  BY <3>2, <2>2, <2>6, <2>7, <2>8, <1>0 DEF n
      <4> QED  BY <3>2, <4>1, <4>2, <2>2, <1>0 DEF n
    <3> QED  BY <3>1, <3>2, <1>0 DEF n
  <2> QED  BY <2>7, <2>8, <2>9, <2>10
<1>2. DOMAIN r = 1..(n + 1)  BY <1>1, LenProperties
<1> HIDE DEF r, n
<1>3. Entries(r) = Entries(q) \cup {e}
  <2>1. ASSUME NEW j \in 1..n  PROVE q[j] \in Entries(r)
    <3>1. CASE j < i
      <4>1. j \in 1..(n + 1) /\ r[j] = q[j]  BY <3>1, <1>0, <1>1
      <4> QED  BY <4>1, <1>2 DEF Entries
    <3>2. CASE j >= i
      <4>1. j + 1 \in 1..(n + 1) /\ r[j + 1] = q[j]  BY <3>2, <1>0, <1>1
      <4> QED  BY <4>1, <1>2 DEF Entries
    <3> QED  BY <3>1, <3>2, <1>0
  <2>2. e \in Entries(r)
    <3>1. i \in 1..(n + 1) /\ r[i] = e  BY <1>0, <1>1 DEF n
    <3> QED  BY <3>1, <1>2 DEF Entries
  <2>3. ASSUME NEW j \in 1..(n + 1)  PROVE r[j] \in Entries(q) \cup {e}
    <3>1. CASE j < i
      <4>1. j \in 1..n  BY <3>1, <1>0 DEF n
      <4> QED  BY <4>1, <3>1, <1>0, <1>1 DEF Entries
    <3>2. CASE j = i  BY <3>2, <1>1
    <3>3. CASE j > i
      <4>1. j - 1 \in 1..n /\ r[j] = q[j - 1]  BY <3>3, <1>0, <1>1
      <4> QED  BY <4>1, <1>0 DEF Entries
    <3> QED  BY <3>1, <3>2, <3>3, <1>0
  <2> QED  BY <2>1, <2>2, <2>3, <1>0, <1>2 DEF Entries
<1>4. NoRepeats(r)
  <2> SUFFICES ASSUME NEW j \in 1..(n + 1), NEW k \in 1..(n + 1), r[j] = r[k]
               PROVE  j = k
    BY <1>2 DEF NoRepeats
  <2>1. \A l \in 1..n : q[l] # e  BY <1>0 DEF Entries
  <2>2. \A l, m \in 1..n : q[l] = q[m] => l = m  BY <1>0 DEF NoRepeats
  <2> QED  BY <2>1, <2>2, <1>0, <1>1 DEF n
<1> QED  BY <1>1, <1>3, <1>4 DEF r

\* AG_TAILQ_INSERT_TAIL of an entry that is not queued adds it and no other.
LEMMA InsertTailProperties ==
  ASSUME NEW S, NEW q \in Seq(S), NoRepeats(q), NEW e \in S, e \notin Entries(q)
  PROVE  /\ TailqInsertTail(q, e) \in Seq(S)
         /\ Entries(TailqInsertTail(q, e)) = Entries(q) \cup {e}
         /\ NoRepeats(TailqInsertTail(q, e))
<1> DEFINE r == TailqInsertTail(q, e)
           n == Len(q)
<1>0. n \in Nat /\ DOMAIN q = 1..n  BY LenProperties
<1>1. /\ r \in Seq(S)
      /\ Len(r) = n + 1
      /\ \A j \in 1..n : r[j] = q[j]
      /\ r[n + 1] = e
  BY <1>0, AppendProperties DEF TailqInsertTail
<1>2. DOMAIN r = 1..(n + 1)  BY <1>1, LenProperties
<1> HIDE DEF r, n
<1>3. Entries(r) = Entries(q) \cup {e}
  <2>1. 1..(n + 1) = 1..n \cup {n + 1}  BY <1>0
  <2> QED  BY <2>1, <1>0, <1>1, <1>2 DEF Entries
<1>4. NoRepeats(r)
  <2>1. \A l \in 1..n : q[l] # e  BY <1>0 DEF Entries
  <2>2. \A l, m \in 1..n : q[l] = q[m] => l = m  BY <1>0 DEF NoRepeats
  <2>3. ASSUME NEW j \in 1..(n + 1), NEW k \in 1..(n + 1), r[j] = r[k]
        PROVE  j = k
    BY <2>1, <2>2, <2>3, <1>0, <1>1
  <2> QED  BY <2>3, <1>2 DEF NoRepeats
<1> QED  BY <1>1, <1>3, <1>4 DEF r

\* AG_TAILQ_REMOVE moves the entries that follow up by one.
LEMMA RemovedAt ==
  ASSUME NEW S, NEW q \in Seq(S), NEW e \in Entries(q)
  PROVE  LET r == TailqRemove(q, e)
         IN  /\ r \in Seq(S)
             /\ Len(r) = Len(q) - 1 /\ DOMAIN r = 1..(Len(q) - 1)
             /\ \A j \in 1..(Len(q) - 1) : r[j] = IF j < Pos(q, e) THEN q[j] ELSE q[j + 1]
<1> DEFINE r == TailqRemove(q, e)
           n == Len(q)
           i == Pos(q, e)
<1>0. n \in Nat /\ DOMAIN q = 1..n /\ \A j \in 1..n : q[j] \in S
  BY LenProperties, ElementOfSeq
<1>i. i \in 1..n /\ q[i] = e  BY PosProperties
<1> DEFINE a == SubSeq(q, 1, i - 1)
           b == SubSeq(q, i + 1, n)
<1>1. /\ a \in Seq(S) /\ Len(a) = i - 1
      /\ \A j \in 1..(i - 1) : a[j] = q[j]
  <2> HIDE DEF i, n
  <2> QED  BY <1>0, <1>i, SubSeqProperties
<1>2. /\ b \in Seq(S) /\ Len(b) = n - i
      /\ \A j \in 1..(n - i) : b[j] = q[i + j]
  <2> HIDE DEF i, n
  <2> QED  BY <1>0, <1>i, SubSeqProperties
<1>3. r = a \o b  BY DEF TailqRemove, RemoveAt
<1> HIDE DEF a, b, r, i, n
<1>4. /\ r \in Seq(S) /\ Len(r) = Len(a) + Len(b)
      /\ \A j \in 1..(Len(a) + Len(b)) : r[j] = IF j <= Len(a) THEN a[j] ELSE b[j - Len(a)]
  BY <1>1, <1>2, <1>3, ConcatProperties
<1>5. Len(r) = n - 1  BY <1>1, <1>2, <1>4, <1>0, <1>i
<1>6. ASSUME NEW j \in 1..(n - 1)
      PROVE  r[j] = IF j < i THEN q[j] ELSE q[j + 1]
  <2>0. j \in 1..(Len(a) + Len(b)) /\ Len(a) = i - 1 /\ j \in Int /\ i \in Int
    BY <1>0, <1>i, <1>1, <1>2
  <2>1. CASE j < i
    <3>1. j \in 1..(i - 1) /\ j <= i - 1  BY <2>0, <2>1
    <3>2. r[j] = a[j]  BY <2>0, <3>1, <1>4
    <3>3. a[j] = q[j]  BY <3>1, <1>1
    <3> QED  BY <2>1, <3>2, <3>3
  <2>2. CASE ~(j < i)
    <3> DEFINE k == j - (i - 1)
    <3>1. k \in 1..(n - i) /\ i + k = j + 1 /\ ~(j <= i - 1)  BY <2>0, <2>2, <1>0, <1>i
    <3>2. r[j] = b[k]  BY <2>0, <3>1, <1>4
    <3> HIDE DEF k
    <3>3. b[k] = q[j + 1]  BY <3>1, <1>2
    <3> QED  BY <2>2, <3>2, <3>3
  <2> QED  BY <2>1, <2>2
<1>7. DOMAIN r = 1..(n - 1)  BY <1>4, <1>5, LenProperties
<1> QED  BY <1>4, <1>5, <1>6, <1>7 DEF r, n, i

\* AG_TAILQ_REMOVE of a queued entry takes it out, and no other.
LEMMA RemoveProperties ==
  ASSUME NEW S, NEW q \in Seq(S), NoRepeats(q), NEW e \in Entries(q)
  PROVE  /\ TailqRemove(q, e) \in Seq(S)
         /\ Entries(TailqRemove(q, e)) = Entries(q) \ {e}
         /\ NoRepeats(TailqRemove(q, e))
         /\ Len(TailqRemove(q, e)) = Len(q) - 1
         /\ TailqRemove(q, e) = << >> <=> Len(q) = 1
<1> DEFINE r == TailqRemove(q, e)
           n == Len(q)
           i == Pos(q, e)
<1>0. n \in Nat /\ DOMAIN q = 1..n /\ \A j \in 1..n : q[j] \in S
  BY LenProperties, ElementOfSeq
<1>i. i \in 1..n /\ q[i] = e  BY PosProperties
<1>1. /\ r \in Seq(S)
      /\ Len(r) = n - 1
      /\ \A j \in 1..(n - 1) : r[j] = IF j < i THEN q[j] ELSE q[j + 1]
  BY RemovedAt
<1>2. DOMAIN r = 1..(n - 1)  BY <1>1, LenProperties
<1>3. \A l, m \in 1..n : q[l] = q[m] => l = m  BY <1>0 DEF NoRepeats
<1>4. r = << >> <=> n = 1
  BY <1>0, <1>1, <1>i, EmptySeq
<1> HIDE DEF r, n, i
<1>5. Entries(r) = Entries(q) \ {e}
  <2>1. ASSUME NEW j \in 1..n, q[j] # e  PROVE q[j] \in Entries(r)
    <3>1. CASE j < i
      <4>1. j \in 1..(n - 1) /\ r[j] = q[j]  BY <3>1, <1>0, <1>1, <1>i
      <4> QED  BY <4>1, <1>2 DEF Entries
    <3>2. CASE j > i
      <4>1. j - 1 \in 1..(n - 1) /\ r[j - 1] = q[j]  BY <3>2, <1>0, <1>1, <1>i
      <4> QED  BY <4>1, <1>2 DEF Entries
    <3>3. j # i  BY <2>1, <1>i
    <3> QED  BY <3>1, <3>2, <3>3, <1>0, <1>i
  <2>2. ASSUME NEW j \in 1..(n - 1)  PROVE r[j] \in Entries(q) \ {e}
    <3>1. CASE j < i
      <4>1. j \in 1..n /\ r[j] = q[j]  BY <3>1, <1>0, <1>1
      <4> QED  BY <4>1, <3>1, <1>0, <1>3, <1>i DEF Entries
    <3>2. CASE j >= i
      <4>1. j + 1 \in 1..n /\ r[j] = q[j + 1] /\ j + 1 # i
        BY <3>2, <1>0, <1>1, <1>i
      <4> QED  BY <4>1, <1>0, <1>3, <1>i DEF Entries
    <3> QED  BY <3>1, <3>2, <1>0, <1>i
  <2> QED  BY <2>1, <2>2, <1>0, <1>2 DEF Entries
<1>6. NoRepeats(r)
  <2> SUFFICES ASSUME NEW j \in 1..(n - 1), NEW k \in 1..(n - 1), r[j] = r[k]
               PROVE  j = k
    BY <1>2 DEF NoRepeats
  <2> QED  BY <1>0, <1>1, <1>3, <1>i
<1> QED  BY <1>1, <1>4, <1>5, <1>6 DEF r, n

-----------------------------------------------------------------------------
(* The order of the entries *)

\* Entry a comes before entry b in q.
Before(q, a, b) == \E i, j \in DOMAIN q : i < j /\ q[i] = a /\ q[j] = b

\* The entries of a queue come in a strict order.
LEMMA BeforeIsOrder ==
  ASSUME NEW S, NEW q \in Seq(S), NoRepeats(q)
  PROVE  /\ \A a, b : Before(q, a, b) => a \in Entries(q) /\ b \in Entries(q) /\ a # b
         /\ \A a, b, c : Before(q, a, b) /\ Before(q, b, c) => Before(q, a, c)
         /\ \A a, b : Before(q, a, b) => ~Before(q, b, a)
<1>0. DOMAIN q = 1..Len(q) /\ Len(q) \in Nat  BY LenProperties
<1>1. \A i, j \in 1..Len(q) : q[i] = q[j] => i = j  BY <1>0 DEF NoRepeats
<1>2. ASSUME NEW a, NEW b, Before(q, a, b)
      PROVE  a \in Entries(q) /\ b \in Entries(q) /\ a # b
  BY <1>0, <1>1, <1>2 DEF Before, Entries
<1>3. ASSUME NEW a, NEW b, NEW c, Before(q, a, b), Before(q, b, c)
      PROVE  Before(q, a, c) /\ a # c
  <2>1. PICK i, j \in 1..Len(q) : i < j /\ q[i] = a /\ q[j] = b
    BY <1>0, <1>3 DEF Before
  <2>2. PICK k, l \in 1..Len(q) : k < l /\ q[k] = b /\ q[l] = c
    BY <1>0, <1>3 DEF Before
  <2>3. j = k /\ i < l  BY <1>0, <1>1, <2>1, <2>2
  <2>4. Before(q, a, c)  BY <1>0, <2>1, <2>2, <2>3 DEF Before
  <2> QED  BY <1>2, <2>4
<1> QED  BY <1>2, <1>3

\* AG_TAILQ_NEXT of an entry, if not nil, comes after it.
LEMMA NextIsAfter ==
  ASSUME NEW S, NEW nil, NEW q \in Seq(S), NEW a \in Entries(q), TailqNext(q, a, nil) # nil
  PROVE  Before(q, a, TailqNext(q, a, nil))
<1> DEFINE i == Pos(q, a)
<1>0. DOMAIN q = 1..Len(q)  BY LenProperties
<1>1. i \in 1..Len(q) /\ q[i] = a  BY PosProperties
<1>2. i # Len(q) /\ TailqNext(q, a, nil) = q[i + 1]  BY DEF TailqNext
<1> HIDE DEF i
<1>3. i # Len(q) /\ i \in 1..Len(q)  BY <1>1, <1>2
<1>4. i + 1 \in 1..Len(q) /\ i < i + 1  BY <1>3, LenProperties
<1> QED  BY <1>0, <1>1, <1>2, <1>4 DEF Before

\* AG_TAILQ_INSERT_TAIL keeps the order of the others; the entry comes last.
LEMMA BeforeInsertTail ==
  ASSUME NEW S, NEW q \in Seq(S), NEW e \in S, NEW a, NEW b
  PROVE  /\ Before(q, a, b) => Before(TailqInsertTail(q, e), a, b)
         /\ Before(TailqInsertTail(q, e), a, b) => Before(q, a, b) \/ b = e
<1> DEFINE r == TailqInsertTail(q, e)
           n == Len(q)
<1>0. n \in Nat /\ DOMAIN q = 1..n  BY LenProperties
<1>1. /\ r \in Seq(S) /\ Len(r) = n + 1
      /\ \A j \in 1..n : r[j] = q[j]
      /\ r[n + 1] = e
  BY <1>0, AppendProperties DEF TailqInsertTail
<1>2. DOMAIN r = 1..(n + 1)  BY <1>1, LenProperties
<1> HIDE DEF r, n
<1>3. ASSUME Before(q, a, b) PROVE Before(r, a, b)
  <2>1. PICK i, j \in 1..n : i < j /\ q[i] = a /\ q[j] = b  BY <1>0, <1>3 DEF Before
  <2>2. i \in 1..(n + 1) /\ j \in 1..(n + 1) /\ r[i] = a /\ r[j] = b
    BY <1>0, <1>1, <2>1
  <2> QED  BY <1>2, <2>1, <2>2 DEF Before
<1>4. ASSUME Before(r, a, b), b # e PROVE Before(q, a, b)
  <2>1. PICK i, j \in 1..(n + 1) : i < j /\ r[i] = a /\ r[j] = b  BY <1>2, <1>4 DEF Before
  <2>2. j # n + 1  BY <1>1, <1>4, <2>1
  <2>3. i \in 1..n /\ j \in 1..n  BY <1>0, <2>1, <2>2
  <2> QED  BY <1>0, <1>1, <2>1, <2>3 DEF Before
<1> QED  BY <1>3, <1>4 DEF r

\* AG_TAILQ_REMOVE brings no entry before another one.
LEMMA BeforeRemove ==
  ASSUME NEW S, NEW q \in Seq(S), NEW e \in Entries(q), NEW a, NEW b,
         Before(TailqRemove(q, e), a, b)
  PROVE  Before(q, a, b)
<1> DEFINE r == TailqRemove(q, e)
<1>1. /\ Len(q) \in Nat /\ DOMAIN q = 1..Len(q) /\ DOMAIN r = 1..(Len(q) - 1)
      /\ \A j \in 1..(Len(q) - 1) : r[j] = IF j < Pos(q, e) THEN q[j] ELSE q[j + 1]
  BY LenProperties, RemovedAt
<1>2. PICK i, j \in 1..(Len(q) - 1) : i < j /\ r[i] = a /\ r[j] = b  BY <1>1 DEF Before
<1>3. Pos(q, e) \in Nat  BY PosProperties
<1> DEFINE k == IF i < Pos(q, e) THEN i ELSE i + 1
           l == IF j < Pos(q, e) THEN j ELSE j + 1
<1>4. k \in 1..Len(q) /\ l \in 1..Len(q) /\ k < l  BY <1>1, <1>2, <1>3
<1>5. q[k] = a /\ q[l] = b  BY <1>1, <1>2
<1> QED  BY <1>1, <1>4, <1>5 DEF Before

\* AG_TAILQ_REMOVE keeps the order of the others.
LEMMA RemoveKeepsOrder ==
  ASSUME NEW S, NEW q \in Seq(S), NEW e \in Entries(q), NEW a, NEW b,
         a # e, b # e, Before(q, a, b)
  PROVE  Before(TailqRemove(q, e), a, b)
<1> DEFINE r == TailqRemove(q, e)
           p == Pos(q, e)
<1>1. /\ Len(q) \in Nat /\ DOMAIN q = 1..Len(q) /\ DOMAIN r = 1..(Len(q) - 1)
      /\ \A j \in 1..(Len(q) - 1) : r[j] = IF j < p THEN q[j] ELSE q[j + 1]
  BY LenProperties, RemovedAt
<1>2. p \in 1..Len(q) /\ q[p] = e  BY PosProperties
<1>3. PICK i, j \in 1..Len(q) : i < j /\ q[i] = a /\ q[j] = b  BY <1>1 DEF Before
<1>4. i # p /\ j # p  BY <1>2, <1>3
<1> HIDE DEF p, r
<1> PICK k : k = IF i < p THEN i ELSE i - 1  OBVIOUS
<1> PICK l : l = IF j < p THEN j ELSE j - 1  OBVIOUS
<1>5. k \in 1..(Len(q) - 1) /\ l \in 1..(Len(q) - 1) /\ k < l
  BY <1>1, <1>2, <1>3, <1>4
<1>6. r[k] = a
  <2>1. CASE i < p  BY <1>1, <1>3, <1>5, <2>1
  <2>2. CASE ~(i < p)
    <3>1. k = i - 1 /\ ~(k < p) /\ k + 1 = i  BY <1>2, <1>3, <1>4, <2>2
    <3> QED  BY <1>1, <1>3, <1>5, <3>1
  <2> QED  BY <2>1, <2>2
<1>7. r[l] = b
  <2>1. CASE j < p  BY <1>1, <1>3, <1>5, <2>1
  <2>2. CASE ~(j < p)
    <3>1. l = j - 1 /\ ~(l < p) /\ l + 1 = j  BY <1>2, <1>3, <1>4, <2>2
    <3> QED  BY <1>1, <1>3, <1>5, <3>1
  <2> QED  BY <2>1, <2>2
<1>8. Before(r, a, b)  BY <1>1, <1>5, <1>6, <1>7 DEF Before
<1> QED  BY <1>8 DEF r

-----------------------------------------------------------------------------
(* Numbers and sequences *)

\* A queue has an entry twice if the entry comes before itself.
LEMMA NoneBeforeItself ==
  ASSUME NEW S, NEW q \in Seq(S)
  PROVE  NoRepeats(q) <=> ~ \E a : Before(q, a, a)
<1>0. DOMAIN q \subseteq Nat
  <2>1. DOMAIN q = 1 .. Len(q)  BY LenProperties
  <2> QED  BY <2>1
<1>1. ASSUME NEW a, Before(q, a, a)  PROVE ~NoRepeats(q)
  BY <1>0, <1>1 DEF Before, NoRepeats
<1>2. ASSUME ~NoRepeats(q)  PROVE \E a : Before(q, a, a)
  <2>1. PICK i, j \in DOMAIN q : q[i] = q[j] /\ i # j  BY <1>2 DEF NoRepeats
  <2>2. i < j \/ j < i  BY <1>0, <2>1
  <2>3. Before(q, q[i], q[i])  BY <2>1, <2>2 DEF Before
  <2> QED  BY <2>3
<1> QED  BY <1>1, <1>2

\* An entry that is inserted at the tail comes after all others.
LEMMA TailIsLast ==
  ASSUME NEW S, NEW list \in Seq(S), NEW e \in S, NEW a \in Entries(list)
  PROVE  Before(TailqInsertTail(list, e), a, e)
<1> PICK n \in Nat : n = Len(list) /\ DOMAIN list = 1 .. n  BY LenProperties
<1> PICK r : r = TailqInsertTail(list, e)  OBVIOUS
<1>1. /\ r \in Seq(S) /\ Len(r) = n + 1 /\ \A j \in 1 .. n : r[j] = list[j]
      /\ r[n + 1] = e
  BY AppendProperties DEF TailqInsertTail
<1>2. DOMAIN r = 1 .. n + 1  BY <1>1, LenProperties
<1>3. PICK i \in 1 .. n : list[i] = a  BY DEF Entries
<1>4. i \in DOMAIN r /\ n + 1 \in DOMAIN r /\ i < n + 1 /\ r[i] = a  BY <1>1, <1>2, <1>3
<1>5. Before(r, a, e)  BY <1>1, <1>4 DEF Before
<1> QED  BY <1>5

\* The first entry has none before it.
LEMMA NoneBeforeFirst ==
  ASSUME NEW S, NEW nil, nil \notin S, NEW q \in Seq(S), NoRepeats(q)
  PROVE  /\ TailqFirst(q, nil) = nil => Entries(q) = {}
         /\ TailqFirst(q, nil) # nil => TailqFirst(q, nil) \in Entries(q)
         /\ TailqFirst(q, nil) # nil => \A x : ~Before(q, x, TailqFirst(q, nil))
<1> PICK n \in Nat : n = Len(q) /\ DOMAIN q = 1 .. n  BY LenProperties
<1>1. CASE q = << >>
  <2>1. Entries(q) = {}  BY <1>1, EntriesType
  <2> QED  BY <1>1, <2>1 DEF TailqFirst
<1>2. CASE q # << >>
  <2>1. 1 \in 1 .. n  BY <1>2, EmptySeq
  <2>2. q[1] \in S  BY <2>1, ElementOfSeq
  <2>3. TailqFirst(q, nil) = q[1] /\ q[1] # nil  BY <1>2, <2>2 DEF TailqFirst
  <2>4. q[1] \in Entries(q)  BY <2>1 DEF Entries
  <2>5. ASSUME NEW x, Before(q, x, q[1])  PROVE FALSE
    <3>1. PICK i \in 1 .. n, j \in 1 .. n : i < j /\ q[j] = q[1]  BY <2>5 DEF Before
    <3>2. j = 1  BY <2>1, <3>1 DEF NoRepeats
    <3> QED  BY <3>1, <3>2
  <2> QED  BY <2>3, <2>4, <2>5
<1> QED  BY <1>1, <1>2

\* Before the next entry are an entry and those before it; before the end, all.
LEMMA BeforeNext ==
  ASSUME NEW S, NEW nil, nil \notin S, NEW q \in Seq(S), NoRepeats(q), NEW a \in Entries(q)
  PROVE  LET b == TailqNext(q, a, nil)
         IN  /\ b # nil => b \in Entries(q) /\ Before(q, a, b)
             /\ \A x \in Entries(q) : b = nil \/ Before(q, x, b) <=> x = a \/ Before(q, x, a)
<1> PICK n \in Nat : n = Len(q) /\ DOMAIN q = 1 .. n  BY LenProperties
<1> PICK k \in 1 .. n : k = Pos(q, a) /\ q[k] = a  BY PosProperties
<1> PICK b : b = TailqNext(q, a, nil)  OBVIOUS
<1>0. \A i, j \in 1 .. n : q[i] = q[j] => i = j  BY DEF NoRepeats
<1>1. \A i, j \in 1 .. n : Before(q, q[i], q[j]) <=> i < j
  <2>1. ASSUME NEW i \in 1 .. n, NEW j \in 1 .. n, Before(q, q[i], q[j])  PROVE i < j
    <3>1. PICK x \in 1 .. n, y \in 1 .. n : x < y /\ q[x] = q[i] /\ q[y] = q[j]
      BY <2>1 DEF Before
    <3>2. x = i /\ y = j  BY <1>0, <3>1
    <3> QED  BY <3>1, <3>2
  <2>2. ASSUME NEW i \in 1 .. n, NEW j \in 1 .. n, i < j  PROVE Before(q, q[i], q[j])
    BY <2>2 DEF Before
  <2> QED  BY <2>1, <2>2
<1>2. \A x \in Entries(q) : \E i \in 1 .. n : x = q[i]  BY DEF Entries
<1>3. CASE k = n
  <2>1. b = nil  BY <1>3 DEF TailqNext
  <2>2. ASSUME NEW i \in 1 .. n  PROVE q[i] = a \/ Before(q, q[i], a)
    <3>1. i = k \/ i < k  BY <1>3
    <3> QED  BY <1>1, <3>1
  <2> QED  BY <1>2, <2>1, <2>2
<1>4. CASE k # n
  <2> PICK p \in 1 .. n : p = k + 1  BY <1>4
  <2>1. b = q[p] /\ q[p] \in S /\ q[p] \in Entries(q) /\ b # nil
    <3>1. b = q[p]  BY <1>4 DEF TailqNext
    <3>2. q[p] \in S  BY ElementOfSeq
    <3> QED  BY <3>1, <3>2 DEF Entries
  <2>2. Before(q, a, b)  BY <1>1, <2>1
  <2>3. ASSUME NEW i \in 1 .. n  PROVE Before(q, q[i], b) <=> q[i] = a \/ Before(q, q[i], a)
    <3>1. i < p <=> i = k \/ i < k  OBVIOUS
    <3> QED  BY <1>0, <1>1, <2>1, <3>1
  <2> QED  BY <1>2, <2>1, <2>2, <2>3
<1> QED  BY <1>3, <1>4

\* What a concatenation holds, and in which order.
LEMMA ConcatOrder ==
  ASSUME NEW S, NEW s \in Seq(S), NEW t \in Seq(S)
  PROVE  /\ s \o t \in Seq(S) /\ Entries(s \o t) = Entries(s) \cup Entries(t)
         /\ \A a, b : Before(s, a, b) \/ Before(t, a, b) \/ (a \in Entries(s) /\ b \in Entries(t))
              => Before(s \o t, a, b)
<1> PICK r : r = s \o t  OBVIOUS
<1> PICK m \in Nat, n \in Nat : m = Len(s) /\ n = Len(t)  BY LenProperties
<1>1. /\ r \in Seq(S) /\ Len(r) = m + n
      /\ \A i \in 1 .. m + n : r[i] = IF i <= m THEN s[i] ELSE t[i - m]
  BY ConcatProperties
<1>2. DOMAIN s = 1 .. m /\ DOMAIN t = 1 .. n /\ DOMAIN r = 1 .. m + n  BY <1>1, LenProperties
<1>3. \A i \in 1 .. m : i \in 1 .. m + n /\ r[i] = s[i]  BY <1>1
<1>4. \A j \in 1 .. n : j + m \in 1 .. m + n /\ r[j + m] = t[j]
  <2> SUFFICES ASSUME NEW j \in 1 .. n  PROVE j + m \in 1 .. m + n /\ r[j + m] = t[j]
    OBVIOUS
  <2>1. j + m \in 1 .. m + n /\ ~(j + m <= m) /\ j + m - m = j  OBVIOUS
  <2> QED  BY <1>1, <2>1
<1>5. \A i \in 1 .. m + n : i \in 1 .. m \/ (i - m \in 1 .. n /\ r[i] = t[i - m])  BY <1>1
<1>6. Entries(r) = Entries(s) \cup Entries(t)
  <2>1. ASSUME NEW a \in Entries(r)  PROVE a \in Entries(s) \cup Entries(t)
    <3>1. PICK i \in 1 .. m + n : r[i] = a  BY <1>2 DEF Entries
    <3> QED  BY <1>2, <1>3, <1>5, <3>1 DEF Entries
  <2>2. ASSUME NEW a \in Entries(s)  PROVE a \in Entries(r)
    BY <1>2, <1>3, <2>2 DEF Entries
  <2>3. ASSUME NEW a \in Entries(t)  PROVE a \in Entries(r)
    <3>1. PICK j \in 1 .. n : t[j] = a  BY <1>2, <2>3 DEF Entries
    <3> QED  BY <1>2, <1>4, <3>1 DEF Entries
  <2> QED  BY <2>1, <2>2, <2>3
<1>7. ASSUME NEW a, NEW b, Before(s, a, b)  PROVE Before(r, a, b)
  BY <1>2, <1>3, <1>7 DEF Before
<1>8. ASSUME NEW a, NEW b, Before(t, a, b)  PROVE Before(r, a, b)
  <2>1. PICK i, j \in 1 .. n : i < j /\ t[i] = a /\ t[j] = b  BY <1>2, <1>8 DEF Before
  <2>2. i + m < j + m  BY <2>1
  <2> QED  BY <1>2, <1>4, <2>1, <2>2 DEF Before
<1>9. ASSUME NEW a \in Entries(s), NEW b \in Entries(t)  PROVE Before(r, a, b)
  <2>1. PICK i \in 1 .. m, j \in 1 .. n : s[i] = a /\ t[j] = b  BY <1>2 DEF Entries
  <2>2. i < j + m  OBVIOUS
  <2> QED  BY <1>2, <1>3, <1>4, <2>1, <2>2 DEF Before
<1> QED  BY <1>1, <1>6, <1>7, <1>8, <1>9

\* A set of numbers has a least one.
LEMMA Least ==
  ASSUME NEW S \in SUBSET Nat, S # {}
  PROVE  \E m \in S : \A n \in S : m <= n
<1>1. PICK m \in S : \A n \in S : <<n, m>> \notin OpToRel(<, Nat)
  BY NatLessThanWellFounded, WFMin
<1>2. ASSUME NEW n \in S PROVE m <= n
  <2>1. m \in Nat /\ n \in Nat  OBVIOUS
  <2>2. ~(n < m)
    <3> SUFFICES ASSUME n < m PROVE FALSE  OBVIOUS
    <3>1. <<n, m>> \in OpToRel(<, Nat)  BY <2>1 DEF OpToRel
    <3> QED  BY <1>1, <3>1
  <2> QED  BY <2>1, <2>2
<1> QED  BY <1>2

\* Induction up to n, for a set of numbers.
LEMMA UpTo ==
  ASSUME NEW n \in Nat, NEW S, 0 \in S, \A m \in 0 .. n : m # n /\ m \in S => m + 1 \in S
  PROVE  \A m \in 0 .. n : m \in S
<1> DEFINE Out == {m \in 0 .. n : m \notin S}
<1> SUFFICES ASSUME Out # {} PROVE FALSE  OBVIOUS
<1>1. Out \in SUBSET Nat  OBVIOUS
<1>2. PICK m \in Out : \A k \in Out : m <= k
  <2> HIDE DEF Out
  <2> QED  BY <1>1, Least
<1>3. m \in 0 .. n /\ m \notin S /\ m # 0  OBVIOUS
<1>4. m - 1 \in 0 .. n /\ m - 1 # n /\ m - 1 + 1 = m /\ ~(m <= m - 1)  BY <1>3
<1>5. m - 1 \in S  BY <1>2, <1>4
<1> QED  BY <1>3, <1>4, <1>5

\* A function on 0 .. n that begins with a and goes on by steps.
Steps(n, K) == [(1 .. n) \X K -> K]
ByStep(F, n, K, a, step) ==
  F \in [0 .. n -> K] /\ F[0] = a /\ \A i \in 1 .. n : F[i] = step[<<i, F[i - 1]>>]

\* There is one, whatever the steps in K are.
LEMMA StepByStep ==
  ASSUME NEW n \in Nat, NEW K, NEW a \in K, NEW step \in Steps(n, K)
  PROVE  \E F : ByStep(F, n, K, a, step)
<1> USE DEF Steps
<1> DEFINE S == {m \in 0 .. n : \E F \in [0 .. m -> K] :
                   F[0] = a /\ \A i \in 1 .. m : F[i] = step[<<i, F[i - 1]>>]}
<1>1. 0 \in S
  <2> DEFINE F == [i \in 0 .. 0 |-> a]
  <2>1. F \in [0 .. 0 -> K] /\ F[0] = a  OBVIOUS
  <2>2. 1 .. 0 = {} /\ 0 \in 0 .. n  OBVIOUS
  <2> HIDE DEF F
  <2> QED  BY <2>1, <2>2
<1>2. ASSUME NEW m \in 0 .. n, m # n, m \in S  PROVE m + 1 \in S
  <2>1. PICK F \in [0 .. m -> K] : F[0] = a /\ \A i \in 1 .. m : F[i] = step[<<i, F[i - 1]>>]
    BY <1>2
  <2> DEFINE G == [i \in 0 .. m + 1 |-> IF i = m + 1 THEN step[<<m + 1, F[m]>>] ELSE F[i]]
  <2>2. m \in 0 .. m /\ m + 1 \in 1 .. n /\ m + 1 \in 0 .. n /\ F[m] \in K  BY <1>2
  <2>3. step[<<m + 1, F[m]>>] \in K  BY <2>2
  <2>4. \A i \in 0 .. m + 1 : i # m + 1 => i \in 0 .. m  BY <2>2
  <2>5. G \in [0 .. m + 1 -> K]  BY <2>3, <2>4
  <2>6. G[0] = a  BY <2>1, <2>2
  <2>7. ASSUME NEW i \in 1 .. m + 1  PROVE G[i] = step[<<i, G[i - 1]>>]
    <3>1. CASE i = m + 1
      <4>1. i - 1 = m /\ G[m] = F[m] /\ G[i] = step[<<m + 1, F[m]>>]  BY <2>2, <3>1
      <4> QED  BY <3>1, <4>1
    <3>2. CASE i # m + 1
      <4>1. i \in 1 .. m /\ i \in 0 .. m + 1 /\ i - 1 \in 0 .. m + 1 /\ i - 1 # m + 1
        BY <2>2, <3>2
      <4>2. G[i] = F[i] /\ G[i - 1] = F[i - 1]  BY <3>2, <4>1
      <4> QED  BY <2>1, <4>1, <4>2
    <3> QED  BY <3>1, <3>2
  <2> HIDE DEF G
  <2> QED  BY <2>2, <2>5, <2>6, <2>7
<1>3. \A m \in 0 .. n : m # n /\ m \in S => m + 1 \in S  BY <1>2
<1>4. n \in S
  <2> HIDE DEF S
  <2>1. n \in 0 .. n  OBVIOUS
  <2> QED  BY <1>1, <1>3, <2>1, UpTo
<1> QED  BY <1>4 DEF ByStep

\* A recursion over 0 .. n, as long as its values are in K; what its steps keep.
Recurs(F, n, K, a, put) ==
  F[0] = a /\ \A i \in 1 .. n : F[i - 1] \in K => F[i] = put[<<i, F[i - 1]>>]
KeptBy(G, n, K, a, put) ==
  /\ G \in SUBSET ((0 .. n) \X K) /\ <<0, a>> \in G
  /\ \A m \in 1 .. n : \A k \in K : <<m - 1, k>> \in G => <<m, put[<<m, k>>]>> \in G

\* There is one, whatever values outside K the step would give, and its steps keep it.
LEMMA StepsKeep ==
  ASSUME NEW n \in Nat, NEW K, NEW a, NEW Good, NEW put, KeptBy(Good, n, K, a, put)
  PROVE  /\ \E F \in [0 .. n -> K] : Recurs(F, n, K, a, put)
         /\ \A F : Recurs(F, n, K, a, put) => \A i \in 0 .. n : <<i, F[i]>> \in Good
<1> USE DEF KeptBy
<1> DEFINE step == [x \in (1 .. n) \X K |-> IF put[x] \in K THEN put[x] ELSE a]
<1>0. a \in K /\ \A m \in 1 .. n : m \in 0 .. n /\ m - 1 \in 0 .. n  OBVIOUS
<1>1. PICK G : ByStep(G, n, K, a, step)
  <2>1. step \in Steps(n, K)  BY <1>0 DEF Steps
  <2> HIDE DEF step
  <2> QED  BY <1>0, <2>1, StepByStep
<1>2. G \in [0 .. n -> K] /\ G[0] = a /\ \A i \in 1 .. n : G[i] = step[<<i, G[i - 1]>>]
  BY <1>1 DEF ByStep
<1>3. ASSUME NEW F, F[0] = a,
             \A i \in 1 .. n : <<i - 1, F[i - 1]>> \in Good => F[i] = put[<<i, F[i - 1]>>]
      PROVE  \A i \in 0 .. n : <<i, F[i]>> \in Good
  <2> DEFINE S == {m \in 0 .. n : <<m, F[m]>> \in Good}
  <2>1. 0 \in S  BY <1>3
  <2>2. ASSUME NEW m \in 0 .. n, m # n, m \in S  PROVE m + 1 \in S
    <3> PICK p \in 1 .. n : p = m + 1 /\ p - 1 = m /\ p \in 0 .. n  BY <2>2
    <3>1. <<p - 1, F[p - 1]>> \in Good /\ F[p - 1] \in K  BY <2>2
    <3>2. <<p, put[<<p, F[p - 1]>>]>> \in Good  BY <3>1
    <3> QED  BY <1>3, <3>1, <3>2
  <2> HIDE DEF S
  <2>3. \A m \in 0 .. n : m \in S  BY <2>1, <2>2, UpTo
  <2> QED  BY <2>3 DEF S
<1>4. ASSUME NEW m \in 1 .. n, <<m - 1, G[m - 1]>> \in Good
      PROVE  G[m] = put[<<m, G[m - 1]>>]
  <2>1. G[m - 1] \in K  BY <1>0, <1>2
  <2>2. <<m, put[<<m, G[m - 1]>>]>> \in Good  BY <1>4, <2>1
  <2>3. put[<<m, G[m - 1]>>] \in K  BY <2>2
  <2> QED  BY <1>2, <2>1, <2>3
<1> HIDE DEF step
<1>5. \A m \in 0 .. n : <<m, G[m]>> \in Good  BY <1>2, <1>3, <1>4
<1>6. Recurs(G, n, K, a, put)  BY <1>0, <1>2, <1>4, <1>5 DEF Recurs
<1>7. ASSUME NEW F, Recurs(F, n, K, a, put)  PROVE \A i \in 0 .. n : <<i, F[i]>> \in Good
  <2>1. \A i \in 1 .. n : <<i - 1, F[i - 1]>> \in Good => F[i] = put[<<i, F[i - 1]>>]
    BY <1>7 DEF Recurs
  <2>2. F[0] = a  BY <1>7 DEF Recurs
  <2> QED  BY <1>3, <2>1, <2>2
<1> QED  BY <1>2, <1>6, <1>7
=============================================================================
