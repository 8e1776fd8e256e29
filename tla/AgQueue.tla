------------------------------ MODULE AgQueue ------------------------------
(***************************************************************************)
(* The tail queues of core/queue.h (the AG_TAILQ macros), on which every   *)
(* list of Agar-Core is built: a queue is the sequence of its entries, in  *)
(* order.  No entry occurs twice in a queue that its users keep well       *)
(* formed; the invariants of the modules that use these operators say so.  *)
(***************************************************************************)
EXTENDS Integers, Sequences, SequencesExt

\* The entries of queue q.
Entries(q) == {q[i] : i \in DOMAIN q}

\* The position of entry e in q.
Pos(q, e) == CHOOSE i \in DOMAIN q : q[i] = e

\* AG_TAILQ_FIRST: the head, or nil.
TailqFirst(q, nil) == IF q = << >> THEN nil ELSE q[1]

\* AG_TAILQ_NEXT of an entry of q: its successor, or nil.
TailqNext(q, e, nil) == IF Pos(q, e) = Len(q) THEN nil ELSE q[Pos(q, e) + 1]

\* AG_TAILQ_INSERT_TAIL
TailqInsertTail(q, e) == Append(q, e)

\* AG_TAILQ_INSERT_BEFORE: e goes in front of the entry at position i.
TailqInsertBefore(q, i, e) == InsertAt(q, i, e)

\* AG_TAILQ_REMOVE of an entry of q.
TailqRemove(q, e) == RemoveAt(q, Pos(q, e))

\* No entry is linked twice.
NoRepeats(q) == \A i, j \in DOMAIN q : q[i] = q[j] => i = j
=============================================================================
