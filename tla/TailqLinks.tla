----------------------------- MODULE TailqLinks -----------------------------
(***************************************************************************)
(* The tail queues of core/queue.h as they are in memory.  A link field is *)
(* shared by the queues whose entries are linked through it; a queue keeps *)
(* its first entry and the address of the cell where the next entry goes,  *)
(* an entry its successor and the address of the cell that points to it.   *)
(* Nothing checks that an entry is on no queue yet: linked twice, it       *)
(* overwrites its own links.  AgQueue is the same macros as operations on  *)
(* sequences, for queues whose users never do that.                        *)
(***************************************************************************)
EXTENDS Integers, Sequences, SequencesExt

\* The address of the first field of a queue, and of the next field of an entry.
HeadCell(q) == <<"first", q>>
NextCell(e) == <<"next", e>>

\* One link field: first and last per queue of Q, next and prev per entry of E.
EmptyLinks(Q, E, nil) ==
  [first |-> [q \in Q |-> nil], last |-> [q \in Q |-> HeadCell(q)],
   next |-> [e \in E |-> nil], prev |-> [e \in E |-> nil]]

\* *cell = e
Store(L, cell, e) ==
  IF cell[1] = "first" THEN [L EXCEPT !.first[cell[2]] = e]
                       ELSE [L EXCEPT !.next[cell[2]] = e]

\* AG_TAILQ_INIT: the entries keep their links.
LinkInit(L, q, nil) == [L EXCEPT !.first[q] = nil, !.last[q] = HeadCell(q)]

\* AG_TAILQ_INSERT_TAIL
LinkInsertTail(L, q, e, nil) ==
  LET L1 == [L EXCEPT !.next[e] = nil, !.prev[e] = L.last[q]]
  IN  [Store(L1, L.last[q], e) EXCEPT !.last[q] = NextCell(e)]

\* AG_TAILQ_INSERT_HEAD
LinkInsertHead(L, q, e, nil) ==
  LET L1 == [L EXCEPT !.next[e] = L.first[q]]
      L2 == IF L.first[q] # nil THEN [L1 EXCEPT !.prev[L.first[q]] = NextCell(e)]
                                ELSE [L1 EXCEPT !.last[q] = NextCell(e)]
  IN  [L2 EXCEPT !.first[q] = e, !.prev[e] = HeadCell(q)]

\* AG_TAILQ_REMOVE: e keeps its own links.
LinkRemove(L, q, e, nil) ==
  LET L1 == IF L.next[e] # nil THEN [L EXCEPT !.prev[L.next[e]] = L.prev[e]]
                               ELSE [L EXCEPT !.last[q] = L.prev[e]]
  IN  Store(L1, L.prev[e], L.next[e])

\* AG_TAILQ_FOREACH, for n entries at most: a walk that meets an entry again, which
\* does not end, is cut off there.
LinkWalk(L, q, n, nil) ==
  LET W[k \in 0 .. n] ==
        IF k = 0 THEN (IF L.first[q] = nil THEN << >> ELSE <<L.first[q]>>)
        ELSE LET w == W[k - 1] IN
             IF w = << >> \/ L.next[Last(w)] = nil THEN w ELSE Append(w, L.next[Last(w)])
  IN  W[n]

\* Queue q is a list: the walk ends, the links back agree with the links forward, and
\* the next entry goes behind the last.
WellLinked(L, q, n, nil) ==
  LET w == LinkWalk(L, q, n, nil) IN
  /\ \A i, j \in DOMAIN w : w[i] = w[j] => i = j
  /\ \A i \in DOMAIN w : L.prev[w[i]] = IF i = 1 THEN HeadCell(q) ELSE NextCell(w[i - 1])
  /\ L.last[q] = IF w = << >> THEN HeadCell(q) ELSE NextCell(Last(w))
=============================================================================
