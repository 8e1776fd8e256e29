--------------------------- MODULE Objects_proofs ---------------------------
(***************************************************************************)
(* Objects.  For any number of them, whatever the application does, they   *)
(* form a forest (TreeInv), and what they refer to is counted (CountInv).  *)
(* If it detaches only leaves and names no two siblings alike, the path of *)
(* an object leads back to it (NamesInv), though root pointers may be      *)
(* stale: they are each those of the parent, or the parent (RootInv).      *)
(*                                                                         *)
(* Windows, which are objects that a driver keeps.  The macros of tail     *)
(* queues keep what they should of the links in memory (Links), for any    *)
(* queues and entries.  For any number of windows, and any windows and     *)
(* calls of an application that keeps to the rules, the queues stay lists, *)
(* nothing refers to a window that was destroyed, and the modal windows    *)
(* are the visible ones (WindowInv).                                       *)
(***************************************************************************)
EXTENDS ObjectTree, WindowQueues, AgQueue_proofs, FiniteSetTheorems

LinksType ==
  /\ alive \subseteq Object
  /\ parent \in [Object -> Object \cup {Nil}]
  /\ root \in [Object -> Object]
  /\ children \in [Object -> Seq(Object)]

\* The invariant of the layout.
TreeInv == LinksType /\ TreeConsistent

-----------------------------------------------------------------------------
(* What a walk of the tree reaches *)

\* A subtree has its top, is closed under going to a child, and is within every
\* set that has these two properties.
LEMMA SubtreeFacts ==
  ASSUME LinksType, NEW o \in Object
  PROVE  /\ o \in Subtree(o) /\ Subtree(o) \subseteq Object
         /\ Closed(Subtree(o))
         /\ \A S \in SUBSET Object : o \in S /\ Closed(S) => Subtree(o) \subseteq S
<1>1. o \in Subtree(o) /\ Subtree(o) \subseteq Object  BY DEF Subtree
<1>2. \A S \in SUBSET Object : o \in S /\ Closed(S) => Subtree(o) \subseteq S
  BY DEF Subtree
<1>3. ASSUME NEW x \in Object, NEW y \in Entries(children[x]), x \in Subtree(o)
      PROVE  y \in Subtree(o)
  <2>1. y \in Object  BY <1>3, EntriesType DEF LinksType
  <2>2. ASSUME NEW S \in SUBSET Object, o \in S, Closed(S)
        PROVE  y \in S
    <3>1. x \in S  BY <2>2, <1>3 DEF Subtree
    <3> QED  BY <3>1, <2>2 DEF Closed
  <2> QED  BY <2>1, <2>2 DEF Subtree
<1> QED  BY <1>1, <1>2, <1>3 DEF Closed

\* An object without children is all of its subtree.
LEMMA LeafSubtree ==
  ASSUME LinksType, NEW o \in Object, Entries(children[o]) = {}
  PROVE  Subtree(o) = {o}
<1>1. Closed({o})  BY DEF Closed
<1> QED  BY <1>1, SubtreeFacts

\* An object that is not alive is in no list, and has none.
LEMMA DeadUnlinked ==
  ASSUME TreeInv, NEW o \in Object, o \notin alive
  PROVE  /\ parent[o] = Nil /\ Entries(children[o]) = {}
         /\ \A x \in Object : parent[x] # o
<1>1. \A x \in Object : parent[x] # o
  BY NilAssumption DEF TreeInv, TreeConsistent, ListsProper
<1>2. Entries(children[o]) \subseteq Object
  BY EntriesType DEF TreeInv, LinksType
<1> QED  BY <1>1, <1>2 DEF TreeInv, TreeConsistent, ListsProper, Linked

-----------------------------------------------------------------------------
(* The layout *)

\* Pointers to parents that are only reset make no cycles.
LEMMA AcyclicReset ==
  ASSUME Acyclic, \A x \in Object : parent'[x] \in {parent[x], Nil}
  PROVE  Acyclic'
<1> SUFFICES ASSUME NEW S \in SUBSET Object, S # {}
             PROVE  \E o \in S : parent'[o] \notin S
  BY DEF Acyclic
<1>1. PICK o \in S : parent[o] \notin S  BY DEF Acyclic
<1>2. Nil \notin S  BY NilAssumption
<1> QED  BY <1>1, <1>2

\* A new link makes no cycle when the parent is not within the child.
LEMMA AcyclicLink ==
  ASSUME TreeInv, NEW p \in Object, NEW c \in Object, p \notin Subtree(c),
         parent' = [parent EXCEPT ![c] = p]
  PROVE  Acyclic'
<1> SUFFICES ASSUME NEW S \in SUBSET Object, S # {}
             PROVE  \E o \in S : parent'[o] \notin S
  BY DEF Acyclic
<1>0. /\ \A x \in Object \ {c} : parent'[x] = parent[x]
      /\ parent'[c] = p
  BY DEF TreeInv, LinksType
<1>1. CASE ~(c \in S /\ p \in S)
  <2>1. PICK o \in S : parent[o] \notin S  BY DEF TreeInv, TreeConsistent, Acyclic
  <2> QED  BY <1>0, <1>1, <2>1
<1>2. CASE c \in S /\ p \in S
  <2> DEFINE T == Subtree(c)
  <2>1. c \in T /\ Closed(T) /\ T \subseteq Object  BY SubtreeFacts DEF TreeInv
  <2>2. S \ T # {} /\ S \ T \in SUBSET Object  BY <1>2
  <2> HIDE DEF T
  <2>3. PICK o \in S \ T : parent[o] \notin S \ T
    BY <2>2 DEF TreeInv, TreeConsistent, Acyclic
  <2>4. parent[o] \notin T
    <3>1. SUFFICES ASSUME parent[o] \in T PROVE FALSE  OBVIOUS
    <3>2. o \in Entries(children[parent[o]])
      BY <3>1, <2>1 DEF TreeInv, TreeConsistent, Linked
    <3> QED  BY <3>1, <3>2, <2>1, <2>3 DEF Closed
  <2> QED  BY <1>0, <2>1, <2>3, <2>4
<1> QED  BY <1>1, <1>2

\* AG_ObjectAttach links an object that has no parent below one that is not in it.
LEMMA LinkagePreserves ==
  ASSUME TreeInv, NEW p \in Object, NEW c \in Object,
         parent[c] = Nil, p \notin Subtree(c), Linkage(p, c),
         alive' \subseteq Object, alive \cup {p, c} \subseteq alive'
  PROVE  TreeInv'
<1> USE DEF Linkage
<1>1. p # c  BY SubtreeFacts DEF TreeInv
<1>2. children[p] \in Seq(Object) /\ NoRepeats(children[p]) /\ c \notin Entries(children[p])
  BY NilAssumption DEF TreeInv, LinksType, TreeConsistent, Linked, ListsProper
<1>3. /\ children'[p] \in Seq(Object)
      /\ Entries(children'[p]) = Entries(children[p]) \cup {c}
      /\ NoRepeats(children'[p])
      /\ \A x \in Object \ {p} : children'[x] = children[x]
  <2>1. /\ TailqInsertTail(children[p], c) \in Seq(Object)
        /\ Entries(TailqInsertTail(children[p], c)) = Entries(children[p]) \cup {c}
        /\ NoRepeats(TailqInsertTail(children[p], c))
    BY <1>2, InsertTailProperties
  <2> QED  BY <2>1 DEF TreeInv, LinksType
<1>4. \A x \in Object : parent'[x] = IF x = c THEN p ELSE parent[x]
  BY DEF TreeInv, LinksType
<1>5. LinksType'
  <2>1. children' \in [Object -> Seq(Object)]
    <3>1. \A x \in Object : children'[x] \in Seq(Object)  BY <1>3 DEF TreeInv, LinksType
    <3> QED  BY <3>1 DEF TreeInv, LinksType
  <2> QED  BY <2>1 DEF TreeInv, LinksType
<1>6. Linked'
  <2>1. \A x, y \in Object : y \in Entries(children[x]) <=> parent[y] = x
    BY DEF TreeInv, TreeConsistent, Linked
  <2>2. Nil \notin Object  BY NilAssumption
  <2>3. ASSUME NEW x \in Object, NEW y \in Object
        PROVE  y \in Entries(children'[x]) <=> parent'[y] = x
    <3>1. CASE x = p  BY <3>1, <2>1, <1>3, <1>4
    <3>2. CASE x # p  BY <3>2, <2>1, <2>2, <1>3, <1>4
    <3> QED  BY <3>1, <3>2
  <2> QED  BY <2>3 DEF Linked
<1>7. ListsProper'
  BY <1>3, <1>4 DEF TreeInv, TreeConsistent, ListsProper
<1>8. Acyclic'  BY AcyclicLink
<1> QED  BY <1>5, <1>6, <1>7, <1>8 DEF TreeInv, TreeConsistent

\* AG_ObjectDetach.
LEMMA DetachPreserves ==
  ASSUME TreeInv, NEW c \in Object, Detach(c)
  PROVE  TreeInv'
<1> DEFINE p == parent[c]
<1>1. c \in alive /\ p \in Object /\ c \in Entries(children[p])
  BY DEF Detach, TreeInv, LinksType, TreeConsistent, Linked
<1>2. children[p] \in Seq(Object) /\ NoRepeats(children[p])
  BY <1>1 DEF TreeInv, LinksType, TreeConsistent, ListsProper
<1>3. /\ Others(c) \in Seq(Object)
      /\ Entries(Others(c)) = Entries(children[p]) \ {c}
      /\ NoRepeats(Others(c))
  BY <1>1, <1>2, RemoveProperties DEF Others
<1>4. /\ \A x \in Object : children'[x] = IF x = p THEN Others(c) ELSE children[x]
      /\ \A x \in Object : parent'[x] = IF x = c THEN Nil ELSE parent[x]
  BY <1>1 DEF Detach, TreeInv, LinksType
<1>5. LinksType'
  <2>1. \A x \in Object : children'[x] \in Seq(Object)  BY <1>3, <1>4 DEF TreeInv, LinksType
  <2>2. children' \in [Object -> Seq(Object)]  BY <2>1, <1>1 DEF Detach, TreeInv, LinksType
  <2> QED  BY <2>2 DEF Detach, TreeInv, LinksType
<1>6. Linked'
  <2>1. \A x, y \in Object : y \in Entries(children[x]) <=> parent[y] = x
    BY DEF TreeInv, TreeConsistent, Linked
  <2>2. ASSUME NEW x \in Object, NEW y \in Object
        PROVE  y \in Entries(children'[x]) <=> parent'[y] = x
    <3>1. CASE x = p  BY <3>1, <2>1, <1>3, <1>4, NilAssumption
    <3>2. CASE x # p  BY <3>2, <2>1, <1>3, <1>4, NilAssumption
    <3> QED  BY <3>1, <3>2
  <2> QED  BY <2>2 DEF Linked
<1>7. ListsProper'
  BY <1>3, <1>4 DEF Detach, TreeInv, TreeConsistent, ListsProper
<1>8. Acyclic'  BY <1>4, AcyclicReset DEF TreeInv, TreeConsistent
<1> QED  BY <1>5, <1>6, <1>7, <1>8 DEF TreeInv, TreeConsistent

\* An object that moves among its siblings leaves the lists with the same entries.
LEMMA PlacePreserves ==
  ASSUME TreeInv, NEW o \in Object, NEW i, Movable(o), Place(o, i), Moved,
         i \in 1..Len(Siblings(o))
  PROVE  TreeInv'
<1> DEFINE p == parent[o]
<1>1. p \in Object /\ o \in Entries(children[p])
  BY DEF Movable, TreeInv, LinksType, TreeConsistent, Linked
<1>2. children[p] \in Seq(Object) /\ NoRepeats(children[p])
  BY <1>1 DEF TreeInv, LinksType, TreeConsistent, ListsProper
<1>3. /\ Others(o) \in Seq(Object) /\ Len(Others(o)) = Len(children[p]) - 1
      /\ Entries(Others(o)) = Entries(children[p]) \ {o}
      /\ NoRepeats(Others(o))
  BY <1>1, <1>2, RemoveProperties DEF Others
<1>4. i \in 1..(Len(Others(o)) + 1)
  BY <1>2, <1>3, LenProperties DEF Siblings
<1> DEFINE q == TailqInsertBefore(Others(o), i, o)
<1>5. q \in Seq(Object) /\ Entries(q) = Entries(children[p]) /\ NoRepeats(q)
  <2>1. o \notin Entries(Others(o))  BY <1>3
  <2>2. q \in Seq(Object) /\ Entries(q) = Entries(Others(o)) \cup {o} /\ NoRepeats(q)
    BY <2>1, <1>3, <1>4, InsertBeforeProperties
  <2> QED  BY <2>2, <1>1, <1>3
<1>6. q = InsertAt(Others(o), i, o)  BY DEF TailqInsertBefore
<1> HIDE DEF q
<1>7. \A x \in Object : children'[x] = IF x = p THEN q ELSE children[x]
  BY <1>1, <1>6 DEF Place, TreeInv, LinksType
<1>8. LinksType'
  <2>1. \A x \in Object : children'[x] \in Seq(Object)  BY <1>5, <1>7 DEF TreeInv, LinksType
  <2>2. children' \in [Object -> Seq(Object)]
    BY <2>1, <1>1 DEF Place, TreeInv, LinksType
  <2> QED  BY <2>2 DEF Moved, TreeInv, LinksType
<1>9. TreeConsistent'
  BY <1>5, <1>7 DEF Moved, TreeInv, TreeConsistent, Linked, ListsProper, Acyclic
<1> QED  BY <1>8, <1>9 DEF TreeInv

\* The position of an object among its siblings.
LEMMA SiblingPos ==
  ASSUME TreeInv, NEW o \in Object, Movable(o)
  PROVE  /\ Len(Siblings(o)) \in Nat /\ Pos(Siblings(o), o) \in 1..Len(Siblings(o))
         /\ o # Head(Siblings(o)) => Pos(Siblings(o), o) # 1
         /\ o # Last(Siblings(o)) => Pos(Siblings(o), o) # Len(Siblings(o))
<1> DEFINE q == Siblings(o)
<1>1. q \in Seq(Object) /\ o \in Entries(q)
  BY DEF Siblings, Movable, TreeInv, LinksType, TreeConsistent, Linked
<1>2. Pos(q, o) \in 1..Len(q) /\ q[Pos(q, o)] = o  BY <1>1, PosProperties
<1>3. Len(q) \in Nat  BY <1>1, LenProperties
<1>4. Head(q) = q[1] /\ Last(q) = q[Len(q)]
  <2>1. q # << >>  BY <1>1, EntriesType
  <2> QED  BY <2>1, <1>1, HeadTailProperties DEF Last
<1> QED  BY <1>2, <1>3, <1>4

\* AG_ObjectDelete.
LEMMA DeletePreserves ==
  ASSUME TreeInv, NEW o \in Object, Delete(o)
  PROVE  TreeInv'
<1> DEFINE X == Subtree(o)
           p == parent[o]
<1>0. o \in X /\ X \subseteq Object /\ Closed(X)  BY SubtreeFacts DEF TreeInv
<1>1. p # Nil => /\ p \in Object /\ o \in Entries(children[p])
                 /\ Others(o) \in Seq(Object)
                 /\ Entries(Others(o)) = Entries(children[p]) \ {o}
                 /\ NoRepeats(Others(o))
  <2> SUFFICES ASSUME p # Nil
               PROVE  /\ p \in Object /\ o \in Entries(children[p])
                      /\ Others(o) \in Seq(Object)
                      /\ Entries(Others(o)) = Entries(children[p]) \ {o}
                      /\ NoRepeats(Others(o))
    OBVIOUS
  <2>1. p \in Object /\ o \in Entries(children[p])
    BY DEF TreeInv, LinksType, TreeConsistent, Linked
  <2>2. children[p] \in Seq(Object) /\ NoRepeats(children[p])
    BY <2>1 DEF TreeInv, LinksType, TreeConsistent, ListsProper
  <2> QED  BY <2>1, <2>2, RemoveProperties DEF Others
<1>2. /\ alive' = alive \ X
      /\ children' = [x \in Object |-> IF x \in X THEN << >> ELSE IF x = p THEN Others(o) ELSE children[x]]
      /\ parent' = [x \in Object |-> IF x \in X THEN Nil ELSE parent[x]]
      /\ root' = [x \in Object |-> IF x \in X THEN x ELSE root[x]]
  BY DEF Delete
<1>3. \A x, y \in Object : y \in Entries(children[x]) <=> parent[y] = x
  BY DEF TreeInv, TreeConsistent, Linked
<1>4. \A y \in Object : parent[y] \in X => y \in X  BY <1>0, <1>3 DEF Closed
<1>5. Nil \notin Object  BY NilAssumption
<1> HIDE DEF X
<1>6. << >> \in Seq(Object) /\ Entries(<< >>) = {} /\ NoRepeats(<< >>)
  BY DEF Entries, NoRepeats
<1>7. LinksType'
  BY <1>0, <1>1, <1>2, <1>5, <1>6 DEF TreeInv, LinksType
<1>8. Linked'
  <2> SUFFICES ASSUME NEW x \in Object, NEW y \in Object
               PROVE  y \in Entries(children'[x]) <=> parent'[y] = x
    BY DEF Linked
  <2>1. CASE x \in X
    <3>1. y \notin Entries(children'[x])  BY <2>1, <1>2, <1>6
    <3>2. parent'[y] # x  BY <2>1, <1>2, <1>4, <1>5
    <3> QED  BY <3>1, <3>2
  <2>2. CASE x \notin X /\ x = p
    <3>1. Entries(children'[x]) = Entries(children[x]) \ {o}  BY <2>2, <1>1, <1>2, <1>5
    <3>2. y \in X /\ parent[y] = x => y = o
      <4>1. SUFFICES ASSUME y \in X, parent[y] = x, y # o PROVE FALSE  OBVIOUS
      <4>2. Closed(X \ {y})
        BY <4>1, <2>2, <1>0, <1>3 DEF Closed
      <4>3. X \subseteq X \ {y}
        <5>1. o \in X \ {y} /\ X \ {y} \in SUBSET Object  BY <4>1, <1>0
        <5> QED  BY <5>1, <4>2, SubtreeFacts DEF X, TreeInv
      <4> QED  BY <4>1, <4>3
    <3> QED  BY <3>1, <3>2, <2>2, <1>0, <1>2, <1>3, <1>5
  <2>3. CASE x \notin X /\ x # p
    <3>1. children'[x] = children[x]  BY <2>3, <1>2
    <3>2. y \in X => parent[y] # x
      <4>1. SUFFICES ASSUME y \in X, parent[y] = x PROVE FALSE  OBVIOUS
      <4>2. y # o  BY <4>1, <2>3
      <4>3. Closed(X \ {y})
        BY <4>1, <2>3, <1>0, <1>3 DEF Closed
      <4>4. X \subseteq X \ {y}
        <5>1. o \in X \ {y} /\ X \ {y} \in SUBSET Object  BY <4>2, <1>0
        <5> QED  BY <5>1, <4>3, SubtreeFacts DEF X, TreeInv
      <4> QED  BY <4>1, <4>4
    <3> QED  BY <3>1, <3>2, <2>3, <1>2, <1>3, <1>5
  <2> QED  BY <2>1, <2>2, <2>3
<1>9. ListsProper'
  <2>1. \A x \in Object : NoRepeats(children'[x])
    BY <1>1, <1>2, <1>5, <1>6 DEF TreeInv, TreeConsistent, ListsProper
  <2>2. \A x \in Object : parent'[x] # Nil => {x, parent'[x]} \subseteq alive'
    BY <1>2, <1>4 DEF TreeInv, TreeConsistent, ListsProper
  <2> QED  BY <2>1, <2>2 DEF ListsProper
<1>10. Acyclic'  BY <1>2, AcyclicReset DEF TreeInv, TreeConsistent
<1> QED  BY <1>7, <1>8, <1>9, <1>10 DEF TreeInv, TreeConsistent

\* Every step keeps the invariant of the layout.
LEMMA TreeStep ==
  ASSUME TreeInv, [Next]_vars
  PROVE  TreeInv'
<1>0. ASSUME NEW o \in Object, alive' = alive \cup {o},
             UNCHANGED <<parent, root, children>>
      PROVE  TreeInv'
  <2>1. LinksType' /\ ListsProper'
    BY <1>0 DEF TreeInv, LinksType, TreeConsistent, ListsProper
  <2>2. Linked' /\ Acyclic'
    BY <1>0 DEF TreeInv, TreeConsistent, Linked, Acyclic
  <2> QED  BY <1>0, <2>1, <2>2 DEF TreeInv, TreeConsistent
<1>1. ASSUME NEW o \in Object, InitNamed(o)  PROVE TreeInv'
  BY <1>1, <1>0 DEF InitNamed, Initialised
<1>2. ASSUME NEW o \in Object, NEW p \in Object \cup {Nil}, NEW n, New(o, p, n)
      PROVE  TreeInv'
  <2>1. CASE p = Nil
    BY <1>0, <1>2, <2>1 DEF New, Initialised
  <2>2. CASE p # Nil
    <3>1. p \in alive /\ o \notin alive /\ p \in Object /\ p # o
      BY <1>2, <2>2, NilAssumption DEF New, Initialised
    <3>2. parent[o] = Nil /\ Entries(children[o]) = {}  BY <3>1, DeadUnlinked
    <3>3. Subtree(o) = {o}  BY <3>2, LeafSubtree DEF TreeInv
    <3>4. /\ Linkage(p, o) /\ alive' = alive \cup {o}
      BY <1>2, <2>2 DEF New, Initialised
    <3>5. alive' \subseteq Object /\ alive \cup {p, o} \subseteq alive'
      BY <3>1, <3>4 DEF TreeInv, LinksType
    <3> QED  BY <3>1, <3>2, <3>3, <3>4, <3>5, LinkagePreserves
  <2> QED  BY <2>1, <2>2
<1>3. ASSUME NEW p \in Object, NEW c \in Object, Attach(p, c)  PROVE TreeInv'
  BY <1>3, LinkagePreserves DEF Attach, TreeInv, LinksType
<1>4. ASSUME NEW r \in Object, NEW q \in Object, NEW c \in Object, AttachToNamed(r, q, c)
      PROVE  TreeInv'
  <2>1. PICK p : Attach(p, c)  BY <1>4 DEF AttachToNamed
  <2>2. p \in Object  BY <2>1 DEF Attach, TreeInv, LinksType
  <2> QED  BY <2>1, <2>2, <1>3
<1>5. ASSUME NEW o \in Object, MoveUp(o) \/ MoveDown(o) \/ MoveToHead(o) \/ MoveToTail(o)
      PROVE  TreeInv'
  <2>0. Movable(o)  BY <1>5 DEF MoveUp, MoveDown, MoveToHead, MoveToTail
  <2>1. PICK i : Place(o, i) /\ Moved /\ i \in 1..Len(Siblings(o))
    BY <1>5, <2>0, SiblingPos DEF MoveUp, MoveDown, MoveToHead, MoveToTail
  <2> QED  BY <2>0, <2>1, PlacePreserves
<1>6. ASSUME UNCHANGED links  PROVE TreeInv'
  BY <1>6 DEF links, TreeInv, LinksType, TreeConsistent, Linked, ListsProper, Acyclic
<1>7. ASSUME NEW o \in Object,
             FreeDummyDeps(o) \/ PageOut(o) \/ StartTimer(o) \/ StopTimer(o)
      PROVE  TreeInv'
  BY <1>7, <1>6 DEF FreeDummyDeps, PageOut, StartTimer, StopTimer
<1>8. ASSUME NEW p \in Object, NEW c \in Object, AddDep(p, c) \/ DelDep(p, c)
      PROVE  TreeInv'
  BY <1>8, <1>6 DEF AddDep, DelDep
<1>9. CASE UNCHANGED vars  BY <1>9, <1>6 DEF vars
<1> QED
  BY <1>1, <1>2, <1>3, <1>4, <1>5, <1>7, <1>8, <1>9,
     DetachPreserves, DeletePreserves DEF Next

\* At first there is no object.
LEMMA TreeInitially ==
  ASSUME Init
  PROVE  TreeInv
<1>1. << >> \in Seq(Object) /\ Entries(<< >>) = {} /\ NoRepeats(<< >>)
  BY DEF Entries, NoRepeats
<1> QED
  BY <1>1, NilAssumption DEF Init, TreeInv, LinksType, TreeConsistent, Linked,
                             ListsProper, Acyclic

\* AG_ObjectAttach, AG_ObjectDetach, the moves and AG_ObjectDelete keep the
\* objects a forest in which lists and parent pointers agree, for any number of
\* objects and whatever rules the application keeps to.
THEOREM ForestKept == Spec => []TreeConsistent
<1>1. Init => TreeInv  BY TreeInitially
<1>2. TreeInv /\ [Next]_vars => TreeInv'  BY TreeStep
<1>3. TreeInv => TreeConsistent  BY DEF TreeInv
<1> QED  BY <1>1, <1>2, <1>3, PTL DEF Spec

-----------------------------------------------------------------------------
(* Reference counts *)

DepsType ==
  /\ deps \in [Object -> [Object -> 0..DepMax \cup {Nil}]]
  /\ refs \in [Object -> [Object -> Nat]]

\* An object that is not alive refers to none.
DeadClean == \A o \in Object \ alive : \A d \in Object : deps[o][d] = Nil /\ refs[o][d] = 0

\* The count of one entry: deps[o][d] = n while r references are held.
Counts(n, r) == n \in IF r = 0 THEN {Nil, 0, DepMax} ELSE {r, DepMax}

CountInv ==
  /\ DepsType /\ DeadClean
  /\ \A o, d \in Object : Counts(deps[o][d], refs[o][d])

\* Adding and releasing a reference keeps the count of an entry right.
LEMMA CountStep ==
  ASSUME NEW n \in 0..DepMax \cup {Nil}, NEW r \in Nat, Counts(n, r)
  PROVE  /\ LET m == IF n = Nil THEN 1 ELSE Raised(n)
            IN m \in 0..DepMax /\ m # Nil /\ Counts(m, r + 1)
         /\ r > 0 => /\ n # Nil
                     /\ \A keep \in BOOLEAN :
                          LET m == Released(n, keep)
                          IN m \in 0..DepMax \cup {Nil} /\ Counts(m, r - 1)
         /\ Counts(IF n \in {Nil, DepMax} THEN n ELSE 0, 0)
         /\ Counts(IF n = 0 THEN Nil ELSE n, r)
<1> USE NilAssumption, DepMaxAssumption
<1>0. Nil \notin Nat  OBVIOUS
<1>1. CASE n = Nil  BY <1>0, <1>1 DEF Counts, Raised, Released
<1>2. CASE n # Nil
  <2>1. n \in Nat  BY <1>2
  <2>2. r # 0 => n = r \/ n = DepMax  BY DEF Counts
  <2>3. r = 0 => n = 0 \/ n = DepMax  BY <1>2 DEF Counts
  <2>4. Raised(n) \in 0..DepMax /\ Counts(Raised(n), r + 1)
    BY <2>1, <2>2, <2>3 DEF Counts, Raised
  <2>5. ASSUME r > 0, NEW keep \in BOOLEAN
        PROVE  Released(n, keep) \in 0..DepMax \cup {Nil} /\ Counts(Released(n, keep), r - 1)
    <3>1. CASE n = DepMax  BY <3>1, <2>5 DEF Released, Counts
    <3>2. CASE n # DepMax /\ n = 1
      <4>1. r - 1 = 0  BY <3>2, <2>2, <2>5
      <4>2. Released(n, keep) \in {Nil, 0}  BY <3>2 DEF Released
      <4> QED  BY <4>1, <4>2 DEF Counts
    <3>3. CASE n # DepMax /\ n # 1
      <4>1. n = r /\ r > 1  BY <3>3, <2>2, <2>5
      <4>2. Released(n, keep) = n - 1  BY <3>3 DEF Released
      <4> QED  BY <4>1, <4>2 DEF Counts
    <3> QED  BY <3>1, <3>2, <3>3
  <2>6. Counts(IF n \in {Nil, DepMax} THEN n ELSE 0, 0)  BY <1>2 DEF Counts
  <2>7. Counts(IF n = 0 THEN Nil ELSE n, r)
    BY <1>2, <2>1, <2>2, <2>3 DEF Counts
  <2> QED  BY <1>0, <1>2, <2>1, <2>4, <2>5, <2>6, <2>7
<1> QED  BY <1>1, <1>2

\* Every step keeps the counts right.
LEMMA CountsStep ==
  ASSUME TreeInv, CountInv, [Next]_vars
  PROVE  CountInv'
<1>0. \A o, d \in Object : deps[o][d] \in 0..DepMax \cup {Nil} /\ refs[o][d] \in Nat
                            /\ Counts(deps[o][d], refs[o][d])
  BY DEF CountInv, DepsType
<1>1. ASSUME UNCHANGED <<deps, refs>>, alive \subseteq alive'  PROVE CountInv'
  BY <1>1 DEF CountInv, DepsType, DeadClean
<1>2. ASSUME NEW o \in Object, Delete(o)  PROVE CountInv'
  <2> DEFINE X == Subtree(o)
  <2>1. /\ alive' = alive \ X
        /\ deps' = [x \in Object |-> IF x \in X THEN NoEntries ELSE deps[x]]
        /\ refs' = [x \in Object |-> IF x \in X THEN [d \in Object |-> 0] ELSE refs[x]]
    BY <1>2 DEF Delete
  <2>2. NoEntries \in [Object -> 0..DepMax \cup {Nil}] /\ \A d \in Object : NoEntries[d] = Nil
    BY DEF NoEntries
  <2>3. Counts(Nil, 0)  BY DEF Counts
  <2> HIDE DEF X
  <2>4. DepsType'  BY <2>1, <2>2 DEF CountInv, DepsType
  <2>5. DeadClean'  BY <2>1, <2>2 DEF CountInv, DeadClean
  <2> QED  BY <2>1, <2>2, <2>3, <2>4, <2>5 DEF CountInv
<1>3. ASSUME NEW o \in Object, NEW d \in Object, AddDep(o, d)  PROVE CountInv'
  <2> DEFINE m == IF deps[o][d] = Nil THEN 1 ELSE Raised(deps[o][d])
  <2>1. m \in 0..DepMax /\ Counts(m, refs[o][d] + 1)  BY <1>0, CountStep
  <2>2. /\ alive' = alive /\ o \in alive
        /\ deps' = [deps EXCEPT ![o][d] = m]
        /\ refs' = [refs EXCEPT ![o][d] = @ + 1]
    BY <1>3 DEF AddDep, links
  <2> HIDE DEF m
  <2>3. DepsType'  BY <2>1, <2>2, <1>0 DEF CountInv, DepsType
  <2>4. DeadClean'  BY <2>2 DEF CountInv, DepsType, DeadClean
  <2>5. \A x, y \in Object : Counts(deps'[x][y], refs'[x][y])
    BY <2>1, <2>2, <1>0 DEF CountInv, DepsType
  <2> QED  BY <2>3, <2>4, <2>5 DEF CountInv
<1>4. ASSUME NEW o \in Object, NEW d \in Object, DelDep(o, d)  PROVE CountInv'
  <2> DEFINE m == Released(deps[o][d], o \in Preserving)
  <2>1. refs[o][d] > 0 /\ o \in alive /\ alive' = alive  BY <1>4 DEF DelDep, links
  <2>2. (o \in Preserving) \in BOOLEAN  OBVIOUS
  <2>3. m \in 0..DepMax \cup {Nil} /\ Counts(m, refs[o][d] - 1)
    BY <2>1, <2>2, <1>0, CountStep
  <2>4. /\ deps' = [deps EXCEPT ![o][d] = m]
        /\ refs' = [refs EXCEPT ![o][d] = @ - 1]
    BY <1>4 DEF DelDep
  <2> HIDE DEF m
  <2>5. DepsType'  BY <2>1, <2>3, <2>4, <1>0 DEF CountInv, DepsType
  <2>6. DeadClean'  BY <2>1, <2>4 DEF CountInv, DepsType, DeadClean
  <2>7. \A x, y \in Object : Counts(deps'[x][y], refs'[x][y])
    BY <2>3, <2>4, <1>0 DEF CountInv, DepsType
  <2> QED  BY <2>5, <2>6, <2>7 DEF CountInv
<1>5. ASSUME NEW o \in Object, FreeDummyDeps(o)  PROVE CountInv'
  <2>1. /\ alive' = alive /\ refs' = refs
        /\ \A x, y \in Object : deps'[x][y] \in {deps[x][y], IF deps[x][y] = 0 THEN Nil ELSE deps[x][y]}
    BY <1>5 DEF FreeDummyDeps, links
  <2>2. deps' \in [Object -> [Object -> 0..DepMax \cup {Nil}]]
    BY <1>5, <1>0 DEF FreeDummyDeps
  <2>3. ASSUME NEW x \in Object, NEW y \in Object  PROVE Counts(deps'[x][y], refs'[x][y])
    <3>1. Counts(IF deps[x][y] = 0 THEN Nil ELSE deps[x][y], refs[x][y])  BY <1>0, CountStep
    <3> QED  BY <3>1, <2>1, <1>0
  <2>4. DeadClean'
    BY <2>1 DEF CountInv, DeadClean
  <2> QED  BY <2>1, <2>2, <2>3, <2>4 DEF CountInv, DepsType
<1>6. ASSUME NEW o \in Object, PageOut(o)  PROVE CountInv'
  <2>1. /\ alive' = alive /\ o \in alive
        /\ deps' = [deps EXCEPT ![o] = [d \in Object |-> IF @[d] \in {Nil, DepMax} THEN @[d] ELSE 0]]
        /\ refs' = [refs EXCEPT ![o] = [d \in Object |-> 0]]
    BY <1>6 DEF PageOut, links
  <2>2. \A x, y \in Object :
          /\ deps'[x][y] = IF x = o THEN IF deps[x][y] \in {Nil, DepMax} THEN deps[x][y] ELSE 0
                                    ELSE deps[x][y]
          /\ refs'[x][y] = IF x = o THEN 0 ELSE refs[x][y]
    BY <2>1 DEF CountInv, DepsType
  <2>3. DepsType'
    BY <2>1, <1>0, DepMaxAssumption DEF CountInv, DepsType
  <2>4. ASSUME NEW x \in Object, NEW y \in Object  PROVE Counts(deps'[x][y], refs'[x][y])
    <3>1. Counts(IF deps[x][y] \in {Nil, DepMax} THEN deps[x][y] ELSE 0, 0)  BY <1>0, CountStep
    <3> QED  BY <3>1, <2>2, <1>0
  <2>5. DeadClean'  BY <2>1, <2>2 DEF CountInv, DeadClean
  <2> QED  BY <2>3, <2>4, <2>5 DEF CountInv
<1>7. ASSUME NEW o \in Object,
             \/ InitNamed(o) \/ Detach(o) \/ StartTimer(o) \/ StopTimer(o)
             \/ MoveUp(o) \/ MoveDown(o) \/ MoveToHead(o) \/ MoveToTail(o)
      PROVE  CountInv'
  BY <1>7, <1>1 DEF InitNamed, Initialised, Detach, StartTimer, StopTimer, links,
                    MoveUp, MoveDown, MoveToHead, MoveToTail, Moved
<1>8. ASSUME NEW o \in Object, NEW p, NEW n, New(o, p, n)  PROVE CountInv'
  BY <1>8, <1>1 DEF New, Initialised
<1>9. ASSUME NEW p, NEW c, Attach(p, c)  PROVE CountInv'
  BY <1>9, <1>1 DEF Attach
<1>10. ASSUME NEW r, NEW q, NEW c, AttachToNamed(r, q, c)  PROVE CountInv'
  BY <1>9, <1>10 DEF AttachToNamed
<1>11. CASE UNCHANGED vars  BY <1>11, <1>1 DEF vars, links
<1> QED
  BY <1>2, <1>3, <1>4, <1>5, <1>6, <1>7, <1>8, <1>9, <1>10, <1>11 DEF Next

\* At first no object depends on another.
LEMMA CountsInitially ==
  ASSUME Init
  PROVE  CountInv
BY NilAssumption DEF Init, NoEntries, CountInv, DepsType, DeadClean, Counts

\* AG_ObjectDelDep never removes the entry of a reference that is still held,
\* however many were taken: a count that reached AG_OBJECT_DEP_MAX stays there.
THEOREM ReferencesHeld == Spec => []RefsCounted
<1> DEFINE Inv == TreeInv /\ CountInv
<1>1. Init => Inv  BY TreeInitially, CountsInitially
<1>2. Inv /\ [Next]_vars => Inv'  BY TreeStep, CountsStep
<1>3. Inv => RefsCounted
  BY DEF CountInv, Counts, RefsCounted, TreeInv, LinksType
<1> QED  BY <1>1, <1>2, <1>3, PTL DEF Spec

-----------------------------------------------------------------------------
(* Root pointers *)

\* The root pointer of an object is that of its parent, or was when the parent was
\* itself a root.
RootOf(o) == root[o] \in IF parent[o] = Nil THEN {o} ELSE {parent[o], root[parent[o]]}
RootInv == \A o \in Object : RootOf(o)

\* While only leaves are detached every step keeps it so.
LEMMA RootStep ==
  ASSUME "leaves" \in Rules, TreeInv, RootInv, [Next]_vars
  PROVE  RootInv'
<1>0. /\ \A x \in Object : RootOf(x) /\ parent[x] \in Object \cup {Nil}
      /\ Nil \notin Object
  BY NilAssumption DEF RootInv, TreeInv, LinksType
<1>1. ASSUME UNCHANGED <<parent, root>>  PROVE RootInv'
  BY <1>0, <1>1 DEF RootInv, RootOf
<1>2. ASSUME NEW p \in Object, NEW c \in Object, Linkage(p, c), p # c, parent[c] = Nil
      PROVE  RootInv'
  <2>1. /\ \A x \in Object : parent'[x] = IF x = c THEN p ELSE parent[x]
        /\ \A x \in Object : root'[x] = IF x = c THEN root[p] ELSE root[x]
    BY <1>2 DEF Linkage, TreeInv, LinksType
  <2>2. root[c] = c  BY <1>0, <1>2 DEF RootOf
  <2>3. ASSUME NEW x \in Object  PROVE RootOf(x)'
    <3>1. CASE x = c  BY <3>1, <2>1, <1>0, <1>2 DEF RootOf
    <3>2. CASE x # c /\ parent[x] = c
      <4>1. root'[x] = c /\ parent'[x] = c  BY <3>2, <2>1, <2>2, <1>0, <1>2 DEF RootOf
      <4> QED  BY <4>1, <1>0 DEF RootOf
    <3>3. CASE x # c /\ parent[x] # c
      BY <3>3, <2>1, <1>0 DEF RootOf
    <3> QED  BY <3>1, <3>2, <3>3
  <2> QED  BY <2>3 DEF RootInv
<1>3. ASSUME NEW o \in Object, NEW p \in Object \cup {Nil}, NEW n, New(o, p, n)
      PROVE  RootInv'
  <2>1. CASE p = Nil  BY <1>1, <1>3, <2>1 DEF New, Initialised
  <2>2. CASE p # Nil
    <3>1. o \notin alive /\ p \in alive /\ Linkage(p, o)
      BY <1>3, <2>2 DEF New, Initialised
    <3> QED  BY <1>2, <1>3, <2>2, <3>1, DeadUnlinked
  <2> QED  BY <2>1, <2>2
<1>4. ASSUME NEW p \in Object, NEW c \in Object, Attach(p, c)  PROVE RootInv'
  <2>1. p # c  BY <1>4, SubtreeFacts DEF Attach, TreeInv
  <2> QED  BY <1>2, <1>4, <2>1 DEF Attach
<1>5. ASSUME NEW r, NEW q, NEW c \in Object, AttachToNamed(r, q, c)  PROVE RootInv'
  <2>1. PICK p : Attach(p, c)  BY <1>5 DEF AttachToNamed
  <2>2. p \in Object  BY <2>1 DEF Attach, TreeInv, LinksType
  <2> QED  BY <2>1, <2>2, <1>4
<1>6. ASSUME NEW c \in Object, Detach(c)  PROVE RootInv'
  <2>1. /\ \A x \in Object : parent'[x] = IF x = c THEN Nil ELSE parent[x]
        /\ \A x \in Object : root'[x] = IF x = c THEN c ELSE root[x]
        /\ children[c] = << >>
    BY <1>6 DEF Detach, TreeInv, LinksType
  <2>2. \A y \in Object : parent[y] # c
    BY <2>1 DEF TreeInv, TreeConsistent, Linked, Entries
  <2>3. ASSUME NEW x \in Object  PROVE RootOf(x)'
    BY <2>1, <2>2, <1>0 DEF RootOf
  <2> QED  BY <2>3 DEF RootInv
<1>7. ASSUME NEW o \in Object, Delete(o)  PROVE RootInv'
  <2> PICK X : X = Subtree(o)  OBVIOUS
  <2>1. /\ \A x \in Object : parent'[x] = IF x \in X THEN Nil ELSE parent[x]
        /\ \A x \in Object : root'[x] = IF x \in X THEN x ELSE root[x]
    BY <1>7 DEF Delete
  <2>2. \A y \in Object : parent[y] \in Object /\ parent[y] \in X => y \in X
    BY SubtreeFacts DEF Closed, TreeInv, TreeConsistent, Linked
  <2>3. ASSUME NEW x \in Object  PROVE RootOf(x)'
    BY <2>1, <2>2, <1>0 DEF RootOf
  <2> QED  BY <2>3 DEF RootInv
<1>8. ASSUME NEW o \in Object,
             \/ FreeDummyDeps(o) \/ PageOut(o) \/ StartTimer(o) \/ StopTimer(o)
             \/ MoveUp(o) \/ MoveDown(o) \/ MoveToHead(o) \/ MoveToTail(o) \/ InitNamed(o)
      PROVE  RootInv'
  BY <1>8, <1>1 DEF FreeDummyDeps, PageOut, StartTimer, StopTimer, links, InitNamed,
                    MoveUp, MoveDown, MoveToHead, MoveToTail, Moved
<1>9. ASSUME NEW o, NEW d, AddDep(o, d) \/ DelDep(o, d)  PROVE RootInv'
  <2>1. CASE AddDep(o, d)  BY <2>1, <1>1 DEF AddDep, links
  <2>2. CASE DelDep(o, d)  BY <2>2, <1>1 DEF DelDep, links
  <2> QED  BY <1>9, <2>1, <2>2
<1>10. CASE UNCHANGED vars  BY <1>10, <1>1 DEF vars, links
<1> QED
  BY <1>3, <1>4, <1>5, <1>6, <1>7, <1>8, <1>9, <1>10 DEF Next

\* At first every structure is a root.
LEMMA RootInitially ==
  ASSUME Init
  PROVE  RootInv
BY DEF Init, RootInv, RootOf

-----------------------------------------------------------------------------
(* Names and paths *)

\* AG_ObjectFindChild returns a child of the name, if there is one.
LEMMA FindChildFacts ==
  ASSUME TreeInv, NEW p \in Object, NEW n
  PROVE  /\ FindChild(p, n) = Nil => \A x \in Object : parent[x] = p => name[x] # n
         /\ FindChild(p, n) # Nil => \E x \in Object : /\ FindChild(p, n) = x
                                                       /\ parent[x] = p /\ name[x] = n
         /\ FindChild(p, n) \in Object \cup {Nil}
<1> PICK q \in Seq(Object) : q = children[p]  BY DEF TreeInv, LinksType
<1>1. DOMAIN q = 1 .. Len(q) /\ Len(q) \in Nat  BY LenProperties
<1>2. \A x \in Object : parent[x] = p <=> x \in Entries(q)
  BY DEF TreeInv, TreeConsistent, Linked
<1> DEFINE hits == {i \in DOMAIN q : name[q[i]] = n}
<1>3. hits = Hits(p, n)  BY DEF Hits
<1>4. CASE hits = {}
  <2>1. \A x \in Object : parent[x] = p => name[x] # n  BY <1>2, <1>4 DEF Entries
  <2>2. FindChild(p, n) = Nil  BY <1>3, <1>4 DEF FindChild
  <2> QED  BY <2>1, <2>2
<1>5. CASE hits # {}
  <2>1. hits \in SUBSET Nat  BY <1>1
  <2>2. \E m \in hits : \A j \in hits : m <= j
    <3> PICK S : S = hits  OBVIOUS
    <3>1. \E m \in S : \A j \in S : m <= j  BY <1>5, <2>1, Least
    <3> QED  BY <3>1
  <2>3. PICK m \in hits : FindChild(p, n) = q[m]
    <3> HIDE DEF hits
    <3> QED  BY <1>3, <1>5, <2>2 DEF FindChild
  <2>4. q[m] \in Entries(q) /\ q[m] \in Object /\ name[q[m]] = n
    BY <1>1, ElementOfSeq DEF Entries
  <2>5. parent[q[m]] = p  BY <1>2, <2>4
  <2> QED  BY <2>3, <2>4, <2>5, NilAssumption
<1> QED  BY <1>4, <1>5

\* Among the numbers up to that of all objects one is free for a child: otherwise
\* two of them would be the name of one child.
LEMMA GenNameFree ==
  ASSUME TreeInv, NEW p \in Object
  PROVE  FindChild(p, GenName(p)) = Nil
<1> PICK k \in Nat : k = Cardinality(Object)
  BY ObjectAssumption, FS_CardinalityType
<1> DEFINE free == {i \in 0 .. k : FindChild(p, i) = Nil}
           f == [i \in 0 .. k |-> FindChild(p, i)]
<1>1. free # {}
  <2>1. SUFFICES ASSUME \A i \in 0 .. k : FindChild(p, i) # Nil PROVE FALSE  OBVIOUS
  <2>2. \A i \in 0 .. k : f[i] \in Object /\ name[f[i]] = i  BY <2>1, FindChildFacts
  <2>3. f \in [0 .. k -> Object]  BY <2>2
  <2>4. IsFiniteSet(0 .. k) /\ Cardinality(0 .. k) = k + 1
    BY FS_Interval
  <2> PICK g \in [0 .. k -> Object] : g = f  BY <2>3
  <2> HIDE DEF f
  <2>5. PICK i, j \in 0 .. k : i # j /\ g[i] = g[j]
    BY <2>4, ObjectAssumption, FS_PigeonHole
  <2> QED  BY <2>2, <2>5
<1>2. PICK i \in free : \A j \in free : i <= j
  <2>1. free \in SUBSET Nat  OBVIOUS
  <2> HIDE DEF free
  <2> QED  BY <1>1, <2>1, Least
<1>3. /\ i \in 0 .. k /\ FindChild(p, i) = Nil
      /\ \A j \in 0 .. (i - 1) : FindChild(p, j) # Nil
  BY <1>2
<1>4. p # Nil  BY NilAssumption
<1> QED  BY <1>3, <1>4 DEF GenName

\* The path of an object, from those in F; F is the paths of all objects in S.
PathStep(F, o) ==
  IF parent[o] = root[o] \/ parent[o] = Nil THEN <<name[o]>>
  ELSE Append(F[parent[o]], name[o])
Upward(S) == \A o \in S : parent[o] = root[o] \/ parent[o] = Nil \/ parent[o] \in S
PathsOn(F, S) == \A o \in S : F[o] = PathStep(F, o)

\* An object has one path.
LEMMA PathsAgree ==
  ASSUME Acyclic, NEW S \in SUBSET Object, NEW T \in SUBSET Object, Upward(S), Upward(T),
         NEW F, PathsOn(F, S), NEW G, PathsOn(G, T), NEW o \in S \cap T
  PROVE  F[o] = G[o]
<1> DEFINE Bad == {x \in S \cap T : F[x] # G[x]}
<1> SUFFICES ASSUME Bad # {} PROVE FALSE  OBVIOUS
<1>1. Bad \in SUBSET Object  OBVIOUS
<1>2. PICK x \in Bad : parent[x] \notin Bad
  <2> HIDE DEF Bad
  <2> QED  BY <1>1 DEF Acyclic
<1>3. x \in S /\ x \in T /\ F[x] # G[x]  OBVIOUS
<1>4. F[x] = PathStep(F, x) /\ G[x] = PathStep(G, x)  BY <1>3 DEF PathsOn
<1>5. parent[x] # root[x] /\ parent[x] # Nil  BY <1>3, <1>4 DEF PathStep
<1>6. parent[x] \in S /\ parent[x] \in T  BY <1>3, <1>5 DEF Upward
<1>7. F[parent[x]] = G[parent[x]]  BY <1>2, <1>6
<1> QED  BY <1>3, <1>4, <1>7 DEF PathStep

\* Every object has a path, as there are no cycles.
LEMMA PathsExist ==
  ASSUME Acyclic, parent \in [Object -> Object \cup {Nil}]
  PROVE  \E F : F = [o \in Object |-> PathStep(F, o)]
<1> DEFINE Led(o, F, S) == o \in S /\ Upward(S) /\ PathsOn(F, S)
           Out == {o \in Object : \A F : \A S \in SUBSET Object : ~Led(o, F, S)}
<1>1. Out = {}
  <2> SUFFICES ASSUME Out # {} PROVE FALSE  OBVIOUS
  <2>1. Out \in SUBSET Object  OBVIOUS
  <2>2. PICK o \in Out : parent[o] \notin Out
    <3> HIDE DEF Out
    <3> QED  BY <2>1 DEF Acyclic
  <2>3. o \in Object  OBVIOUS
  <2>4. CASE parent[o] = root[o] \/ parent[o] = Nil
    <3> DEFINE F == [x \in {o} |-> <<name[o]>>]
    <3>1. F[o] = <<name[o]>>  OBVIOUS
    <3> HIDE DEF F
    <3>2. Led(o, F, {o})  BY <2>4, <3>1 DEF Upward, PathsOn, PathStep
    <3>3. {o} \in SUBSET Object  OBVIOUS
    <3> HIDE DEF On
    <3> QED  BY <3>2, <3>3
  <2>5. CASE ~(parent[o] = root[o] \/ parent[o] = Nil)
    <3>1. parent[o] \in Object  BY <2>3, <2>5
    <3>2. PICK F : \E S \in SUBSET Object : Led(parent[o], F, S)
      <4> HIDE DEF On
      <4> QED  BY <2>2, <3>1
    <3> PICK S \in SUBSET Object : Led(parent[o], F, S)  BY <3>2
    <3>3. o \notin S  BY <3>2
    <3> DEFINE G == [x \in S \cup {o} |-> IF x = o THEN Append(F[parent[o]], name[o]) ELSE F[x]]
    <3>4. G[o] = Append(F[parent[o]], name[o])  OBVIOUS
    <3>5. \A x \in S : G[x] = F[x]  BY <3>3
    <3> HIDE DEF G
    <3>6. Upward(S \cup {o})  BY <3>2 DEF Upward
    <3>7. ASSUME NEW x \in S \cup {o}  PROVE G[x] = PathStep(G, x)
      <4>1. CASE x = o
        <5>1. G[parent[o]] = F[parent[o]]  BY <3>2, <3>5
        <5> QED  BY <4>1, <5>1, <3>4, <2>5 DEF PathStep
      <4>2. CASE x \in S
        <5>1. F[x] = PathStep(F, x)  BY <4>2, <3>2 DEF PathsOn
        <5>2. CASE parent[x] = root[x] \/ parent[x] = Nil
          BY <5>1, <5>2, <4>2, <3>5 DEF PathStep
        <5>3. CASE ~(parent[x] = root[x] \/ parent[x] = Nil)
          <6>1. parent[x] \in S  BY <5>3, <4>2, <3>2 DEF Upward
          <6>2. G[parent[x]] = F[parent[x]] /\ G[x] = F[x]  BY <6>1, <4>2, <3>5
          <6> QED  BY <5>1, <6>2 DEF PathStep
        <5> QED  BY <5>2, <5>3
      <4> QED  BY <4>1, <4>2
    <3>8. PathsOn(G, S \cup {o})  BY <3>7 DEF PathsOn
    <3>9. Led(o, G, S \cup {o}) /\ S \cup {o} \in SUBSET Object  BY <3>6, <3>8
    <3> HIDE DEF On
    <3> QED  BY <3>9
  <2> QED  BY <2>4, <2>5
<1>2. \A o \in Object : \E F : \E S \in SUBSET Object : Led(o, F, S)
  <2> HIDE DEF On
  <2> QED  BY <1>1
<1> DEFINE Fn(o) == CHOOSE F : \E S \in SUBSET Object : Led(o, F, S)
           Path == [o \in Object |-> Fn(o)[o]]
<1>3. \A o \in Object : \E S \in SUBSET Object : Led(o, Fn(o), S)
  <2> HIDE DEF On
  <2> QED  BY <1>2
<1> HIDE DEF Fn
<1>4. ASSUME NEW o \in Object  PROVE Path[o] = PathStep(Path, o)
  <2>1. PICK S \in SUBSET Object : Led(o, Fn(o), S)  BY <1>3
  <2>2. PICK F : F = Fn(o)  OBVIOUS
  <2>3. Path[o] = PathStep(F, o)  BY <2>1, <2>2 DEF PathsOn
  <2>4. CASE parent[o] = root[o] \/ parent[o] = Nil
    <3> HIDE DEF Path
    <3> QED  BY <2>3, <2>4 DEF PathStep
  <2>5. CASE ~(parent[o] = root[o] \/ parent[o] = Nil)
    <3> PICK p \in Object : p = parent[o]  BY <2>5
    <3>1. PICK T \in SUBSET Object : Led(p, Fn(p), T)  BY <1>3
    <3>2. p \in S \cap T  BY <2>1, <2>5, <3>1 DEF Upward
    <3>3. F[p] = Fn(p)[p]  BY <2>1, <2>2, <3>1, <3>2, PathsAgree
    <3>4. Path[p] = F[p]  BY <3>3
    <3> HIDE DEF Path
    <3> QED  BY <2>3, <3>4 DEF PathStep
  <2> QED  BY <2>4, <2>5
<1>5. Path = [o \in Object |-> PathStep(Path, o)]
  <2>1. Path = [o \in Object |-> Path[o]]  OBVIOUS
  <2> HIDE DEF Path
  <2> QED  BY <1>4, <2>1
<1> QED  BY <1>5

Names == {name[o] : o \in Object}

\* The path of an object is that of its parent, and its name.
LEMMA CopyNameFacts ==
  ASSUME TreeInv, NEW o \in Object
  PROVE  /\ CopyName(o) = IF parent[o] = root[o] \/ parent[o] = Nil THEN <<name[o]>>
                          ELSE Append(CopyName(parent[o]), name[o])
         /\ CopyName(o) \in Seq(Names)
<1> DEFINE Rec(F) == F = [x \in Object |->
                            IF parent[x] = root[x] \/ parent[x] = Nil THEN <<name[x]>>
                            ELSE Append(F[parent[x]], name[x])]
           Path == CHOOSE F : Rec(F)
<1>0. Acyclic /\ parent \in [Object -> Object \cup {Nil}]
  BY DEF TreeInv, TreeConsistent, LinksType
<1>1. \E F : Rec(F)  BY <1>0, PathsExist DEF PathStep
<1>2. Rec(Path)  BY <1>1
<1>3. \A x \in Object : CopyName(x) = Path[x]  BY DEF CopyName
<1> HIDE DEF Path
<1>4. \A x \in Object : CopyName(x) = IF parent[x] = root[x] \/ parent[x] = Nil THEN <<name[x]>>
                                      ELSE Append(CopyName(parent[x]), name[x])
  <2>1. \A x \in Object : Path[x] = IF parent[x] = root[x] \/ parent[x] = Nil THEN <<name[x]>>
                                    ELSE Append(Path[parent[x]], name[x])
    BY <1>2, Zenon
  <2>2. \A x \in Object : parent[x] = Nil \/ CopyName(parent[x]) = Path[parent[x]]
    BY <1>0, <1>3
  <2> QED  BY <1>3, <2>1, <2>2
<1> DEFINE Bad == {x \in Object : CopyName(x) \notin Seq(Names)}
<1>5. Bad = {}
  <2> SUFFICES ASSUME Bad # {} PROVE FALSE  OBVIOUS
  <2>1. Bad \in SUBSET Object  OBVIOUS
  <2>2. PICK x \in Bad : parent[x] \notin Bad
    <3> HIDE DEF Bad
    <3> QED  BY <1>0, <2>1 DEF Acyclic
  <2>3. x \in Object /\ name[x] \in Names  BY DEF Names
  <2>4. parent[x] = Nil \/ CopyName(parent[x]) \in Seq(Names)  BY <1>0, <2>2, <2>3
  <2> PICK n \in Names : n = name[x]  BY <2>3
  <2>5. CopyName(x) = <<n>> \/ \E s \in Seq(Names) : CopyName(x) = Append(s, n)
    BY <1>4, <2>3, <2>4
  <2>6. <<n>> \in Seq(Names) /\ \A s \in Seq(Names) : Append(s, n) \in Seq(Names)
    OBVIOUS
  <2> QED  BY <2>3, <2>5, <2>6
<1> QED  BY <1>4, <1>5

\* Where a path leads from r, after each of its names.
PathWalk(At, r, path) ==
  /\ At[0] = r
  /\ \A i \in 1 .. Len(path) :
       At[i] = IF At[i - 1] = Nil THEN Nil ELSE FindChild(At[i - 1], path[i])

\* AG_ObjectFindS takes one step for each name of the path.
LEMMA FindSWalk ==
  ASSUME TreeInv, NEW r \in Object, NEW path, Len(path) \in Nat
  PROVE  \E At : PathWalk(At, r, path) /\ FindS(r, path) = At[Len(path)]
<1> PICK n \in Nat : n = Len(path)  OBVIOUS
<1> DEFINE K == Object \cup {Nil}
           Step(i, o) == IF o = Nil THEN Nil ELSE FindChild(o, path[i])
           Rec(F) == F = [i \in 0 .. n |-> IF i = 0 THEN r
                                           ELSE IF F[i - 1] = Nil THEN Nil
                                           ELSE FindChild(F[i - 1], path[i])]
           At == CHOOSE F : Rec(F)
<1>1. \E F : Rec(F)
  <2> DEFINE step == [x \in (1 .. n) \X K |-> Step(x[1], x[2])]
  <2>1. step \in Steps(n, K)  BY FindChildFacts DEF Steps
  <2>2. PICK F : ByStep(F, n, K, r, step)
    <3> HIDE DEF K, step
    <3>1. r \in K  BY DEF K
    <3> QED  BY <2>1, <3>1, StepByStep
  <2>3. F \in [0 .. n -> K] /\ F[0] = r  BY <2>2 DEF ByStep
  <2>4. ASSUME NEW i \in 1 .. n  PROVE F[i] = Step(i, F[i - 1])
    <3>1. i - 1 \in 0 .. n  OBVIOUS
    <3>2. F[i - 1] \in K  BY <2>3, <3>1
    <3>3. F[i] = step[<<i, F[i - 1]>>]  BY <2>2 DEF ByStep
    <3> QED  BY <3>2, <3>3
  <2>5. \A i \in 0 .. n : i # 0 => i \in 1 .. n  OBVIOUS
  <2>6. Rec(F)
    <3>1. F = [i \in 0 .. n |-> F[i]]  BY <2>3
    <3>2. \A i \in 0 .. n : F[i] = IF i = 0 THEN r ELSE Step(i, F[i - 1])  BY <2>3, <2>4, <2>5
    <3> QED  BY <3>1, <3>2
  <2> QED  BY <2>6
<1>2. Rec(At)  BY <1>1
<1>3. FindS(r, path) = At[n]  BY DEF FindS
<1> HIDE DEF At
<1>4. \A i \in 0 .. n : At[i] = IF i = 0 THEN r ELSE IF At[i - 1] = Nil THEN Nil
                                ELSE FindChild(At[i - 1], path[i])
  BY <1>2, Zenon
<1>5. 0 \in 0 .. n /\ \A i \in 1 .. n : i \in 0 .. n /\ i # 0  OBVIOUS
<1> HIDE DEF Rec
<1>6. PathWalk(At, r, path)  BY <1>4, <1>5 DEF PathWalk
<1> QED  BY <1>3, <1>6

\* A path of one name leads to a child.
LEMMA FindSOne ==
  ASSUME TreeInv, NEW r \in Object, NEW n
  PROVE  FindS(r, <<n>>) = FindChild(r, n)
<1> PICK s : s = <<n>>  OBVIOUS
<1>1. Len(s) = 1 /\ s[1] = n  OBVIOUS
<1>2. PICK At : PathWalk(At, r, s) /\ FindS(r, s) = At[Len(s)]  BY <1>1, FindSWalk
<1>3. At[1] = FindChild(r, n)
  <2>1. 1 \in 1 .. Len(s) /\ 1 - 1 = 0  BY <1>1
  <2> QED  BY <1>1, <1>2, <2>1, NilAssumption DEF PathWalk
<1> QED  BY <1>1, <1>2, <1>3

\* A path with one more name leads to a child of where it led.
LEMMA FindSAppend ==
  ASSUME TreeInv, NEW r \in Object, NEW K, NEW s \in Seq(K), NEW n \in K,
         FindS(r, s) # Nil
  PROVE  FindS(r, Append(s, n)) = FindChild(FindS(r, s), n)
<1> PICK m \in Nat : m = Len(s)  BY LenProperties
<1> PICK t : t = Append(s, n)  OBVIOUS
<1>1. Len(t) = m + 1 /\ t[m + 1] = n /\ \A i \in 1 .. m : t[i] = s[i]
  BY AppendProperties
<1>2. PICK F : PathWalk(F, r, s) /\ FindS(r, s) = F[m]  BY FindSWalk
<1>3. PICK G : PathWalk(G, r, t) /\ FindS(r, t) = G[m + 1]
  <2>1. Len(t) \in Nat  BY <1>1
  <2>2. \E G : PathWalk(G, r, t) /\ FindS(r, t) = G[Len(t)]  BY <2>1, FindSWalk
  <2> QED  BY <1>1, <2>2
<1> DEFINE S == {i \in 0 .. m : F[i] = G[i]}
<1>4. 0 \in S  BY <1>2, <1>3 DEF PathWalk
<1>5. ASSUME NEW i \in 0 .. m, i # m, i \in S  PROVE i + 1 \in S
  <2>1. i + 1 \in 1 .. m /\ i + 1 \in 1 .. m + 1 /\ i + 1 - 1 = i /\ i + 1 \in 0 .. m
    BY <1>5
  <2>2. F[i] = G[i] /\ t[i + 1] = s[i + 1]  BY <1>1, <1>5, <2>1
  <2>3. /\ F[i + 1] = IF F[i] = Nil THEN Nil ELSE FindChild(F[i], s[i + 1])
        /\ G[i + 1] = IF G[i] = Nil THEN Nil ELSE FindChild(G[i], t[i + 1])
    <3> PICK j : j = i + 1  OBVIOUS
    <3>1. j \in 1 .. Len(s) /\ j \in 1 .. Len(t) /\ j - 1 = i  BY <1>1, <2>1
    <3>2. F[j] = IF F[i] = Nil THEN Nil ELSE FindChild(F[i], s[j])
      <4>1. F[j] = IF F[j - 1] = Nil THEN Nil ELSE FindChild(F[j - 1], s[j])
        BY <1>2, <3>1 DEF PathWalk
      <4> QED  BY <3>1, <4>1
    <3>3. G[j] = IF G[i] = Nil THEN Nil ELSE FindChild(G[i], t[j])
      <4>1. G[j] = IF G[j - 1] = Nil THEN Nil ELSE FindChild(G[j - 1], t[j])
        BY <1>3, <3>1 DEF PathWalk
      <4> QED  BY <3>1, <4>1
    <3> QED  BY <3>2, <3>3
  <2>4. F[i + 1] = G[i + 1]  BY <2>2, <2>3
  <2> QED  BY <2>1, <2>4
<1>6. m \in S
  <2> HIDE DEF S
  <2>1. m \in 0 .. m  OBVIOUS
  <2> QED  BY <1>4, <1>5, <2>1, UpTo
<1>7. G[m] = FindS(r, s)  BY <1>2, <1>6
<1>8. m + 1 \in 1 .. m + 1 /\ m + 1 - 1 = m  OBVIOUS
<1> QED  BY <1>1, <1>3, <1>7, <1>8 DEF PathWalk

\* Siblings have different names.
NamesInv ==
  /\ name = [o \in Object |-> name[o]]
  /\ \A x, y \in Object : parent[x] # Nil /\ parent[x] = parent[y] /\ name[x] = name[y] => x = y

\* An object that gets a parent gets a name that no child of it has.
LEMMA NamesLinked ==
  ASSUME TreeInv, NamesInv, NEW p \in Object, NEW c \in Object, NEW m, FindChild(p, m) = Nil,
         Linkage(p, c), name' = [name EXCEPT ![c] = m]
  PROVE  NamesInv'
<1>1. \A x \in Object : parent'[x] = IF x = c THEN p ELSE parent[x]
  BY DEF Linkage, TreeInv, LinksType
<1>2. \A x \in Object : name'[x] = IF x = c THEN m ELSE name[x]
  BY DEF NamesInv
<1>3. name' = [o \in Object |-> name'[o]]  BY DEF NamesInv
<1>4. \A x \in Object : parent[x] = p => name[x] # m  BY FindChildFacts
<1> QED  BY <1>1, <1>2, <1>3, <1>4, NilAssumption DEF NamesInv

\* They do as long as the application names none like a sibling.
LEMMA NamesStep ==
  ASSUME "names" \in Rules, TreeInv, NamesInv, [Next]_vars
  PROVE  NamesInv'
<1>1. ASSUME UNCHANGED <<parent, name>>  PROVE NamesInv'
  BY <1>1 DEF NamesInv
<1>2. ASSUME NEW o \in Object, o \notin alive, NEW m, name' = [name EXCEPT ![o] = m],
             UNCHANGED parent
      PROVE  NamesInv'
  <2>1. parent[o] = Nil  BY <1>2, DeadUnlinked
  <2>2. \A x \in Object : x # o => name'[x] = name[x]  BY <1>2 DEF NamesInv
  <2>3. name' = [x \in Object |-> name'[x]]  BY <1>2 DEF NamesInv
  <2> QED  BY <1>2, <2>1, <2>2, <2>3 DEF NamesInv
<1>3. ASSUME NEW o \in Object, NEW p \in Object \cup {Nil}, NEW n, New(o, p, n)
      PROVE  NamesInv'
  <2>1. CASE p = Nil  BY <1>2, <1>3, <2>1 DEF New, Initialised
  <2>2. CASE p # Nil
    <3> PICK m : m = IF n = Nil THEN GenName(p) ELSE n  OBVIOUS
    <3>1. p \in Object  BY <2>2
    <3>2. FindChild(p, m) = Nil  BY <1>3, <2>2, <3>1, GenNameFree DEF New
    <3>3. Linkage(p, o) /\ name' = [name EXCEPT ![o] = m]
      BY <1>3, <2>2 DEF New, Initialised
    <3> QED  BY <3>1, <3>2, <3>3, NamesLinked
  <2> QED  BY <2>1, <2>2
<1>4. ASSUME NEW p \in Object, NEW c \in Object, Attach(p, c)  PROVE NamesInv'
  <2> PICK m : m = AttachedName(p, c)  OBVIOUS
  <2>1. FindChild(p, m) = Nil
    BY <1>4, GenNameFree DEF Attach, AttachedName, NameFree
  <2>2. Linkage(p, c) /\ name' = [name EXCEPT ![c] = m]  BY <1>4 DEF Attach
  <2> QED  BY <2>1, <2>2, NamesLinked
<1>5. ASSUME NEW r, NEW q, NEW c \in Object, AttachToNamed(r, q, c)  PROVE NamesInv'
  <2>1. PICK p : Attach(p, c)  BY <1>5 DEF AttachToNamed
  <2>2. p \in Object  BY <2>1 DEF Attach, TreeInv, LinksType
  <2> QED  BY <2>1, <2>2, <1>4
<1>6. ASSUME NEW c \in Object, Detach(c)  PROVE NamesInv'
  <2>1. name' = name /\ \A x \in Object : parent'[x] = IF x = c THEN Nil ELSE parent[x]
    BY <1>6 DEF Detach, TreeInv, LinksType
  <2> QED  BY <2>1 DEF NamesInv
<1>7. ASSUME NEW o \in Object, Delete(o)  PROVE NamesInv'
  <2> PICK X : X = Subtree(o)  OBVIOUS
  <2>1. /\ parent' = [x \in Object |-> IF x \in X THEN Nil ELSE parent[x]]
        /\ name' = [x \in Object |-> IF x \in X THEN Nil ELSE name[x]]
    BY <1>7 DEF Delete
  <2> QED  BY <2>1 DEF NamesInv
<1>8. ASSUME NEW o \in Object,
             \/ FreeDummyDeps(o) \/ PageOut(o) \/ StartTimer(o) \/ StopTimer(o)
             \/ MoveUp(o) \/ MoveDown(o) \/ MoveToHead(o) \/ MoveToTail(o)
      PROVE  NamesInv'
  BY <1>8, <1>1 DEF FreeDummyDeps, PageOut, StartTimer, StopTimer, links,
                    MoveUp, MoveDown, MoveToHead, MoveToTail, Moved
<1>9. ASSUME NEW o, NEW d, AddDep(o, d) \/ DelDep(o, d)  PROVE NamesInv'
  <2>1. CASE AddDep(o, d)  BY <2>1, <1>1 DEF AddDep, links
  <2>2. CASE DelDep(o, d)  BY <2>2, <1>1 DEF DelDep, links
  <2> QED  BY <1>9, <2>1, <2>2
<1>10. ASSUME NEW o \in Object, InitNamed(o)  PROVE NamesInv'
  BY <1>2, <1>10 DEF InitNamed, Initialised
<1>11. CASE UNCHANGED vars  BY <1>11, <1>1 DEF vars, links
<1> QED
  BY <1>3, <1>4, <1>5, <1>6, <1>7, <1>8, <1>9, <1>10, <1>11 DEF Next

\* Then the path of an object that is attached leads to it: take one of which this
\* is not so, and the path of its parent leads to the parent.
LEMMA PathsLead ==
  ASSUME TreeInv, RootInv, NamesInv
  PROVE  PathFinds
<1> DEFINE Bad == {o \in alive : parent[o] # Nil /\ FindS(root[o], CopyName(o)) # o}
<1> SUFFICES ASSUME Bad # {} PROVE FALSE  BY DEF PathFinds
<1>1. Bad \in SUBSET Object  BY DEF TreeInv, LinksType
<1>2. PICK o \in Bad : parent[o] \notin Bad
  <2> HIDE DEF Bad
  <2> QED  BY <1>1 DEF TreeInv, TreeConsistent, Acyclic
<1> PICK p, r : p = parent[o] /\ r = root[o]  OBVIOUS
<1>3. /\ o \in Object /\ o \in alive /\ p # Nil /\ FindS(r, CopyName(o)) # o
      /\ p \in Object /\ p \in alive /\ r \in {p, root[p]} /\ r \in Object
  <2>1. o \in Object /\ o \in alive /\ p # Nil /\ FindS(r, CopyName(o)) # o  BY <1>1
  <2>2. p \in Object /\ p \in alive  BY <2>1 DEF TreeInv, TreeConsistent, ListsProper, LinksType
  <2>3. r \in {p, root[p]}  BY <2>1 DEF RootInv, RootOf
  <2>4. r \in Object  BY <2>1 DEF TreeInv, LinksType
  <2> QED  BY <2>1, <2>2, <2>3, <2>4
<1>4. FindChild(p, name[o]) = o
  <2>1. FindChild(p, name[o]) # Nil  BY <1>3, FindChildFacts
  <2>2. PICK x \in Object : FindChild(p, name[o]) = x /\ parent[x] = p /\ name[x] = name[o]
    BY <1>3, <2>1, FindChildFacts
  <2> QED  BY <1>3, <2>2 DEF NamesInv
<1>5. name[o] \in Names  BY <1>3 DEF Names
<1>6. CASE p = r
  <2>1. CopyName(o) = <<name[o]>>  BY <1>3, <1>6, CopyNameFacts
  <2> QED  BY <1>3, <1>4, <1>6, <2>1, FindSOne
<1>7. CASE p # r
  <2>1. root[p] = r /\ parent[p] # Nil  BY <1>3, <1>7 DEF RootInv, RootOf
  <2>2. FindS(r, CopyName(p)) = p  BY <1>2, <1>3, <2>1
  <2> PICK K : K = Names  OBVIOUS
  <2> PICK s \in Seq(K) : s = CopyName(p)  BY <1>3, CopyNameFacts
  <2> PICK n \in K : n = name[o]  BY <1>5
  <2>3. CopyName(o) = Append(s, n)  BY <1>3, <1>7, CopyNameFacts
  <2>4. FindS(r, s) # Nil  BY <1>3, <2>2
  <2>5. FindS(r, Append(s, n)) = FindChild(FindS(r, s), n)
    BY <1>3, <2>4, FindSAppend
  <2> QED  BY <1>3, <1>4, <2>2, <2>3, <2>5
<1> QED  BY <1>6, <1>7

\* An application that detaches only leaves and names no two siblings alike finds
\* every attached object by the path AG_ObjectCopyName gives, at any depth, also where
\* ob->root has gone stale as objects that have children were attached: the path and
\* the search both begin at it. The names AG_ObjectGenName makes are always free.
THEOREM PathsFind ==
  ASSUME {"leaves", "names"} \subseteq Rules
  PROVE  Spec => []PathFinds
<1> DEFINE Inv == TreeInv /\ RootInv /\ NamesInv
<1>0. "leaves" \in Rules /\ "names" \in Rules  OBVIOUS
<1>1. Init => Inv
  <2>1. Init => NamesInv  BY DEF Init, NamesInv
  <2> QED  BY <2>1, TreeInitially, RootInitially
<1>2. Inv /\ [Next]_vars => Inv'  BY <1>0, TreeStep, RootStep, NamesStep
<1>3. Inv => PathFinds  BY PathsLead
<1> QED  BY <1>1, <1>2, <1>3, PTL DEF Spec

-----------------------------------------------------------------------------
(* The links of tail queues (TailqLinks) *)

Cells(Q, E) == {HeadCell(q) : q \in Q} \cup {NextCell(e) : e \in E}
LinksOf(Q, E, nil) ==
  [first : [Q -> E \cup {nil}], last : [Q -> Cells(Q, E)],
   next : [E -> E \cup {nil}], prev : [E -> Cells(Q, E) \cup {nil}]]

\* The links of queue q agree with the sequence s.
Links(L, q, s, nil) ==
  /\ L.first[q] = IF s = << >> THEN nil ELSE s[1]
  /\ L.last[q] = IF s = << >> THEN HeadCell(q) ELSE NextCell(s[Len(s)])
  /\ \A i \in 1 .. Len(s) :
       /\ L.next[s[i]] = IF i = Len(s) THEN nil ELSE s[i + 1]
       /\ L.prev[s[i]] = IF i = 1 THEN HeadCell(q) ELSE NextCell(s[i - 1])

\* A walk of a list meets its entries in order, and ends.
LEMMA WalkOfList ==
  ASSUME NEW E, NEW nil, nil \notin E, NEW L, NEW q, NEW s \in Seq(E), NEW n \in Nat,
         Links(L, q, s, nil), Len(s) <= n + 1
  PROVE  LinkWalk(L, q, n, nil) = s
<1> PICK m \in Nat : m = Len(s) /\ DOMAIN s = 1 .. m  BY LenProperties
<1> DEFINE Start == IF L.first[q] = nil THEN << >> ELSE <<L.first[q]>>
           Grown(w) == IF w = << >> \/ L.next[Last(w)] = nil THEN w
                       ELSE Append(w, L.next[Last(w)])
           Upto(k) == SubSeq(s, 1, IF k < m THEN k + 1 ELSE m)
           Rec(F) == F = [k \in 0 .. n |-> IF k = 0 THEN Start ELSE Grown(F[k - 1])]
           W == CHOOSE F : Rec(F)
           G == [k \in 0 .. n |-> Upto(k)]
<1>0. \A j \in 1 .. m : s[j] \in E /\ s[j] # nil  BY ElementOfSeq
<1>1. ASSUME NEW j \in 0 .. m
      PROVE  LET t == SubSeq(s, 1, j)
             IN  t \in Seq(E) /\ Len(t) = j /\ \A i \in 1 .. j : t[i] = s[i]
  <2>1. \A i \in 1 .. j : s[i] \in E  BY <1>0
  <2>2. \A i \in 1 .. j : 1 + i - 1 = i  OBVIOUS
  <2>3. j - 1 + 1 = j /\ (IF 1 <= j THEN j - 1 + 1 ELSE 0) = j  OBVIOUS
  <2> QED  BY <2>1, <2>2, <2>3, SubSeqProperties
<1>2. SubSeq(s, 1, m) = s  BY SubSeqFull
<1>3. Upto(0) = Start
  <2>1. CASE m = 0
    <3>1. s = << >>  BY <2>1, EmptySeq
    <3> QED  BY <1>2, <2>1, <3>1 DEF Links
  <2>2. CASE m # 0
    <3>1. s # << >> /\ 1 \in 1 .. m /\ 1 \in 0 .. m  BY <2>2, EmptySeq
    <3>2. L.first[q] = s[1] /\ s[1] # nil  BY <1>0, <3>1 DEF Links
    <3>3. SubSeq(s, 1, 1) = <<s[1]>>
      <4>1. SubSeq(s, 1, 1) \in Seq(E) /\ Len(SubSeq(s, 1, 1)) = 1 /\ SubSeq(s, 1, 1)[1] = s[1]
        BY <1>1, <3>1
      <4>2. <<s[1]>> \in Seq(E) /\ Len(<<s[1]>>) = 1 /\ <<s[1]>>[1] = s[1]  BY <1>0, <3>1
      <4>3. \A i \in 1 .. 1 : SubSeq(s, 1, 1)[i] = <<s[1]>>[i]  BY <4>1, <4>2
      <4> QED  BY <4>1, <4>2, <4>3, SeqEqual
    <3>4. Upto(0) = SubSeq(s, 1, 1)  BY <2>2
    <3> QED  BY <3>2, <3>3, <3>4
  <2> QED  BY <2>1, <2>2
<1>4. ASSUME NEW k \in 1 .. n
      PROVE  Upto(k) = Grown(Upto(k - 1))
  <2> PICK j \in 0 .. m : j = IF k - 1 < m THEN k ELSE m  OBVIOUS
  <2> PICK t : t = SubSeq(s, 1, j)  OBVIOUS
  <2>1. Upto(k - 1) = t  OBVIOUS
  <2>2. t \in Seq(E) /\ Len(t) = j /\ \A i \in 1 .. j : t[i] = s[i]  BY <1>1
  <2>3. CASE j = 0
    <3>1. m = 0 /\ t = << >>  BY <2>2, <2>3, EmptySeq
    <3>2. Upto(k) = t  BY <2>3, <3>1
    <3> QED  BY <2>1, <3>1, <3>2
  <2>4. CASE j # 0
    <3>1. j \in 1 .. m /\ t # << >> /\ Last(t) = s[j]  BY <2>2, <2>4, EmptySeq DEF Last
    <3>2. L.next[s[j]] = IF j = m THEN nil ELSE s[j + 1]  BY <3>1 DEF Links
    <3>3. CASE j = m
      <4>1. Upto(k) = t  BY <3>3
      <4> QED  BY <2>1, <3>1, <3>2, <3>3, <4>1
    <3>4. CASE j # m
      <4>1. j = k /\ j + 1 \in 1 .. m /\ j + 1 \in 0 .. m /\ k < m  BY <3>1, <3>4
      <4>2. Upto(k) = SubSeq(s, 1, j + 1)  BY <4>1
      <4>3. SubSeq(s, 1, j + 1) = Append(t, s[j + 1])
        <5>1. SubSeq(s, 1, j + 1) \in Seq(E) /\ Len(SubSeq(s, 1, j + 1)) = j + 1
              /\ \A i \in 1 .. j + 1 : SubSeq(s, 1, j + 1)[i] = s[i]
          BY <1>1, <4>1
        <5>2. s[j + 1] \in E  BY <1>0, <4>1
        <5>3. Append(t, s[j + 1]) \in Seq(E) /\ Len(Append(t, s[j + 1])) = j + 1
              /\ (\A i \in 1 .. j : Append(t, s[j + 1])[i] = t[i])
              /\ Append(t, s[j + 1])[j + 1] = s[j + 1]
          BY <2>2, <5>2, AppendProperties
        <5>4. \A i \in 1 .. j + 1 : i = j + 1 \/ i \in 1 .. j  BY <4>1
        <5>5. \A i \in 1 .. j + 1 : SubSeq(s, 1, j + 1)[i] = Append(t, s[j + 1])[i]
          BY <2>2, <5>1, <5>3, <5>4
        <5> QED  BY <5>1, <5>3, <5>5, SeqEqual
      <4>4. s[j + 1] # nil  BY <1>0, <4>1
      <4> QED  BY <2>1, <3>1, <3>2, <3>4, <4>2, <4>3, <4>4
    <3> QED  BY <3>3, <3>4
  <2> QED  BY <2>3, <2>4
<1> HIDE DEF Start, Grown, Upto
<1>5. \A k \in 0 .. n : k # 0 => k \in 1 .. n /\ k - 1 \in 0 .. n  OBVIOUS
<1>6. Rec(W)
  <2>1. Rec(G)  BY <1>3, <1>4, <1>5
  <2> HIDE DEF G, Rec
  <2> QED  BY <2>1
<1>7. LinkWalk(L, q, n, nil) = W[n]  BY DEF LinkWalk, Start, Grown
<1> HIDE DEF W
<1>8. \A k \in 0 .. n : W[k] = IF k = 0 THEN Start ELSE Grown(W[k - 1])  BY <1>6, Zenon
<1> HIDE DEF Rec
<1>9. W[n] = Upto(n)
  <2> DEFINE S == {k \in 0 .. n : W[k] = Upto(k)}
  <2>1. 0 \in S  BY <1>3, <1>8
  <2>2. ASSUME NEW k \in 0 .. n, k # n, k \in S  PROVE k + 1 \in S
    <3>1. k + 1 \in 1 .. n /\ k + 1 \in 0 .. n /\ k + 1 # 0 /\ k + 1 - 1 = k  BY <2>2
    <3>2. W[k + 1] = Grown(W[k])  BY <1>8, <3>1
    <3>3. Upto(k + 1) = Grown(Upto(k))  BY <1>4, <3>1
    <3> QED  BY <2>2, <3>1, <3>2, <3>3
  <2> HIDE DEF S
  <2>3. n \in S
    <3>1. n \in 0 .. n  OBVIOUS
    <3> QED  BY <2>1, <2>2, <3>1, UpTo
  <2> QED  BY <2>3 DEF S
<1>10. Upto(n) = s
  <2>1. (IF n < m THEN n + 1 ELSE m) = m  OBVIOUS
  <2> QED  BY <1>2, <2>1 DEF Upto
<1> QED  BY <1>7, <1>9, <1>10

\* The two kinds of cells.
LEMMA CellParts ==
  /\ \A q : HeadCell(q)[1] = "first" /\ HeadCell(q)[2] = q
  /\ \A x : NextCell(x)[1] # "first" /\ NextCell(x)[2] = x
BY DEF HeadCell, NextCell

\* The entry at the end of a list.
LEMMA LastEntry ==
  ASSUME NEW E, NEW s \in Seq(E), s # << >>
  PROVE  Len(s) \in 1 .. Len(s) /\ s[Len(s)] \in E /\ s[Len(s)] \in Entries(s)
<1>1. Len(s) \in Nat /\ Len(s) # 0 /\ DOMAIN s = 1 .. Len(s)  BY EmptySeq, LenProperties
<1>2. Len(s) \in 1 .. Len(s)  BY <1>1
<1> QED  BY <1>1, <1>2, ElementOfSeq DEF Entries

\* AG_TAILQ_INSERT_TAIL, field by field.
LEMMA InsertFields ==
  ASSUME NEW Q, NEW E, NEW nil, nil \notin E, NEW L \in LinksOf(Q, E, nil), NEW q \in Q,
         NEW s \in Seq(E), Links(L, q, s, nil), NEW e \in E \ Entries(s)
  PROVE  LET M == LinkInsertTail(L, q, e, nil)
             l == s[Len(s)]
         IN  /\ M \in LinksOf(Q, E, nil)
             /\ \A p \in Q : /\ M.first[p] = IF s = << >> /\ p = q THEN e ELSE L.first[p]
                             /\ M.last[p] = IF p = q THEN NextCell(e) ELSE L.last[p]
             /\ \A x \in E :
                  /\ M.next[x] = IF s # << >> /\ x = l THEN e ELSE IF x = e THEN nil ELSE L.next[x]
                  /\ M.prev[x] = IF x # e THEN L.prev[x]
                                 ELSE IF s = << >> THEN HeadCell(q) ELSE NextCell(l)
<1> DEFINE M == LinkInsertTail(L, q, e, nil)
           l == s[Len(s)]
<1> PICK L1 : L1 = [L EXCEPT !.next[e] = nil, !.prev[e] = L.last[q]]  OBVIOUS
<1>1. L = [first |-> L.first, last |-> L.last, next |-> L.next, prev |-> L.prev]
      /\ L.first \in [Q -> E \cup {nil}] /\ L.last \in [Q -> Cells(Q, E)]
      /\ L.next \in [E -> E \cup {nil}] /\ L.prev \in [E -> Cells(Q, E) \cup {nil}]
  BY DEF LinksOf
<1>2. HeadCell(q) \in Cells(Q, E) /\ \A x \in E : NextCell(x) \in Cells(Q, E)  BY DEF Cells
<1>3. CASE s = << >>
  <2>1. L.last[q] = HeadCell(q)  BY <1>3 DEF Links
  <2>2. M = [[L1 EXCEPT !.first[q] = e] EXCEPT !.last[q] = NextCell(e)]
    <3>1. Store(L1, HeadCell(q), e) = [L1 EXCEPT !.first[q] = e]
      BY CellParts DEF Store
    <3> QED  BY <2>1, <3>1 DEF LinkInsertTail
  <2>3. /\ M.first = [L.first EXCEPT ![q] = e] /\ M.last = [L.last EXCEPT ![q] = NextCell(e)]
        /\ M.next = [L.next EXCEPT ![e] = nil] /\ M.prev = [L.prev EXCEPT ![e] = HeadCell(q)]
        /\ M = [first |-> M.first, last |-> M.last, next |-> M.next, prev |-> M.prev]
    BY <1>1, <2>1, <2>2
  <2> HIDE DEF M
  <2>4. /\ M.first \in [Q -> E \cup {nil}] /\ M.last \in [Q -> Cells(Q, E)]
        /\ M.next \in [E -> E \cup {nil}] /\ M.prev \in [E -> Cells(Q, E) \cup {nil}]
    BY <1>1, <1>2, <2>3
  <2>5. M \in LinksOf(Q, E, nil)  BY <2>3, <2>4 DEF LinksOf
  <2> QED  BY <1>1, <1>3, <2>3, <2>5 DEF M
<1>4. CASE s # << >>
  <2>0. l \in E /\ l # e  BY <1>4, LastEntry
  <2>1. L.last[q] = NextCell(l)  BY <1>4 DEF Links
  <2>2. M = [[L1 EXCEPT !.next[l] = e] EXCEPT !.last[q] = NextCell(e)]
    <3>1. Store(L1, NextCell(l), e) = [L1 EXCEPT !.next[l] = e]
      BY CellParts DEF Store
    <3> QED  BY <2>1, <3>1 DEF LinkInsertTail
  <2> HIDE DEF l
  <2>3. /\ M.first = L.first /\ M.last = [L.last EXCEPT ![q] = NextCell(e)]
        /\ M.next = [L.next EXCEPT ![e] = nil, ![l] = e]
        /\ M.prev = [L.prev EXCEPT ![e] = NextCell(l)]
        /\ M = [first |-> M.first, last |-> M.last, next |-> M.next, prev |-> M.prev]
    BY <1>1, <2>1, <2>2
  <2> HIDE DEF M
  <2>4. /\ M.first \in [Q -> E \cup {nil}] /\ M.last \in [Q -> Cells(Q, E)]
        /\ M.next \in [E -> E \cup {nil}] /\ M.prev \in [E -> Cells(Q, E) \cup {nil}]
    BY <1>1, <1>2, <2>0, <2>3
  <2>5. M \in LinksOf(Q, E, nil)  BY <2>3, <2>4 DEF LinksOf
  <2> QED  BY <1>1, <1>4, <2>0, <2>3, <2>5 DEF M, l
<1> QED  BY <1>3, <1>4

\* AG_TAILQ_INSERT_TAIL of an entry that is on no list makes it the last of one, and
\* leaves the other lists with the same field alone.
LEMMA InsertTailOfList ==
  ASSUME NEW Q, NEW E, NEW nil, nil \notin E, NEW L \in LinksOf(Q, E, nil), NEW q \in Q,
         NEW s \in Seq(E), NoRepeats(s), Links(L, q, s, nil), NEW e \in E \ Entries(s)
  PROVE  LET M == LinkInsertTail(L, q, e, nil)
         IN  /\ M \in LinksOf(Q, E, nil)
             /\ Links(M, q, Append(s, e), nil)
             /\ \A p \in Q \ {q}, t \in Seq(E) :
                  Links(L, p, t, nil) /\ Entries(t) \cap (Entries(s) \cup {e}) = {}
                  => Links(M, p, t, nil)
<1> PICK n \in Nat : n = Len(s) /\ DOMAIN s = 1 .. n  BY LenProperties
<1> PICK M : M = LinkInsertTail(L, q, e, nil)  OBVIOUS
<1> DEFINE l == s[n]
<1>1. /\ M \in LinksOf(Q, E, nil)
      /\ \A p \in Q : /\ M.first[p] = IF s = << >> /\ p = q THEN e ELSE L.first[p]
                      /\ M.last[p] = IF p = q THEN NextCell(e) ELSE L.last[p]
      /\ \A x \in E :
           /\ M.next[x] = IF s # << >> /\ x = l THEN e ELSE IF x = e THEN nil ELSE L.next[x]
           /\ M.prev[x] = IF x # e THEN L.prev[x]
                          ELSE IF s = << >> THEN HeadCell(q) ELSE NextCell(l)
  BY InsertFields
<1>2. /\ L.first \in [Q -> E \cup {nil}] /\ L.last \in [Q -> Cells(Q, E)]
      /\ L.next \in [E -> E \cup {nil}] /\ L.prev \in [E -> Cells(Q, E) \cup {nil}]
  BY DEF LinksOf
<1>3. \A i \in 1 .. n : s[i] \in E /\ s[i] # e  BY ElementOfSeq DEF Entries
<1>4. s # << >> => n \in 1 .. n /\ l \in E /\ l \in Entries(s) /\ l # e  BY LastEntry
<1>5. s = << >> <=> n = 0  BY EmptySeq
<1> HIDE DEF l
<1>6. ASSUME NEW p \in Q \ {q}, NEW t \in Seq(E), Links(L, p, t, nil),
             Entries(t) \cap (Entries(s) \cup {e}) = {}
      PROVE  Links(M, p, t, nil)
  <2>1. \A i \in 1 .. Len(t) : t[i] \in E /\ t[i] \in Entries(t)
    BY ElementOfSeq, LenProperties DEF Entries
  <2>2. \A x \in Entries(t) : x # e /\ (s # << >> => x # l)  BY <1>4, <1>6
  <2>3. \A i \in 1 .. Len(t) : M.next[t[i]] = L.next[t[i]] /\ M.prev[t[i]] = L.prev[t[i]]
    BY <1>1, <1>2, <2>1, <2>2
  <2>4. M.first[p] = L.first[p] /\ M.last[p] = L.last[p]  BY <1>1, <1>2
  <2> QED  BY <1>6, <2>3, <2>4 DEF Links
<1>7. Links(M, q, Append(s, e), nil)
  <2> PICK r : r = Append(s, e)  OBVIOUS
  <2>1. /\ r \in Seq(E) /\ r # << >> /\ Len(r) = n + 1 /\ \A i \in 1 .. n : r[i] = s[i]
        /\ r[n + 1] = e
    BY AppendProperties
  <2>2. M.last[q] = NextCell(e)  BY <1>1, <1>2
  <2>3. M.first[q] = r[1]
    <3>1. CASE s = << >>  BY <1>1, <1>2, <1>5, <2>1, <3>1
    <3>2. CASE s # << >>
      <4>1. 1 \in 1 .. n  BY <1>4, <3>2
      <4>2. M.first[q] = s[1]  BY <1>1, <3>2 DEF Links
      <4> QED  BY <2>1, <4>1, <4>2
    <3> QED  BY <3>1, <3>2
  <2>4. ASSUME NEW i \in 1 .. n + 1
        PROVE  /\ M.next[r[i]] = IF i = n + 1 THEN nil ELSE r[i + 1]
               /\ M.prev[r[i]] = IF i = 1 THEN HeadCell(q) ELSE NextCell(r[i - 1])
    <3>1. CASE i = n + 1
      <4>1. r[i] = e  BY <2>1, <3>1
      <4>2. M.next[e] = nil  BY <1>1, <1>2, <1>4
      <4>3. CASE s = << >>
        <5>1. M.prev[e] = HeadCell(q) /\ i = 1  BY <1>1, <1>2, <1>5, <3>1, <4>3
        <5> QED  BY <3>1, <4>1, <4>2, <5>1
      <4>4. CASE s # << >>
        <5>1. M.prev[e] = NextCell(l)  BY <1>1, <1>2, <4>4
        <5>2. i - 1 = n /\ n \in 1 .. n /\ i # 1  BY <1>4, <3>1, <4>4
        <5>3. r[i - 1] = l  BY <2>1, <5>2 DEF l
        <5> QED  BY <3>1, <4>1, <4>2, <5>1, <5>2, <5>3
      <4> QED  BY <4>3, <4>4
    <3>2. CASE i # n + 1
      <4>1. i \in 1 .. n /\ s # << >>  BY <1>5, <3>2
      <4>2. r[i] = s[i] /\ s[i] \in E /\ s[i] # e  BY <1>3, <2>1, <4>1
      <4>3. M.prev[s[i]] = L.prev[s[i]]  BY <1>1, <1>2, <4>2
      <4>4. i # 1 => r[i - 1] = s[i - 1]
        <5>1. i # 1 => i - 1 \in 1 .. n  BY <4>1
        <5> QED  BY <2>1, <5>1
      <4>5. M.prev[r[i]] = IF i = 1 THEN HeadCell(q) ELSE NextCell(r[i - 1])
        BY <4>1, <4>2, <4>3, <4>4 DEF Links
      <4>6. CASE i = n
        <5>1. s[i] = l  BY <4>6 DEF l
        <5>2. M.next[l] = e  BY <1>1, <1>2, <1>4, <4>1
        <5> QED  BY <2>1, <3>2, <4>2, <4>5, <4>6, <5>1, <5>2
      <4>7. CASE i # n
        <5>1. i + 1 \in 1 .. n  BY <4>1, <4>7
        <5>2. s[i] # l
          <6>1. n \in 1 .. n  BY <4>1
          <6> QED  BY <4>1, <4>7, <6>1 DEF NoRepeats, l
        <5>3. M.next[s[i]] = L.next[s[i]]  BY <1>1, <1>2, <4>2, <5>2
        <5>4. L.next[s[i]] = s[i + 1]  BY <4>1, <4>7 DEF Links
        <5>5. r[i + 1] = s[i + 1]  BY <2>1, <5>1
        <5> QED  BY <3>2, <4>2, <4>5, <5>3, <5>4, <5>5
      <4> QED  BY <4>6, <4>7
    <3> QED  BY <3>1, <3>2
  <2>5. \A i \in 1 .. Len(r) :
          /\ M.next[r[i]] = IF i = Len(r) THEN nil ELSE r[i + 1]
          /\ M.prev[r[i]] = IF i = 1 THEN HeadCell(q) ELSE NextCell(r[i - 1])
    BY <2>1, <2>4
  <2> QED  BY <2>1, <2>2, <2>3, <2>5 DEF Links
<1> QED  BY <1>1, <1>6, <1>7

\* AG_TAILQ_REMOVE of the entry at position k, field by field.
LEMMA RemoveFields ==
  ASSUME NEW Q, NEW E, NEW nil, nil \notin E, NEW L \in LinksOf(Q, E, nil), NEW q \in Q,
         NEW s \in Seq(E), Links(L, q, s, nil), NEW k \in 1 .. Len(s)
  PROVE  LET M == LinkRemove(L, q, s[k], nil)
             n == Len(s)
             after == IF k = n THEN nil ELSE s[k + 1]
             cell == IF k = 1 THEN HeadCell(q) ELSE NextCell(s[k - 1])
         IN  /\ M \in LinksOf(Q, E, nil)
             /\ \A p \in Q : /\ M.first[p] = IF k = 1 /\ p = q THEN after ELSE L.first[p]
                             /\ M.last[p] = IF k = n /\ p = q THEN cell ELSE L.last[p]
             /\ \A x \in E : /\ M.next[x] = IF k # 1 /\ x = s[k - 1] THEN after ELSE L.next[x]
                             /\ M.prev[x] = IF k # n /\ x = s[k + 1] THEN cell ELSE L.prev[x]
<1> PICK n \in Nat : n = Len(s) /\ DOMAIN s = 1 .. n  BY LenProperties
<1> PICK e \in E : e = s[k]  BY ElementOfSeq
<1> PICK M : M = LinkRemove(L, q, e, nil)  OBVIOUS
<1> PICK after : after = IF k = n THEN nil ELSE s[k + 1]  OBVIOUS
<1> PICK cell : cell = IF k = 1 THEN HeadCell(q) ELSE NextCell(s[k - 1])  OBVIOUS
<1> PICK L1 : L1 = IF L.next[e] # nil THEN [L EXCEPT !.prev[L.next[e]] = L.prev[e]]
                                     ELSE [L EXCEPT !.last[q] = L.prev[e]]
  OBVIOUS
<1>0. M = Store(L1, L.prev[e], L.next[e])  BY DEF LinkRemove
<1>1. L = [first |-> L.first, last |-> L.last, next |-> L.next, prev |-> L.prev]
      /\ L.first \in [Q -> E \cup {nil}] /\ L.last \in [Q -> Cells(Q, E)]
      /\ L.next \in [E -> E \cup {nil}] /\ L.prev \in [E -> Cells(Q, E) \cup {nil}]
  BY DEF LinksOf
<1>2. HeadCell(q) \in Cells(Q, E) /\ \A x \in E : NextCell(x) \in Cells(Q, E)  BY DEF Cells
<1>3. \A i \in 1 .. n : s[i] \in E  BY ElementOfSeq
<1>4. L.next[e] = after /\ L.prev[e] = cell  BY DEF Links
<1>5. (k # n => k + 1 \in 1 .. n) /\ (k # 1 => k - 1 \in 1 .. n)  OBVIOUS
<1>6. after \in E \cup {nil} /\ (after = nil <=> k = n) /\ cell \in Cells(Q, E)
  BY <1>2, <1>3, <1>5
<1>7. /\ L1 = [first |-> L1.first, last |-> L1.last, next |-> L1.next, prev |-> L1.prev]
      /\ L1.first = L.first /\ L1.next = L.next
      /\ L1.last \in [Q -> Cells(Q, E)] /\ L1.prev \in [E -> Cells(Q, E) \cup {nil}]
      /\ \A p \in Q : L1.last[p] = IF k = n /\ p = q THEN cell ELSE L.last[p]
      /\ \A x \in E : L1.prev[x] = IF k # n /\ x = s[k + 1] THEN cell ELSE L.prev[x]
  <2>1. CASE k = n
    <3>1. L1 = [L EXCEPT !.last[q] = cell]  BY <1>4, <1>6, <2>1
    <3>2. L1 = [first |-> L.first, last |-> [L.last EXCEPT ![q] = cell],
                next |-> L.next, prev |-> L.prev]
      BY <1>1, <3>1
    <3> PICK f : f = [L.last EXCEPT ![q] = cell]  OBVIOUS
    <3>3. f \in [Q -> Cells(Q, E)] /\ \A p \in Q : f[p] = IF p = q THEN cell ELSE L.last[p]
      BY <1>1, <1>6
    <3>4. /\ L1.first = L.first /\ L1.last = f /\ L1.next = L.next /\ L1.prev = L.prev
          /\ L1 = [first |-> L1.first, last |-> L1.last, next |-> L1.next, prev |-> L1.prev]
      BY <3>2
    <3> QED  BY <1>1, <2>1, <3>3, <3>4
  <2>2. CASE k # n
    <3>1. L1 = [L EXCEPT !.prev[after] = cell] /\ after \in E /\ after = s[k + 1]
      BY <1>4, <1>6, <2>2
    <3>2. L1 = [first |-> L.first, last |-> L.last,
                next |-> L.next, prev |-> [L.prev EXCEPT ![after] = cell]]
      BY <1>1, <3>1
    <3> PICK f : f = [L.prev EXCEPT ![after] = cell]  OBVIOUS
    <3>3. /\ f \in [E -> Cells(Q, E) \cup {nil}]
          /\ \A x \in E : f[x] = IF x = s[k + 1] THEN cell ELSE L.prev[x]
      BY <1>1, <1>6, <3>1
    <3>4. /\ L1.first = L.first /\ L1.last = L.last /\ L1.next = L.next /\ L1.prev = f
          /\ L1 = [first |-> L1.first, last |-> L1.last, next |-> L1.next, prev |-> L1.prev]
      BY <3>2
    <3> QED  BY <1>1, <2>2, <3>3, <3>4
  <2> QED  BY <2>1, <2>2
<1>8. /\ M = [first |-> M.first, last |-> M.last, next |-> M.next, prev |-> M.prev]
      /\ M.last = L1.last /\ M.prev = L1.prev
      /\ M.first \in [Q -> E \cup {nil}] /\ M.next \in [E -> E \cup {nil}]
      /\ \A p \in Q : M.first[p] = IF k = 1 /\ p = q THEN after ELSE L.first[p]
      /\ \A x \in E : M.next[x] = IF k # 1 /\ x = s[k - 1] THEN after ELSE L.next[x]
  <2>1. CASE k = 1
    <3>0. M = Store(L1, HeadCell(q), after)  BY <1>0, <1>4, <2>1
    <3>1. M = [L1 EXCEPT !.first[q] = after]  BY <3>0, CellParts DEF Store
    <3>2. M = [first |-> [L.first EXCEPT ![q] = after], last |-> L1.last,
               next |-> L.next, prev |-> L1.prev]
      BY <1>7, <3>1
    <3> PICK f : f = [L.first EXCEPT ![q] = after]  OBVIOUS
    <3>3. /\ f \in [Q -> E \cup {nil}]
          /\ \A p \in Q : f[p] = IF p = q THEN after ELSE L.first[p]
      BY <1>1, <1>6
    <3>4. /\ M.first = f /\ M.last = L1.last /\ M.next = L.next /\ M.prev = L1.prev
          /\ M = [first |-> M.first, last |-> M.last, next |-> M.next, prev |-> M.prev]
      BY <3>2
    <3>5. \A p \in Q : M.first[p] = IF k = 1 /\ p = q THEN after ELSE L.first[p]
      BY <2>1, <3>3, <3>4
    <3>6. \A x \in E : M.next[x] = IF k # 1 /\ x = s[k - 1] THEN after ELSE L.next[x]
      BY <2>1, <3>4
    <3>7. M.first \in [Q -> E \cup {nil}] /\ M.next \in [E -> E \cup {nil}]
      BY <1>1, <3>3, <3>4
    <3> QED  BY <3>4, <3>5, <3>6, <3>7
  <2>2. CASE k # 1
    <3> PICK x0 \in E : x0 = s[k - 1]  BY <1>3, <1>5, <2>2
    <3>0. M = Store(L1, NextCell(x0), after)  BY <1>0, <1>4, <2>2
    <3>1. M = [L1 EXCEPT !.next[x0] = after]  BY <3>0, CellParts DEF Store
    <3>2. M = [first |-> L.first, last |-> L1.last,
               next |-> [L.next EXCEPT ![x0] = after], prev |-> L1.prev]
      BY <1>7, <3>1
    <3> PICK f : f = [L.next EXCEPT ![x0] = after]  OBVIOUS
    <3>3. /\ f \in [E -> E \cup {nil}]
          /\ \A x \in E : f[x] = IF x = s[k - 1] THEN after ELSE L.next[x]
      BY <1>1, <1>6
    <3>4. /\ M.first = L.first /\ M.last = L1.last /\ M.next = f /\ M.prev = L1.prev
          /\ M = [first |-> M.first, last |-> M.last, next |-> M.next, prev |-> M.prev]
      BY <3>2
    <3>5. \A p \in Q : M.first[p] = IF k = 1 /\ p = q THEN after ELSE L.first[p]
      BY <2>2, <3>4
    <3>6. \A x \in E : M.next[x] = IF k # 1 /\ x = s[k - 1] THEN after ELSE L.next[x]
      BY <2>2, <3>3, <3>4
    <3>7. M.first \in [Q -> E \cup {nil}] /\ M.next \in [E -> E \cup {nil}]
      BY <1>1, <3>3, <3>4
    <3> QED  BY <3>4, <3>5, <3>6, <3>7
  <2> QED  BY <2>1, <2>2
<1>9. M \in LinksOf(Q, E, nil)  BY <1>7, <1>8 DEF LinksOf
<1> QED  BY <1>7, <1>8, <1>9

\* AG_TAILQ_REMOVE takes the entry out of its list, leaves the other lists with the same
\* field alone, and makes what pointed to the entry point to what came after.
LEMMA RemoveOfList ==
  ASSUME NEW Q, NEW E, NEW nil, nil \notin E, NEW L \in LinksOf(Q, E, nil), NEW q \in Q,
         NEW s \in Seq(E), NoRepeats(s), Links(L, q, s, nil), NEW e \in Entries(s)
  PROVE  LET M == LinkRemove(L, q, e, nil)
         IN  /\ M \in LinksOf(Q, E, nil)
             /\ Links(M, q, TailqRemove(s, e), nil)
             /\ \A p \in Q \ {q}, t \in Seq(E) :
                  Links(L, p, t, nil) /\ Entries(t) \cap Entries(s) = {} => Links(M, p, t, nil)
             /\ \A x \in E : M.next[x] # L.next[x] => L.next[x] = e /\ M.next[x] = L.next[e]
<1> PICK n \in Nat : n = Len(s) /\ DOMAIN s = 1 .. n  BY LenProperties
<1> PICK k \in 1 .. n : k = Pos(s, e) /\ s[k] = e  BY PosProperties
<1> PICK M : M = LinkRemove(L, q, e, nil)  OBVIOUS
<1> PICK after : after = IF k = n THEN nil ELSE s[k + 1]  OBVIOUS
<1> PICK cell : cell = IF k = 1 THEN HeadCell(q) ELSE NextCell(s[k - 1])  OBVIOUS
<1>1. /\ M \in LinksOf(Q, E, nil)
      /\ \A p \in Q : /\ M.first[p] = IF k = 1 /\ p = q THEN after ELSE L.first[p]
                      /\ M.last[p] = IF k = n /\ p = q THEN cell ELSE L.last[p]
      /\ \A x \in E : /\ M.next[x] = IF k # 1 /\ x = s[k - 1] THEN after ELSE L.next[x]
                      /\ M.prev[x] = IF k # n /\ x = s[k + 1] THEN cell ELSE L.prev[x]
  BY RemoveFields
<1>2. \A i \in 1 .. n : s[i] \in E /\ s[i] \in Entries(s)  BY ElementOfSeq DEF Entries
<1>3. \A i, j \in 1 .. n : s[i] = s[j] => i = j  BY DEF NoRepeats
<1>4. (k # n => k + 1 \in 1 .. n) /\ (k # 1 => k - 1 \in 1 .. n)  OBVIOUS
<1>5. \A i \in 1 .. n : /\ L.next[s[i]] = IF i = n THEN nil ELSE s[i + 1]
                        /\ L.prev[s[i]] = IF i = 1 THEN HeadCell(q) ELSE NextCell(s[i - 1])
  BY DEF Links
<1>6. ASSUME NEW p \in Q \ {q}, NEW t \in Seq(E), Links(L, p, t, nil),
             Entries(t) \cap Entries(s) = {}
      PROVE  Links(M, p, t, nil)
  <2>0. \A i \in 1 .. Len(t) : t[i] \in E /\ t[i] \in Entries(t)
    BY ElementOfSeq, LenProperties DEF Entries
  <2>1. \A i \in 1 .. Len(t) : t[i] \in E /\ t[i] \notin Entries(s)  BY <1>6, <2>0
  <2>2. \A i \in 1 .. Len(t) : M.next[t[i]] = L.next[t[i]] /\ M.prev[t[i]] = L.prev[t[i]]
    BY <1>1, <1>2, <1>4, <2>1
  <2>3. M.first[p] = L.first[p] /\ M.last[p] = L.last[p]  BY <1>1
  <2> QED  BY <1>6, <2>2, <2>3 DEF Links
<1>7. ASSUME NEW x \in E, M.next[x] # L.next[x]
      PROVE  L.next[x] = e /\ M.next[x] = L.next[e]
  <2>1. k # 1 /\ x = s[k - 1] /\ M.next[x] = after  BY <1>1, <1>7
  <2>2. k - 1 \in 1 .. n /\ k - 1 # n /\ k - 1 + 1 = k  BY <2>1
  <2>3. L.next[x] = e  BY <1>5, <2>1, <2>2
  <2>4. L.next[e] = after  BY <1>5
  <2> QED  BY <2>1, <2>3, <2>4
<1>8. Links(M, q, TailqRemove(s, e), nil)
  <2> PICK r : r = TailqRemove(s, e)  OBVIOUS
  <2>1. /\ r \in Seq(E) /\ Len(r) = n - 1
        /\ \A j \in 1 .. n - 1 : r[j] = IF j < k THEN s[j] ELSE s[j + 1]
    BY RemovedAt
  <2>2. r = << >> <=> n = 1  BY <2>1, EmptySeq
  <2>3. s # << >>  BY EmptySeq
  <2>4. M.first[q] = IF r = << >> THEN nil ELSE r[1]
    <3>1. CASE k = 1
      <4>1. M.first[q] = after  BY <1>1, <3>1
      <4>2. n # 1 => r[1] = s[2] /\ after = s[2]  BY <2>1, <3>1
      <4> QED  BY <2>2, <3>1, <4>1, <4>2
    <3>2. CASE k # 1
      <4>1. M.first[q] = s[1]  BY <1>1, <2>3, <3>2 DEF Links
      <4>2. n # 1 /\ r[1] = s[1]  BY <2>1, <3>2
      <4> QED  BY <2>2, <4>1, <4>2
    <3> QED  BY <3>1, <3>2
  <2>5. M.last[q] = IF r = << >> THEN HeadCell(q) ELSE NextCell(r[n - 1])
    <3>1. CASE k = n
      <4>1. M.last[q] = cell  BY <1>1, <3>1
      <4>2. n # 1 => r[n - 1] = s[n - 1]  BY <2>1, <3>1
      <4> QED  BY <2>2, <3>1, <4>1, <4>2
    <3>2. CASE k # n
      <4>1. M.last[q] = NextCell(s[n])  BY <1>1, <2>3, <3>2 DEF Links
      <4>2. n - 1 \in 1 .. n - 1 /\ ~(n - 1 < k) /\ n - 1 + 1 = n  BY <3>2
      <4>3. n # 1 /\ r[n - 1] = s[n]  BY <2>1, <4>2
      <4> QED  BY <2>2, <4>1, <4>3
    <3> QED  BY <3>1, <3>2
  <2>6. ASSUME NEW j \in 1 .. n - 1
        PROVE  M.next[r[j]] = IF j = n - 1 THEN nil ELSE r[j + 1]
    <3>1. CASE j + 1 < k
      <4>1. r[j] = s[j] /\ r[j + 1] = s[j + 1] /\ j \in 1 .. n /\ j # n /\ j # n - 1
        BY <2>1, <3>1
      <4>2. k # 1 /\ s[j] # s[k - 1]
        <5>1. k - 1 # j /\ k # 1  BY <3>1
        <5> QED  BY <1>3, <1>4, <4>1, <5>1
      <4>3. M.next[s[j]] = L.next[s[j]]  BY <1>1, <1>2, <4>1, <4>2
      <4> QED  BY <1>5, <4>1, <4>3
    <3>2. CASE j + 1 = k
      <4>1. r[j] = s[k - 1] /\ k # 1 /\ k - 1 \in 1 .. n  BY <2>1, <3>2
      <4>2. M.next[s[k - 1]] = after  BY <1>1, <1>2, <4>1
      <4>3. j # n - 1 => k # n /\ r[j + 1] = s[k + 1]  BY <2>1, <3>2
      <4>4. j = n - 1 => k = n  BY <3>2
      <4> QED  BY <4>1, <4>2, <4>3, <4>4
    <3>3. CASE ~(j + 1 < k) /\ j + 1 # k
      <4>1. r[j] = s[j + 1] /\ j + 1 \in 1 .. n /\ (j # n - 1 => r[j + 1] = s[j + 2])
        BY <2>1, <3>3
      <4>2. k # 1 => s[j + 1] # s[k - 1]
        <5>1. k - 1 # j + 1  BY <3>3
        <5> QED  BY <1>3, <1>4, <4>1, <5>1
      <4>3. M.next[s[j + 1]] = L.next[s[j + 1]]  BY <1>1, <1>2, <4>1, <4>2
      <4>4. L.next[s[j + 1]] = IF j + 1 = n THEN nil ELSE s[j + 2]  BY <1>5, <4>1
      <4> QED  BY <4>1, <4>3, <4>4
    <3> QED  BY <3>1, <3>2, <3>3
  <2>7. ASSUME NEW j \in 1 .. n - 1
        PROVE  M.prev[r[j]] = IF j = 1 THEN HeadCell(q) ELSE NextCell(r[j - 1])
    <3>1. CASE j < k
      <4>1. r[j] = s[j] /\ (j # 1 => r[j - 1] = s[j - 1]) /\ j \in 1 .. n  BY <2>1, <3>1
      <4>2. k # n => s[j] # s[k + 1]
        <5>1. k + 1 # j  BY <3>1
        <5> QED  BY <1>3, <1>4, <4>1, <5>1
      <4>3. M.prev[s[j]] = L.prev[s[j]]  BY <1>1, <1>2, <4>1, <4>2
      <4> QED  BY <1>5, <4>1, <4>3
    <3>2. CASE j = k
      <4>1. r[j] = s[k + 1] /\ k # n /\ k + 1 \in 1 .. n  BY <2>1, <3>2
      <4>2. M.prev[s[k + 1]] = cell  BY <1>1, <1>2, <4>1
      <4>3. j # 1 => r[j - 1] = s[k - 1]  BY <2>1, <3>2
      <4> QED  BY <3>2, <4>1, <4>2, <4>3
    <3>3. CASE ~(j < k) /\ j # k
      <4>0. /\ j - 1 \in 1 .. n - 1 /\ ~(j - 1 < k) /\ j - 1 + 1 = j
            /\ j + 1 \in 1 .. n /\ j # 1 /\ j + 1 # 1
        BY <3>3
      <4>1. r[j] = s[j + 1] /\ r[j - 1] = s[j] /\ j + 1 \in 1 .. n /\ j # 1 /\ j + 1 # 1
        BY <2>1, <3>3, <4>0
      <4>2. k # n => s[j + 1] # s[k + 1]
        <5>1. k + 1 # j + 1  BY <3>3
        <5> QED  BY <1>3, <1>4, <4>1, <5>1
      <4>3. M.prev[s[j + 1]] = L.prev[s[j + 1]]  BY <1>1, <1>2, <4>1, <4>2
      <4>4. L.prev[s[j + 1]] = NextCell(s[j])
        <5>1. j + 1 - 1 = j  OBVIOUS
        <5> QED  BY <1>5, <4>1, <5>1
      <4> QED  BY <4>1, <4>3, <4>4
    <3> QED  BY <3>1, <3>2, <3>3
  <2> QED  BY <2>1, <2>4, <2>5, <2>6, <2>7 DEF Links
<1> QED  BY <1>1, <1>6, <1>7, <1>8

\* AG_TAILQ_INIT empties a list, and leaves the others and all entries alone.
LEMMA InitOfList ==
  ASSUME NEW Q, NEW E, NEW nil, NEW L \in LinksOf(Q, E, nil), NEW q \in Q
  PROVE  LET M == LinkInit(L, q, nil)
         IN  /\ M \in LinksOf(Q, E, nil) /\ M.next = L.next
             /\ Links(M, q, << >>, nil)
             /\ \A p \in Q \ {q} : \A t : Links(L, p, t, nil) => Links(M, p, t, nil)
             /\ M.first[q] = nil /\ \A p \in Q \ {q} : M.first[p] = L.first[p]
<1> PICK M : M = LinkInit(L, q, nil)  OBVIOUS
<1>1. /\ L = [first |-> L.first, last |-> L.last, next |-> L.next, prev |-> L.prev]
      /\ L.first \in [Q -> E \cup {nil}] /\ L.last \in [Q -> Cells(Q, E)]
      /\ L.next \in [E -> E \cup {nil}] /\ L.prev \in [E -> Cells(Q, E) \cup {nil}]
  BY DEF LinksOf
<1>2. M = [first |-> [L.first EXCEPT ![q] = nil], last |-> [L.last EXCEPT ![q] = HeadCell(q)],
           next |-> L.next, prev |-> L.prev]
  BY <1>1 DEF LinkInit
<1>3. HeadCell(q) \in Cells(Q, E)  BY DEF Cells
<1>4. M \in LinksOf(Q, E, nil)  BY <1>1, <1>2, <1>3 DEF LinksOf
<1>5. M.next = L.next /\ M.prev = L.prev  BY <1>2
<1>6. M.first[q] = nil /\ M.last[q] = HeadCell(q)  BY <1>1, <1>2
<1>7. \A p \in Q \ {q} : M.first[p] = L.first[p] /\ M.last[p] = L.last[p]  BY <1>1, <1>2
<1>8. Links(M, q, << >>, nil)
  <2>1. Len(<< >>) = 0 /\ 1 .. 0 = {}  BY EmptySeq
  <2> QED  BY <1>6, <2>1 DEF Links
<1>9. \A p \in Q \ {q} : \A t : Links(L, p, t, nil) => Links(M, p, t, nil)
  BY <1>5, <1>7 DEF Links
<1> QED  BY <1>4, <1>5, <1>6, <1>7, <1>8, <1>9

\* Queues that are initialised are empty lists.
LEMMA EmptyLists ==
  ASSUME NEW Q, NEW E, NEW nil
  PROVE  /\ EmptyLinks(Q, E, nil) \in LinksOf(Q, E, nil)
         /\ \A q \in Q : Links(EmptyLinks(Q, E, nil), q, << >>, nil)
<1>1. \A q \in Q : HeadCell(q) \in Cells(Q, E)  BY DEF Cells
<1>2. Len(<< >>) = 0 /\ 1 .. 0 = {}  BY EmptySeq
<1> QED  BY <1>1, <1>2 DEF EmptyLinks, LinksOf, Links

-----------------------------------------------------------------------------
(* Windows: the invariant *)

\* The application keeps to the rules.
WindowRules == Liberties \cap
  {"pending", "reshow", "closing", "again", "hidden", "onfocus", "late", "stale", "exit"} = {}

WindowOrNone == Window \cup {NoWindow}

\* Queue q is the list of some windows.
Listed(L, q) ==
  /\ Walk(L, q) \in Seq(Window) /\ NoRepeats(Walk(L, q))
  /\ Links(L, q, Walk(L, q), NoWindow)

\* The windows on the queues to show and to hide; the queue of those to detach, as a
\* sequence and as a set.
Sh == On(vis, "show")
Hd == On(vis, "hide")
Dq == Walk(det, "detach")
Dt == On(det, "detach")

\* The variables are of the kinds the code declares.
WindowTypes ==
  /\ stack \in Seq(Window) /\ NoRepeats(stack)
  /\ freed \subseteq Window /\ detaching \subseteq Window
  /\ owner \in [Window -> [parent : WindowOrNone, transientFor : WindowOrNone,
                           pinnedTo : WindowOrNone]]
  /\ subwins \in [Window -> SUBSET Window]
  /\ fade \in [Window -> {"none", "in", "out"}]
  /\ {toFocus, focused, cur, nxt} \subseteq WindowOrNone
  /\ hid \in BOOLEAN /\ quit \in BOOLEAN

\* The queues of windows to show and to hide are lists, with no window in common.
VisOK(L) ==
  /\ L \in LinksOf({"show", "hide"}, Window, NoWindow)
  /\ Listed(L, "show") /\ Listed(L, "hide") /\ On(L, "show") \cap On(L, "hide") = {}
VisLists == VisOK(vis)

\* So is the queue of windows to detach.
DetList ==
  /\ det \in LinksOf({"detach"}, Window, NoWindow)
  /\ Listed(det, "detach")

\* Which queue a window is on, and whether it is attached, visible or destroyed.
Places ==
  /\ detaching = Dt \cup freed
  /\ Attached \cap freed = {}
  /\ pc # "free" => Dt \cap freed = {}
  /\ Sh \cup Hd \cup visible \subseteq Attached
  /\ Sh \cap detaching = {}
  /\ pc \in {"unmap", "free"} \/ quit => Hd \cap detaching = {}
  /\ pc # "show" => Sh \cap visible = {}

\* Only a visible window has the focus or is about to get it.
Focus == {toFocus, focused} \subseteq visible \cup {NoWindow}

\* A window that fades out is still visible, and on no queue.
FadeRight == \A w \in Window : fade[w] = "out" =>
  w \in (visible \cap Fade) \ (Sh \cup Hd \cup detaching)

\* The modal windows are the visible ones that said so.
ModalRight == modal \in Seq(Window) /\ ModalMatches

\* The windows that AG_WindowHide hides stay hidden until it returns.
Hiding ==
  /\ hiding \in Seq(Window) /\ Entries(hiding) \cap visible = {}
  /\ calling = "no" => hiding = << >>

\* Which handler a walk may be in.
Calling ==
  /\ pc \in {"events", "focus", "show", "hide", "unmap", "free"}
  /\ calling \in {"no"} \cup
       CASE pc = "events" -> {"shown", "hidden"}
         [] pc = "focus" -> {"lost", "gain"}
         [] pc = "show" -> {"shown"}
         [] pc \in {"hide", "unmap"} -> {"hidden"}
         [] pc = "free" -> {"freed"}
  /\ calling # "no" => cur # NoWindow
  /\ calling = "shown" \/ pc = "focus" => cur \in visible

\* The walk has yet to do its work on x.
Pending(x) == x \in On(vis, pc) \cup detaching /\ (pc = "show" => x \notin visible)

\* The links from the entries of s lead to later ones.
Forward(L, s) == \A x \in Entries(s) : L.next[x] # NoWindow => Before(s, x, L.next[x])

\* s is a list of what was on the queue when its walk began: the walk is at cur, and
\* what comes after is still to do.
Walked(s) ==
  /\ NoRepeats(s) /\ Entries(s) \subseteq Attached /\ Forward(vis, s)
  /\ cur # NoWindow => cur \in Entries(s)
  /\ cur # NoWindow /\ calling = "no" => Pending(cur)
  /\ \A x \in Window : Before(s, cur, x) => Pending(x)

\* The walks of the show and hide queues, whose handlers may take entries off them.
VisWalk == pc \in {"show", "hide"} => \E s \in Seq(Window) : Walked(s)

\* The first walk of the detach queue leaves no visible window behind it.
UnmapWalk ==
  /\ hid => pc = "unmap"
  /\ pc = "unmap" =>
       /\ cur # NoWindow => cur \in Dt
       /\ calling # "no" => hid
       /\ ~hid => \A x \in Dt : cur = NoWindow \/ Before(Dq, x, cur) => x \notin visible

\* The second walk has destroyed what comes before cur, and nothing else.
FreeWalk == pc = "free" =>
  /\ Dt \cap visible = {}
  /\ cur = NoWindow => Dt \subseteq freed
  /\ cur # NoWindow => cur \in Dt /\ \A x \in Dt : x \in freed <=> Before(Dq, x, cur)
  /\ calling = "freed" => nxt = det.next[cur] /\ cur \notin Attached

\* If w depends on o and o is to go, then so is w, and before o.
Owned(w, o) == o # w /\ o \in detaching =>
  w \in detaching /\ (w \in freed \/ (o \notin freed /\ Before(Dq, w, o)))

\* No window that stays refers to one that goes.
OwnersRight == \A w \in Window :
  /\ Owned(w, owner[w].parent) /\ Owned(w, owner[w].transientFor)
  /\ owner[w].pinnedTo \notin detaching /\ subwins[w] \cap detaching = {}
  /\ {owner[w].parent, owner[w].transientFor} # {NoWindow} => w \in Attached \cup detaching

\* The inductive invariant of windows.
WindowInv ==
  /\ WindowTypes /\ VisLists /\ DetList /\ Places /\ Focus /\ FadeRight /\ ModalRight
  /\ Hiding /\ Calling /\ VisWalk /\ UnmapWalk /\ FreeWalk /\ OwnersRight

-----------------------------------------------------------------------------
(* The queues of windows *)

\* A list of windows is at most as long as there are windows.
LEMMA ListLength ==
  ASSUME NEW s \in Seq(Window), NoRepeats(s)
  PROVE  /\ N \in Nat /\ Len(s) <= N + 1
         /\ IsFiniteSet(Entries(s)) /\ Cardinality(Entries(s)) <= N
<1> PICK n \in Nat : n = Len(s) /\ DOMAIN s = 1 .. n  BY LenProperties
<1>1. s \in Injection(1 .. n, Window)
  <2>1. s \in [1 .. n -> Window]  BY ElementOfSeq, LenProperties
  <2> QED  BY <2>1 DEF Injection, NoRepeats, IsInjective
<1>2. Cardinality(1 .. n) <= N  BY <1>1, FS_Injection, WindowAssumption DEF N
<1>3. Cardinality(1 .. n) = n
  <2>0. 1 \in Int /\ n \in Int  OBVIOUS
  <2>1. Cardinality(1 .. n) = IF 1 > n THEN 0 ELSE n - 1 + 1  BY <2>0, FS_Interval
  <2> QED  BY <2>1
<1>4. N \in Nat  BY FS_CardinalityType, WindowAssumption DEF N
<1>5. Entries(s) \in SUBSET Window  BY EntriesType
<1>6. IsFiniteSet(Entries(s)) /\ Cardinality(Entries(s)) <= N
  BY <1>5, FS_Subset, WindowAssumption DEF N
<1> QED  BY <1>2, <1>3, <1>4, <1>6

\* The walk of a queue whose links agree with a list of windows is that list.
LEMMA ListWalk ==
  ASSUME NEW L, NEW q, NEW s \in Seq(Window), NoRepeats(s), Links(L, q, s, NoWindow)
  PROVE  Walk(L, q) = s /\ Listed(L, q) /\ On(L, q) = Entries(s)
<1>1. N \in Nat /\ Len(s) <= N + 1  BY ListLength
<1>2. Walk(L, q) = s  BY <1>1, WalkOfList, NoWindowAssumption DEF Walk
<1> QED  BY <1>2 DEF Listed, On

\* A walk starts with the first entry, and goes from an entry to the next one.
LEMMA ListSteps ==
  ASSUME NEW L, NEW q, Listed(L, q)
  PROVE  /\ On(L, q) \subseteq Window
         /\ L.first[q] = TailqFirst(Walk(L, q), NoWindow)
         /\ \A w \in On(L, q) : L.next[w] = TailqNext(Walk(L, q), w, NoWindow)
         /\ WellLinked(L, q, N, NoWindow)
<1> PICK s \in Seq(Window) : s = Walk(L, q) /\ NoRepeats(s) /\ Links(L, q, s, NoWindow)
  BY DEF Listed
<1>0. DOMAIN s = 1 .. Len(s)  BY LenProperties
<1>1. On(L, q) \subseteq Window  BY EntriesType DEF On
<1>2. L.first[q] = TailqFirst(s, NoWindow)  BY DEF Links, TailqFirst
<1>3. ASSUME NEW w \in On(L, q)  PROVE L.next[w] = TailqNext(s, w, NoWindow)
  <2>1. w \in Entries(s)  BY DEF On
  <2>2. Pos(s, w) \in 1 .. Len(s) /\ s[Pos(s, w)] = w  BY <2>1, PosProperties
  <2> QED  BY <2>2 DEF TailqNext, Links
<1>4. WellLinked(L, q, N, NoWindow)
  <2>1. LinkWalk(L, q, N, NoWindow) = s  BY DEF Walk
  <2> QED  BY <1>0, <2>1 DEF WellLinked, NoRepeats, Links, Last
<1> QED  BY <1>1, <1>2, <1>3, <1>4

\* A window that is on no list is put at the end of one.
LEMMA ListedInsert ==
  ASSUME NEW Q, NEW L \in LinksOf(Q, Window, NoWindow), NEW q \in Q, Listed(L, q),
         NEW w \in Window \ On(L, q)
  PROVE  LET M == LinkInsertTail(L, q, w, NoWindow)
         IN  /\ M \in LinksOf(Q, Window, NoWindow)
             /\ Listed(M, q) /\ Walk(M, q) = TailqInsertTail(Walk(L, q), w)
             /\ On(M, q) = On(L, q) \cup {w}
             /\ \A p \in Q \ {q} :
                  Listed(L, p) /\ w \notin On(L, p) /\ On(L, p) \cap On(L, q) = {}
                  => Listed(M, p) /\ Walk(M, p) = Walk(L, p) /\ On(M, p) = On(L, p)
<1> PICK s \in Seq(Window) : s = Walk(L, q) /\ NoRepeats(s) /\ Links(L, q, s, NoWindow)
  BY DEF Listed
<1> PICK M : M = LinkInsertTail(L, q, w, NoWindow)  OBVIOUS
<1>1. w \in Window \ Entries(s)  BY DEF On
<1>2. /\ M \in LinksOf(Q, Window, NoWindow)
      /\ Links(M, q, Append(s, w), NoWindow)
      /\ \A p \in Q \ {q}, t \in Seq(Window) :
           Links(L, p, t, NoWindow) /\ Entries(t) \cap (Entries(s) \cup {w}) = {}
           => Links(M, p, t, NoWindow)
  BY <1>1, InsertTailOfList, NoWindowAssumption
<1> PICK r : r = TailqInsertTail(s, w)  OBVIOUS
<1>3. r \in Seq(Window) /\ NoRepeats(r) /\ Entries(r) = Entries(s) \cup {w}
  BY <1>1, InsertTailProperties
<1>4. Links(M, q, r, NoWindow)  BY <1>2 DEF TailqInsertTail
<1>5. Listed(M, q) /\ Walk(M, q) = r /\ On(M, q) = On(L, q) \cup {w}
  BY <1>3, <1>4, ListWalk DEF On
<1>6. ASSUME NEW p \in Q \ {q}, Listed(L, p), w \notin On(L, p), On(L, p) \cap On(L, q) = {}
      PROVE  Listed(M, p) /\ Walk(M, p) = Walk(L, p) /\ On(M, p) = On(L, p)
  <2> PICK t \in Seq(Window) : t = Walk(L, p) /\ NoRepeats(t) /\ Links(L, p, t, NoWindow)
    BY <1>6 DEF Listed
  <2>1. Entries(t) \cap (Entries(s) \cup {w}) = {}  BY <1>6 DEF On
  <2>2. Links(M, p, t, NoWindow)  BY <1>2, <2>1
  <2> QED  BY <2>2, ListWalk DEF On
<1> QED  BY <1>2, <1>5, <1>6

\* A window on a list is taken off it.
LEMMA ListedRemove ==
  ASSUME NEW Q, NEW L \in LinksOf(Q, Window, NoWindow), NEW q \in Q, Listed(L, q),
         NEW w \in On(L, q)
  PROVE  LET M == LinkRemove(L, q, w, NoWindow)
         IN  /\ M \in LinksOf(Q, Window, NoWindow)
             /\ Listed(M, q) /\ On(M, q) = On(L, q) \ {w}
             /\ \A p \in Q \ {q} : Listed(L, p) /\ On(L, p) \cap On(L, q) = {}
                  => Listed(M, p) /\ On(M, p) = On(L, p)
             /\ \A x \in Window : M.next[x] # L.next[x] => L.next[x] = w /\ M.next[x] = L.next[w]
<1> PICK s \in Seq(Window) : s = Walk(L, q) /\ NoRepeats(s) /\ Links(L, q, s, NoWindow)
  BY DEF Listed
<1> PICK M : M = LinkRemove(L, q, w, NoWindow)  OBVIOUS
<1>1. w \in Entries(s)  BY DEF On
<1>2. /\ M \in LinksOf(Q, Window, NoWindow)
      /\ Links(M, q, TailqRemove(s, w), NoWindow)
      /\ \A p \in Q \ {q}, t \in Seq(Window) :
           Links(L, p, t, NoWindow) /\ Entries(t) \cap Entries(s) = {} => Links(M, p, t, NoWindow)
      /\ \A x \in Window : M.next[x] # L.next[x] => L.next[x] = w /\ M.next[x] = L.next[w]
  BY <1>1, RemoveOfList, NoWindowAssumption
<1> PICK r : r = TailqRemove(s, w)  OBVIOUS
<1>3. r \in Seq(Window) /\ NoRepeats(r) /\ Entries(r) = Entries(s) \ {w}
  BY <1>1, RemoveProperties
<1>5. Listed(M, q) /\ On(M, q) = On(L, q) \ {w}  BY <1>2, <1>3, ListWalk DEF On
<1>6. ASSUME NEW p \in Q \ {q}, Listed(L, p), On(L, p) \cap On(L, q) = {}
      PROVE  Listed(M, p) /\ On(M, p) = On(L, p)
  <2> PICK t \in Seq(Window) : t = Walk(L, p) /\ NoRepeats(t) /\ Links(L, p, t, NoWindow)
    BY <1>6 DEF Listed
  <2>1. Entries(t) \cap Entries(s) = {}  BY <1>6 DEF On
  <2>2. Links(M, p, t, NoWindow)  BY <1>2, <2>1
  <2> QED  BY <2>2, ListWalk DEF On
<1> QED  BY <1>2, <1>5, <1>6

\* A list is emptied.
LEMMA ListedInit ==
  ASSUME NEW Q, NEW L \in LinksOf(Q, Window, NoWindow), NEW q \in Q
  PROVE  LET M == LinkInit(L, q, NoWindow)
         IN  /\ M \in LinksOf(Q, Window, NoWindow) /\ M.next = L.next
             /\ Listed(M, q) /\ On(M, q) = {}
             /\ \A p \in Q \ {q} : /\ Listed(L, p) => Listed(M, p) /\ On(M, p) = On(L, p)
                                   /\ M.first[p] = L.first[p]
<1> PICK M : M = LinkInit(L, q, NoWindow)  OBVIOUS
<1>1. /\ M \in LinksOf(Q, Window, NoWindow) /\ M.next = L.next
      /\ Links(M, q, << >>, NoWindow)
      /\ \A p \in Q \ {q} : \A t : Links(L, p, t, NoWindow) => Links(M, p, t, NoWindow)
      /\ \A p \in Q \ {q} : M.first[p] = L.first[p]
  BY InitOfList
<1>2. << >> \in Seq(Window) /\ NoRepeats(<< >>) /\ Entries(<< >>) = {}
  <2>1. << >> \in Seq(Window) /\ DOMAIN << >> = {}  BY EmptySeq
  <2> QED  BY <2>1 DEF NoRepeats, Entries
<1>3. Listed(M, q) /\ On(M, q) = {}  BY <1>1, <1>2, ListWalk
<1>4. ASSUME NEW p \in Q \ {q}, Listed(L, p)
      PROVE  Listed(M, p) /\ On(M, p) = On(L, p)
  <2> PICK t \in Seq(Window) : t = Walk(L, p) /\ NoRepeats(t) /\ Links(L, p, t, NoWindow)
    BY <1>4 DEF Listed
  <2> QED  BY <1>1, ListWalk DEF On
<1> QED  BY <1>1, <1>3, <1>4

-----------------------------------------------------------------------------
(* Detaching *)

\* Joined sequences keep their order.
LEMMA JoinedOrder ==
  ASSUME NEW s \in Seq(Window), NEW f \in [Window -> Seq(Window)]
  PROVE  /\ Joined(s, f) \in Seq(Window)
         /\ \A a : a \in Entries(Joined(s, f)) <=> \E x \in Entries(s) : a \in Entries(f[x])
         /\ \A x \in Entries(s) : \A a, b : Before(f[x], a, b) => Before(Joined(s, f), a, b)
<1> PICK n \in Nat : n = Len(s) /\ DOMAIN s = 1 .. n  BY LenProperties
<1> DEFINE Rec(F) == F = [i \in 0 .. n |-> IF i = 0 THEN << >> ELSE F[i - 1] \o f[s[i]]]
           J == CHOOSE F : Rec(F)
<1>1. \A i \in 1 .. n : s[i] \in Window /\ f[s[i]] \in Seq(Window)  BY ElementOfSeq
<1>2. \E F : Rec(F)
  <2> PICK K : K = Seq(Window)  OBVIOUS
  <2> DEFINE step == [x \in (1 .. n) \X K |-> x[2] \o f[s[x[1]]]]
  <2>1. step \in Steps(n, K)
    <3>1. ASSUME NEW i \in 1 .. n, NEW k \in K  PROVE k \o f[s[i]] \in K
      BY <1>1, ConcatProperties
    <3> QED  BY <3>1 DEF Steps
  <2>2. PICK F : ByStep(F, n, K, << >>, step)
    <3> HIDE DEF step
    <3>1. << >> \in K  BY EmptySeq
    <3> QED  BY <2>1, <3>1, StepByStep
  <2>3. F \in [0 .. n -> K] /\ F[0] = << >>  BY <2>2 DEF ByStep
  <2>4. ASSUME NEW i \in 1 .. n  PROVE F[i] = F[i - 1] \o f[s[i]]
    <3>1. i - 1 \in 0 .. n  OBVIOUS
    <3>2. F[i - 1] \in K  BY <2>3, <3>1
    <3>3. F[i] = step[<<i, F[i - 1]>>]  BY <2>2 DEF ByStep
    <3> QED  BY <3>2, <3>3
  <2>5. \A i \in 0 .. n : i # 0 => i \in 1 .. n  OBVIOUS
  <2>6. Rec(F)  BY <2>3, <2>4, <2>5
  <2> QED  BY <2>6
<1>3. Rec(J)  BY <1>2
<1>4. Joined(s, f) = J[n]  BY DEF Joined
<1> HIDE DEF J
<1>5. \A i \in 0 .. n : J[i] = IF i = 0 THEN << >> ELSE J[i - 1] \o f[s[i]]  BY <1>3, Zenon
<1> HIDE DEF Rec
<1> DEFINE Good(m, k) == /\ k \in Seq(Window)
                         /\ \A a : a \in Entries(k) <=> \E i \in 1 .. m : a \in Entries(f[s[i]])
                         /\ \A i \in 1 .. m : \A a, b : Before(f[s[i]], a, b) => Before(k, a, b)
           Right == {m \in 0 .. n : Good(m, J[m])}
<1>6. 0 \in Right
  <2>1. 0 \in 0 .. n /\ J[0] = << >>  BY <1>5
  <2>2. Good(0, << >>)
    <3>1. << >> \in Seq(Window) /\ DOMAIN << >> = {} /\ 1 .. 0 = {}  BY EmptySeq, LenProperties
    <3> QED  BY <3>1 DEF Entries
  <2> HIDE DEF Good
  <2> QED  BY <2>1, <2>2
<1>7. ASSUME NEW m \in 0 .. n, m # n, m \in Right  PROVE m + 1 \in Right
  <2> PICK p \in 1 .. n : p = m + 1  BY <1>7
  <2>1. p \in 0 .. n /\ p # 0 /\ p - 1 = m /\ 1 .. p = (1 .. m) \cup {p}  OBVIOUS
  <2> PICK k : k = J[m]  OBVIOUS
  <2>2. Good(m, k)
    <3> HIDE DEF Good
    <3> QED  BY <1>7
  <2> PICK g \in Seq(Window) : g = f[s[p]]  BY <1>1
  <2> PICK r : r = k \o g  OBVIOUS
  <2>3. J[p] = r  BY <1>5, <2>1
  <2>4. /\ r \in Seq(Window) /\ Entries(r) = Entries(k) \cup Entries(g)
        /\ \A a, b : Before(k, a, b) \/ Before(g, a, b) => Before(r, a, b)
    BY <2>2, ConcatOrder
  <2>5. Good(p, r)
    <3>1. ASSUME NEW a
          PROVE  a \in Entries(r) <=> \E i \in 1 .. p : a \in Entries(f[s[i]])
      BY <2>1, <2>2, <2>4
    <3>2. ASSUME NEW i \in 1 .. p, NEW a, NEW b, Before(f[s[i]], a, b)  PROVE Before(r, a, b)
      <4>1. i \in 1 .. m \/ i = p  BY <2>1
      <4> QED  BY <2>2, <2>4, <3>2, <4>1
    <3> QED  BY <2>2, <2>4, <3>1, <3>2
  <2> HIDE DEF Good
  <2> QED  BY <2>1, <2>3, <2>5
<1>8. Good(n, J[n])
  <2> HIDE DEF Right
  <2>1. n \in 0 .. n  OBVIOUS
  <2>2. n \in Right  BY <1>6, <1>7, <2>1, UpTo
  <2> HIDE DEF Good
  <2> QED  BY <2>2 DEF Right
<1>9. \A x : x \in Entries(s) <=> \E i \in 1 .. n : x = s[i]  BY DEF Entries
<1> PICK k : k = Joined(s, f) /\ k = J[n]  BY <1>4
<1>10. \A a : a \in Entries(k) <=> \E x \in Entries(s) : a \in Entries(f[x])  BY <1>8, <1>9
<1>11. \A x \in Entries(s) : \A a, b : Before(f[x], a, b) => Before(k, a, b)  BY <1>8, <1>9
<1> QED  BY <1>8, <1>10, <1>11

\* Windows come after those that depend on them.
Depends(y, x) == y # x /\ x \in {owner[y].parent, owner[y].transientFor}
Ordered(s) == \A x \in Entries(s), y \in Attached : Depends(y, x) => Before(s, y, x)

\* Detach puts a window on the queue after those that depend on it, unless it meets
\* a window again: a sequence that is not in order is as long as the calls are deep,
\* and there are only so many windows.
LEMMA DetachInOrder ==
  ASSUME WindowTypes, NEW w \in Window
  PROVE  /\ DetachOrder(w) \in Seq(Window) /\ Entries(DetachOrder(w)) \subseteq Attached \cup {w}
         /\ w \in Entries(DetachOrder(w))
         /\ NoRepeats(DetachOrder(w)) => Ordered(DetachOrder(w))
<1>0. stack \in Seq(Window) /\ Attached \subseteq Window /\ w \in Window
  BY EntriesType DEF WindowTypes, Attached
<1>n. N \in Nat /\ N + 1 \in Nat  BY FS_CardinalityType, WindowAssumption DEF N
<1> DEFINE below(d, x) == [y \in Window |-> IF Depends(y, x) THEN d[y] ELSE << >>]
           order(d, x) == Joined(stack, below(d, x)) \o <<x>>
           step(d) == [x \in Window |-> order(d, x)]
           none == [x \in Window |-> << >>]
           Rec(F) == F = [k \in 0 .. N + 1 |-> IF k = 0 THEN none ELSE step(F[k - 1])]
           D == CHOOSE F : Rec(F)
<1> PICK K : K = [Window -> Seq(Window)]  OBVIOUS
<1>e. << >> \in Seq(Window) /\ Entries(<< >>) = {}
  <2>1. << >> \in Seq(Window) /\ DOMAIN << >> = {}  BY EmptySeq
  <2> QED  BY <2>1 DEF Entries
<1>b. ASSUME NEW d \in K, NEW x \in Window
      PROVE  below(d, x) \in [Window -> Seq(Window)]
  BY <1>e
<1>1. ASSUME NEW d \in K, NEW x \in Window
      PROVE  LET s == order(d, x)
             IN  /\ s \in Seq(Window)
                 /\ \A a : a \in Entries(s) <=>
                      a = x \/ \E y \in Attached : Depends(y, x) /\ a \in Entries(d[y])
                 /\ \A y \in Attached : Depends(y, x) =>
                      /\ \A a, b : Before(d[y], a, b) => Before(s, a, b)
                      /\ \A a \in Entries(d[y]) : Before(s, a, x)
  <2> PICK f \in [Window -> Seq(Window)] : f = below(d, x)  BY <1>b
  <2> PICK j : j = Joined(stack, f)  OBVIOUS
  <2>1. /\ j \in Seq(Window)
        /\ \A a : a \in Entries(j) <=> \E y \in Entries(stack) : a \in Entries(f[y])
        /\ \A y \in Entries(stack) : \A a, b : Before(f[y], a, b) => Before(j, a, b)
    BY <1>0, JoinedOrder
  <2>2. ASSUME NEW t \in Seq(Window), Entries(t) = {x}
        PROVE  /\ j \o t \in Seq(Window) /\ Entries(j \o t) = Entries(j) \cup {x}
               /\ \A a, b : Before(j, a, b) \/ (a \in Entries(j) /\ b = x) => Before(j \o t, a, b)
    <3>1. j \in Seq(Window)  BY <2>1
    <3>2. j \o t \in Seq(Window)  BY <3>1, ConcatOrder
    <3>3. Entries(j \o t) = Entries(j) \cup Entries(t)
      <4>1. \A a : a \in Entries(j \o t) <=> a \in Entries(j) \cup Entries(t)
        BY <3>1, ConcatOrder
      <4> QED  BY <4>1
    <3>4. \A a, b : Before(j, a, b) => Before(j \o t, a, b)  BY <3>1, ConcatOrder
    <3>5. \A a \in Entries(j), b \in Entries(t) : Before(j \o t, a, b)  BY <3>1, ConcatOrder
    <3> QED  BY <2>2, <3>2, <3>3, <3>4, <3>5
  <2> PICK s : s = j \o <<x>>  OBVIOUS
  <2>3. /\ s \in Seq(Window) /\ Entries(s) = Entries(j) \cup {x}
        /\ \A a, b : Before(j, a, b) \/ (a \in Entries(j) /\ b = x) => Before(s, a, b)
    <3>1. <<x>> \in Seq(Window) /\ DOMAIN <<x>> = {1} /\ <<x>>[1] = x  OBVIOUS
    <3>2. Entries(<<x>>) = {x}  BY <3>1 DEF Entries
    <3> QED  BY <2>2, <3>1, <3>2
  <2>4. \A y \in Attached : /\ Depends(y, x) => f[y] = d[y]
                            /\ ~Depends(y, x) => Entries(f[y]) = {}
    BY <1>0, <1>e
  <2>5. \A a : a \in Entries(j) <=> \E y \in Attached : Depends(y, x) /\ a \in Entries(d[y])
    BY <2>1, <2>4 DEF Attached
  <2>6. \A y \in Attached : Depends(y, x) => \A a, b : Before(d[y], a, b) => Before(j, a, b)
    BY <2>1, <2>4 DEF Attached
  <2>7. \A a : a \in Entries(s) <=>
               a = x \/ \E y \in Attached : Depends(y, x) /\ a \in Entries(d[y])
    BY <2>3, <2>5
  <2>8. \A y \in Attached : Depends(y, x) =>
          /\ \A a, b : Before(d[y], a, b) => Before(s, a, b)
          /\ \A a \in Entries(d[y]) : Before(s, a, x)
    <3> SUFFICES ASSUME NEW y \in Attached, Depends(y, x)
                 PROVE  /\ \A a, b : Before(d[y], a, b) => Before(s, a, b)
                        /\ \A a \in Entries(d[y]) : Before(s, a, x)
      OBVIOUS
    <3>1. \A a, b : Before(d[y], a, b) => Before(j, a, b)  BY <2>6
    <3>2. \A a \in Entries(d[y]) : a \in Entries(j)  BY <2>5
    <3> QED  BY <2>3, <3>1, <3>2
  <2>9. s = order(d, x)  OBVIOUS
  <2> HIDE DEF order
  <2> QED  BY <2>3, <2>7, <2>8, <2>9
<1> HIDE DEF order
<1>2. \E F : Rec(F)
  <2> DEFINE st == [x \in (1 .. N + 1) \X K |-> step(x[2])]
  <2>1. st \in Steps(N + 1, K)
    <3>1. \A d \in K : step(d) \in K  BY <1>1
    <3> HIDE DEF step
    <3> QED  BY <3>1 DEF Steps
  <2>2. PICK F : ByStep(F, N + 1, K, none, st)
    <3>1. none \in K  BY <1>e
    <3> HIDE DEF st, none
    <3> QED  BY <1>n, <2>1, <3>1, StepByStep
  <2>3. F \in [0 .. N + 1 -> K] /\ F[0] = none  BY <2>2 DEF ByStep
  <2>4. ASSUME NEW i \in 1 .. N + 1  PROVE F[i] = step(F[i - 1])
    <3>1. i - 1 \in 0 .. N + 1  BY <1>n
    <3>2. F[i - 1] \in K  BY <2>3, <3>1
    <3>3. F[i] = st[<<i, F[i - 1]>>]  BY <2>2 DEF ByStep
    <3> HIDE DEF step
    <3> QED  BY <3>2, <3>3
  <2>5. \A i \in 0 .. N + 1 : i # 0 => i \in 1 .. N + 1  BY <1>n
  <2> HIDE DEF step, none
  <2>6. Rec(F)  BY <2>3, <2>4, <2>5
  <2> QED  BY <2>6
<1>3. Rec(D)  BY <1>2
<1>4. DetachOrder(w) = D[N + 1][w]
  BY DEF DetachOrder, Depends, order
<1> HIDE DEF D
<1>5. \A k \in 0 .. N + 1 : D[k] = IF k = 0 THEN none ELSE step(D[k - 1])
  <2> HIDE DEF none, step
  <2> QED  BY <1>3, Zenon
<1> HIDE DEF Rec
<1> DEFINE Good(k, d) ==
             /\ d \in K
             /\ \A x \in Window :
                  /\ Entries(d[x]) \subseteq Attached \cup {x} /\ (k # 0 => x \in Entries(d[x]))
                  /\ NoRepeats(d[x]) => \/ k # 0 /\ Ordered(d[x])
                                        \/ Cardinality(Entries(d[x])) >= k
           Right == {k \in 0 .. N + 1 : Good(k, D[k])}
<1>6. 0 \in Right
  <2>0. 0 \in 0 .. N + 1  BY <1>n
  <2>1. 0 \in 0 .. N + 1 /\ D[0] = none
    <3> HIDE DEF none, step
    <3> QED  BY <1>5, <2>0
  <2>2. Good(0, none)
    <3>1. Cardinality({}) = 0  BY FS_EmptySet
    <3>2. none \in K /\ \A x \in Window : none[x] = << >>  BY <1>e
    <3> HIDE DEF none
    <3>3. ASSUME NEW x \in Window
          PROVE  /\ Entries(none[x]) \subseteq Attached \cup {x}
                 /\ Cardinality(Entries(none[x])) >= 0
      <4>1. Entries(none[x]) = {}  BY <1>e, <3>2
      <4> QED  BY <3>1, <4>1
    <3> QED  BY <3>2, <3>3
  <2> HIDE DEF Good, none
  <2> QED  BY <2>1, <2>2
<1>7. ASSUME NEW k \in 0 .. N + 1, k # N + 1, k \in Right  PROVE k + 1 \in Right
  <2>1. k + 1 \in 0 .. N + 1 /\ k + 1 # 0 /\ k + 1 - 1 = k /\ k \in Nat  BY <1>7, <1>n
  <2> PICK d : d = D[k]  OBVIOUS
  <2>2. Good(k, d)
    <3> HIDE DEF Good
    <3> QED  BY <1>7
  <2>3. D[k + 1] = step(d)
    <3> HIDE DEF step
    <3> QED  BY <1>5, <2>1
  <2>4. ASSUME NEW x \in Window
        PROVE  LET s == order(d, x) IN
               /\ s \in Seq(Window)
               /\ Entries(s) \subseteq Attached \cup {x} /\ x \in Entries(s)
               /\ NoRepeats(s) => Ordered(s) \/ Cardinality(Entries(s)) >= k + 1
    <3> PICK s : s = order(d, x)  OBVIOUS
    <3>1. /\ s \in Seq(Window)
          /\ \A a : a \in Entries(s) <=>
               a = x \/ \E y \in Attached : Depends(y, x) /\ a \in Entries(d[y])
          /\ \A y \in Attached : Depends(y, x) =>
               /\ \A a, b : Before(d[y], a, b) => Before(s, a, b)
               /\ \A a \in Entries(d[y]) : Before(s, a, x)
      BY <1>1, <2>2
    <3>2. \A y \in Attached : /\ y \in Window /\ d[y] \in Seq(Window)
                              /\ Entries(d[y]) \subseteq Attached
                              /\ k # 0 => y \in Entries(d[y])
      BY <1>0, <2>2
    <3>3. Entries(s) \subseteq Attached \cup {x} /\ x \in Entries(s)  BY <3>1, <3>2
    <3>4. ASSUME NoRepeats(s), ~Ordered(s)
          PROVE  Cardinality(Entries(s)) >= k + 1
      <4>f. IsFiniteSet(Entries(s)) /\ Cardinality(Entries(s)) \in Nat
        <5>1. IsFiniteSet(Entries(s))  BY <3>1, <3>4, ListLength
        <5> QED  BY <5>1, FS_CardinalityType
      <4>1. CASE k = 0
        <5>1. Entries(s) # {}  BY <3>3
        <5>2. Cardinality(Entries(s)) # 0  BY <4>f, <5>1, FS_EmptySet
        <5> QED  BY <4>1, <4>f, <5>2
      <4>2. CASE k # 0
        <5>1. ~ \E a : Before(s, a, a)  BY <3>1, <3>4, NoneBeforeItself
        <5>2. PICK z \in Entries(s), v \in Attached : Depends(v, z) /\ ~Before(s, v, z)
          BY <3>4 DEF Ordered
        <5>3. z # x  BY <3>1, <3>2, <4>2, <5>2
        <5>4. PICK y \in Attached : Depends(y, x) /\ z \in Entries(d[y])  BY <3>1, <5>3
        <5>5. ~Before(d[y], v, z)  BY <3>1, <5>2, <5>4
        <5>6. ~Ordered(d[y])  BY <5>2, <5>4, <5>5 DEF Ordered
        <5>7. NoRepeats(d[y])
          <6>1. ~ \E a : Before(d[y], a, a)  BY <3>1, <5>1, <5>4
          <6> QED  BY <3>2, <6>1, NoneBeforeItself
        <5>8. Cardinality(Entries(d[y])) >= k  BY <2>2, <3>2, <5>6, <5>7
        <5>9. x \notin Entries(d[y])  BY <3>1, <5>1, <5>4
        <5>10. Entries(d[y]) \in SUBSET Entries(s)  BY <3>1, <5>4
        <5>11. /\ IsFiniteSet(Entries(d[y]))
               /\ Cardinality(Entries(d[y])) <= Cardinality(Entries(s))
               /\ (Cardinality(Entries(s)) = Cardinality(Entries(d[y]))
                   => Entries(s) = Entries(d[y]))
          BY <4>f, <5>10, FS_Subset
        <5>12. Cardinality(Entries(d[y])) \in Nat  BY <5>11, FS_CardinalityType
        <5>13. Cardinality(Entries(d[y])) # Cardinality(Entries(s))  BY <3>3, <5>9, <5>11
        <5> QED  BY <2>1, <4>f, <5>8, <5>11, <5>12, <5>13
      <4> QED  BY <4>1, <4>2
    <3> QED  BY <3>1, <3>3, <3>4
  <2>5. Good(k + 1, step(d))  BY <2>1, <2>4
  <2> HIDE DEF Good, step
  <2> QED  BY <2>1, <2>3, <2>5
<1>8. Good(N + 1, D[N + 1])
  <2> HIDE DEF Right
  <2>1. N + 1 \in 0 .. N + 1  BY <1>n
  <2>2. N + 1 \in Right  BY <1>6, <1>7, <1>n, <2>1, UpTo
  <2> HIDE DEF Good
  <2> QED  BY <2>2 DEF Right
<1> PICK s \in Seq(Window) : s = D[N + 1][w]  BY <1>0, <1>8
<1>9. /\ Entries(s) \subseteq Attached \cup {w} /\ w \in Entries(s)
      /\ NoRepeats(s) => Ordered(s) \/ Cardinality(Entries(s)) >= N + 1
  BY <1>0, <1>8, <1>n
<1>10. NoRepeats(s) => Ordered(s)
  <2> SUFFICES ASSUME NoRepeats(s)  PROVE Ordered(s)  OBVIOUS
  <2>1. IsFiniteSet(Entries(s)) /\ Cardinality(Entries(s)) <= N  BY ListLength
  <2>2. Cardinality(Entries(s)) \in Nat  BY <2>1, FS_CardinalityType
  <2> QED  BY <1>9, <1>n, <2>1, <2>2
<1> QED  BY <1>4, <1>9, <1>10

\* The windows ds are put at the end of the detach queue.
LEMMA QueuedInOrder ==
  ASSUME DetList, NEW ds \in Seq(Window), NoRepeats(ds), Entries(ds) \cap Dt = {}
  PROVE  LET M == QueuedDetach(ds)
         IN  /\ M \in LinksOf({"detach"}, Window, NoWindow)
             /\ Listed(M, "detach") /\ On(M, "detach") = Dt \cup Entries(ds)
             /\ \A a, b : Before(Dq, a, b) \/ Before(ds, a, b) \/ (a \in Dt /\ b \in Entries(ds))
                  => Before(Walk(M, "detach"), a, b)
<1> PICK n \in Nat : n = Len(ds) /\ DOMAIN ds = 1 .. n  BY LenProperties
<1> PICK K : K = LinksOf({"detach"}, Window, NoWindow)  OBVIOUS
<1> DEFINE put(L, i) == LinkInsertTail(L, "detach", ds[i], NoWindow)
           Rec(F) == F = [i \in 0 .. n |-> IF i = 0 THEN det ELSE put(F[i - 1], i)]
           J == CHOOSE F : Rec(F)
           puts == [x \in (1 .. n) \X K |-> put(x[2], x[1])]
           Good(m, L) ==
             /\ L \in K /\ Listed(L, "detach")
             /\ \A a : a \in On(L, "detach") <=> a \in Dt \/ \E i \in 1 .. m : a = ds[i]
             /\ \A a, b : Before(Dq, a, b) => Before(Walk(L, "detach"), a, b)
             /\ \A a \in Dt : \A i \in 1 .. m : Before(Walk(L, "detach"), a, ds[i])
             /\ \A i, j \in 1 .. m : i < j => Before(Walk(L, "detach"), ds[i], ds[j])
<1>0. \A i \in 1 .. n : ds[i] \in Window /\ ds[i] \notin Dt  BY ElementOfSeq DEF Entries
<1>1. det \in K /\ Listed(det, "detach")  BY DEF DetList
<1>2. Good(0, det)
  <2>1. 1 .. 0 = {}  OBVIOUS
  <2> QED  BY <1>1, <2>1 DEF Dt, Dq
<1>3. ASSUME NEW m \in 0 .. n, m # n, NEW L, Good(m, L)
      PROVE  Good(m + 1, put(L, m + 1))
  <2> PICK p \in 1 .. n : p = m + 1  BY <1>3
  <2> PICK w \in Window : w = ds[p]  BY <1>0
  <2>1. 1 .. p = (1 .. m) \cup {p} /\ p \notin 1 .. m /\ \A i \in 1 .. m : i \in 1 .. n /\ i < p
    OBVIOUS
  <2>2. w \notin On(L, "detach")
    <3>1. \A i \in 1 .. m : w # ds[i]  BY <2>1 DEF NoRepeats
    <3> QED  BY <1>0, <1>3, <3>1
  <2> PICK M : M = put(L, p)  OBVIOUS
  <2> PICK r \in Seq(Window) : r = Walk(L, "detach") /\ NoRepeats(r)  BY <1>3 DEF Listed
  <2> PICK t : t = TailqInsertTail(r, w)  OBVIOUS
  <2>3. M \in K /\ Listed(M, "detach") /\ Walk(M, "detach") = t
        /\ On(M, "detach") = On(L, "detach") \cup {w}
    BY <1>3, <2>2, ListedInsert
  <2>4. \A a, b : Before(r, a, b) => Before(t, a, b)  BY BeforeInsertTail
  <2>5. \A a \in On(L, "detach") : Before(t, a, w)  BY TailIsLast DEF On
  <2>6. \A a : a \in On(M, "detach") <=> a \in Dt \/ \E i \in 1 .. p : a = ds[i]
    BY <1>3, <2>1, <2>3
  <2>7. \A a, b : Before(Dq, a, b) => Before(t, a, b)  BY <1>3, <2>4
  <2>8. \A a \in Dt, i \in 1 .. p : Before(t, a, ds[i])  BY <1>3, <2>1, <2>4, <2>5
  <2>9. \A i, j \in 1 .. p : i < j => Before(t, ds[i], ds[j])
    <3> SUFFICES ASSUME NEW i \in 1 .. p, NEW j \in 1 .. p, i < j  PROVE Before(t, ds[i], ds[j])
      OBVIOUS
    <3>1. i \in 1 .. m /\ (j \in 1 .. m \/ j = p)  BY <2>1
    <3>2. ds[i] \in On(L, "detach")  BY <1>3, <3>1
    <3> QED  BY <1>3, <2>4, <2>5, <3>1, <3>2
  <2> QED  BY <2>3, <2>6, <2>7, <2>8, <2>9
<1> HIDE DEF Good, put
<1> DEFINE Goods == {x \in (0 .. n) \X K : Good(x[1], x[2])}
<1>i. \A m \in 1 .. n : /\ m \in 0 .. n /\ m # 0 /\ m - 1 \in 0 .. n /\ m - 1 # n
                        /\ m - 1 + 1 = m
  OBVIOUS
<1>4. Goods \in SUBSET ((0 .. n) \X K) /\ <<0, det>> \in Goods
  BY <1>1, <1>2
<1>5. ASSUME NEW m \in 1 .. n, NEW k \in K, <<m - 1, k>> \in Goods
      PROVE  <<m, puts[<<m, k>>]>> \in Goods
  <2>1. Good(m - 1, k)  BY <1>5
  <2>2. Good(m - 1 + 1, put(k, m - 1 + 1))  BY <1>3, <1>i, <2>1
  <2>3. Good(m, put(k, m))  BY <1>i, <2>2
  <2>4. put(k, m) \in K  BY <2>3 DEF Good
  <2>5. puts[<<m, k>>] = put(k, m)  OBVIOUS
  <2> QED  BY <1>i, <2>3, <2>4, <2>5
<1> PICK P : P = puts  OBVIOUS
<1>6. \A m \in 1 .. n : \A k \in K : P[<<m, k>>] = put(k, m)  OBVIOUS
<1>7. /\ \E F \in [0 .. n -> K] : Recurs(F, n, K, det, P)
      /\ \A F : Recurs(F, n, K, det, P) => \A i \in 0 .. n : <<i, F[i]>> \in Goods
  <2> HIDE DEF Goods, puts
  <2>1. KeptBy(Goods, n, K, det, P)  BY <1>4, <1>5 DEF KeptBy
  <2> QED  BY <2>1, StepsKeep
<1>8. Rec(J)
  <2>1. PICK F \in [0 .. n -> K] : Recurs(F, n, K, det, P)  BY <1>7
  <2>2. \A i \in 1 .. n : F[i - 1] \in K /\ F[i] = P[<<i, F[i - 1]>>]
    BY <1>i, <2>1 DEF Recurs
  <2>3. \A i \in 1 .. n : F[i] = put(F[i - 1], i)  BY <1>6, <2>2
  <2>4. \A i \in 0 .. n : i # 0 => i \in 1 .. n  OBVIOUS
  <2>5. Rec(F)  BY <2>1, <2>3, <2>4 DEF Recurs
  <2> HIDE DEF Rec
  <2> QED  BY <2>5
<1>9. QueuedDetach(ds) = J[n]  BY DEF QueuedDetach, put
<1> HIDE DEF J
<1>10. \A i \in 0 .. n : J[i] = IF i = 0 THEN det ELSE put(J[i - 1], i)  BY <1>8, Zenon
<1>11. Good(n, J[n])
  <2>1. Recurs(J, n, K, det, P)  BY <1>6, <1>10, <1>i DEF Recurs
  <2>2. \A i \in 0 .. n : <<i, J[i]>> \in Goods
    <3> HIDE DEF Goods
    <3> QED  BY <1>7, <2>1
  <2>3. <<n, J[n]>> \in Goods  BY <2>2
  <2> QED  BY <2>3
<1> PICK M : M = QueuedDetach(ds) /\ Good(n, M)  BY <1>9, <1>11
<1>12. M \in K /\ Listed(M, "detach")  BY DEF Good
<1>13. On(M, "detach") = Dt \cup Entries(ds)
  <2>1. \A a : a \in On(M, "detach") <=> a \in Dt \/ \E i \in 1 .. n : a = ds[i]  BY DEF Good
  <2> QED  BY <2>1 DEF Entries
<1>14. ASSUME NEW a, NEW b,
              Before(Dq, a, b) \/ Before(ds, a, b) \/ (a \in Dt /\ b \in Entries(ds))
       PROVE  Before(Walk(M, "detach"), a, b)
  <2>1. CASE Before(Dq, a, b)  BY <2>1 DEF Good
  <2>2. CASE Before(ds, a, b)
    <3>1. PICK i \in 1 .. n, j \in 1 .. n : i < j /\ ds[i] = a /\ ds[j] = b
      BY <2>2 DEF Before
    <3>2. \A x, y \in 1 .. n : x < y => Before(Walk(M, "detach"), ds[x], ds[y])  BY DEF Good
    <3> QED  BY <3>1, <3>2
  <2>3. CASE a \in Dt /\ b \in Entries(ds)
    <3>1. PICK j \in 1 .. n : ds[j] = b  BY <2>3 DEF Entries
    <3> QED  BY <2>3, <3>1 DEF Good
  <2> QED  BY <1>14, <2>1, <2>2, <2>3
<1> QED  BY <1>12, <1>13, <1>14

\* A window is taken off one of the two queues of one field.
LEMMA VisRemove ==
  ASSUME NEW L, VisOK(L), NEW q \in {"show", "hide"}, NEW w \in On(L, q)
  PROVE  LET M == LinkRemove(L, q, w, NoWindow)
         IN  /\ VisOK(M) /\ On(M, q) = On(L, q) \ {w}
             /\ \A p \in {"show", "hide"} \ {q} : On(M, p) = On(L, p)
             /\ \A s \in Seq(Window) : NoRepeats(s) /\ Forward(L, s) => Forward(M, s)
<1> PICK M : M = LinkRemove(L, q, w, NoWindow)  OBVIOUS
<1> PICK Q : Q = {"show", "hide"}  OBVIOUS
<1>0. L \in LinksOf(Q, Window, NoWindow) /\ q \in Q /\ Listed(L, q)  BY DEF VisOK
<1>1. /\ M \in LinksOf(Q, Window, NoWindow)
      /\ Listed(M, q) /\ On(M, q) = On(L, q) \ {w}
      /\ \A p \in Q \ {q} : Listed(L, p) /\ On(L, p) \cap On(L, q) = {}
                            => Listed(M, p) /\ On(M, p) = On(L, p)
      /\ \A x \in Window : M.next[x] # L.next[x] => L.next[x] = w /\ M.next[x] = L.next[w]
  BY <1>0, ListedRemove
<1>2. \A p \in Q \ {q} : Listed(M, p) /\ On(M, p) = On(L, p)  BY <1>1 DEF VisOK
<1>3. VisOK(M)  BY <1>1, <1>2 DEF VisOK
<1>4. ASSUME NEW s \in Seq(Window), NoRepeats(s), Forward(L, s)
      PROVE  Forward(M, s)
  <2> SUFFICES ASSUME NEW x \in Entries(s), M.next[x] # NoWindow
               PROVE  Before(s, x, M.next[x])
    BY DEF Forward
  <2>1. CASE M.next[x] = L.next[x]  BY <1>4, <2>1 DEF Forward
  <2>2. CASE M.next[x] # L.next[x]
    <3>1. L.next[x] = w /\ M.next[x] = L.next[w]  BY <1>1, <2>2, EntriesType
    <3>2. w # NoWindow
      <4>1. w \in Window  BY <1>0, ListSteps
      <4> QED  BY <4>1, NoWindowAssumption
    <3>3. Before(s, x, w)  BY <1>4, <3>1, <3>2 DEF Forward
    <3>4. w \in Entries(s)  BY <1>4, <3>3, BeforeIsOrder
    <3>5. Before(s, w, M.next[x])  BY <1>4, <3>1, <3>4 DEF Forward
    <3> QED  BY <1>4, <3>3, <3>5, BeforeIsOrder
  <2> QED  BY <2>1, <2>2
<1> QED  BY <1>1, <1>2, <1>3, <1>4

\* A window is taken off both.
LEMMA UnqueuedOne ==
  ASSUME NEW L, VisOK(L), NEW w \in Window
  PROVE  LET M == Unqueued(L, w)
         IN  /\ VisOK(M)
             /\ On(M, "show") = On(L, "show") \ {w} /\ On(M, "hide") = On(L, "hide") \ {w}
             /\ \A s \in Seq(Window) : NoRepeats(s) /\ Forward(L, s) => Forward(M, s)
<1> PICK L1 : L1 = IF w \in On(L, "hide") THEN LinkRemove(L, "hide", w, NoWindow) ELSE L
  OBVIOUS
<1> PICK M : M = IF w \in On(L1, "show") THEN LinkRemove(L1, "show", w, NoWindow) ELSE L1
  OBVIOUS
<1>1. /\ VisOK(L1)
      /\ On(L1, "show") = On(L, "show") /\ On(L1, "hide") = On(L, "hide") \ {w}
      /\ \A s \in Seq(Window) : NoRepeats(s) /\ Forward(L, s) => Forward(L1, s)
  <2>1. CASE w \in On(L, "hide")
    <3>1. L1 = LinkRemove(L, "hide", w, NoWindow) /\ "hide" \in {"show", "hide"}
          /\ "show" \in {"show", "hide"} \ {"hide"}
      BY <2>1
    <3> QED  BY <2>1, <3>1, VisRemove
  <2>2. CASE w \notin On(L, "hide")  BY <2>2
  <2> QED  BY <2>1, <2>2
<1>2. /\ VisOK(M)
      /\ On(M, "show") = On(L1, "show") \ {w} /\ On(M, "hide") = On(L1, "hide")
      /\ \A s \in Seq(Window) : NoRepeats(s) /\ Forward(L1, s) => Forward(M, s)
  <2>1. CASE w \in On(L1, "show")
    <3>1. M = LinkRemove(L1, "show", w, NoWindow) /\ "show" \in {"show", "hide"}
          /\ "hide" \in {"show", "hide"} \ {"show"}
      BY <2>1
    <3> QED  BY <1>1, <2>1, <3>1, VisRemove
  <2>2. CASE w \notin On(L1, "show")  BY <1>1, <2>2
  <2> QED  BY <2>1, <2>2
<1>3. M = Unqueued(L, w)  BY DEF Unqueued
<1> QED  BY <1>1, <1>2, <1>3

\* The windows ds are taken off both.
LEMMA UnqueuedEach ==
  ASSUME VisLists, NEW ds \in Seq(Window)
  PROVE  LET M == UnqueuedAll(ds)
         IN  /\ VisOK(M)
             /\ On(M, "show") = Sh \ Entries(ds) /\ On(M, "hide") = Hd \ Entries(ds)
             /\ \A s \in Seq(Window) : NoRepeats(s) /\ Forward(vis, s) => Forward(M, s)
<1> PICK n \in Nat : n = Len(ds) /\ DOMAIN ds = 1 .. n  BY LenProperties
<1> PICK K : K = LinksOf({"show", "hide"}, Window, NoWindow)  OBVIOUS
<1> DEFINE put(L, i) == Unqueued(L, ds[i])
           Rec(F) == F = [i \in 0 .. n |-> IF i = 0 THEN vis ELSE put(F[i - 1], i)]
           J == CHOOSE F : Rec(F)
           puts == [x \in (1 .. n) \X K |-> put(x[2], x[1])]
           off(m) == {ds[i] : i \in 1 .. m}
           Good(m, L) ==
             /\ L \in K /\ VisOK(L)
             /\ On(L, "show") = Sh \ off(m) /\ On(L, "hide") = Hd \ off(m)
             /\ \A s \in Seq(Window) : NoRepeats(s) /\ Forward(vis, s) => Forward(L, s)
<1>0. \A i \in 1 .. n : ds[i] \in Window  BY ElementOfSeq
<1>1. vis \in K /\ VisOK(vis)  BY DEF VisLists, VisOK
<1>2. Good(0, vis)
  <2>1. off(0) = {}  OBVIOUS
  <2> QED  BY <1>1, <2>1 DEF Sh, Hd
<1>3. ASSUME NEW m \in 0 .. n, m # n, NEW L, Good(m, L)
      PROVE  Good(m + 1, put(L, m + 1))
  <2> PICK p \in 1 .. n : p = m + 1  BY <1>3
  <2> PICK w \in Window : w = ds[p]  BY <1>0
  <2>1. 1 .. p = (1 .. m) \cup {p}  OBVIOUS
  <2>2. off(p) = off(m) \cup {w}  BY <2>1
  <2> PICK M : M = put(L, p)  OBVIOUS
  <2>3. /\ VisOK(M)
        /\ On(M, "show") = On(L, "show") \ {w} /\ On(M, "hide") = On(L, "hide") \ {w}
        /\ \A s \in Seq(Window) : NoRepeats(s) /\ Forward(L, s) => Forward(M, s)
    BY <1>3, UnqueuedOne
  <2>4. M \in K  BY <2>3 DEF VisOK
  <2> PICK O1, O2 : O1 = off(m) /\ O2 = off(p)  OBVIOUS
  <2>5. On(M, "show") = Sh \ O2 /\ On(M, "hide") = Hd \ O2
    <3>1. On(L, "show") = Sh \ O1 /\ On(L, "hide") = Hd \ O1 /\ O2 = O1 \cup {w}
      BY <1>3, <2>2
    <3> QED  BY <2>3, <3>1
  <2>6. \A s \in Seq(Window) : NoRepeats(s) /\ Forward(vis, s) => Forward(M, s)
    BY <1>3, <2>3
  <2> QED  BY <2>3, <2>4, <2>5, <2>6
<1> HIDE DEF Good, put
<1> DEFINE Goods == {x \in (0 .. n) \X K : Good(x[1], x[2])}
<1>i. \A m \in 1 .. n : /\ m \in 0 .. n /\ m # 0 /\ m - 1 \in 0 .. n /\ m - 1 # n
                        /\ m - 1 + 1 = m
  OBVIOUS
<1>4. Goods \in SUBSET ((0 .. n) \X K) /\ <<0, vis>> \in Goods
  BY <1>1, <1>2
<1>5. ASSUME NEW m \in 1 .. n, NEW k \in K, <<m - 1, k>> \in Goods
      PROVE  <<m, puts[<<m, k>>]>> \in Goods
  <2>1. Good(m - 1, k)  BY <1>5
  <2>2. Good(m - 1 + 1, put(k, m - 1 + 1))  BY <1>3, <1>i, <2>1
  <2>3. Good(m, put(k, m))  BY <1>i, <2>2
  <2>4. put(k, m) \in K  BY <2>3 DEF Good
  <2>5. puts[<<m, k>>] = put(k, m)  OBVIOUS
  <2> QED  BY <1>i, <2>3, <2>4, <2>5
<1> PICK P : P = puts  OBVIOUS
<1>6. \A m \in 1 .. n : \A k \in K : P[<<m, k>>] = put(k, m)  OBVIOUS
<1>7. /\ \E F \in [0 .. n -> K] : Recurs(F, n, K, vis, P)
      /\ \A F : Recurs(F, n, K, vis, P) => \A i \in 0 .. n : <<i, F[i]>> \in Goods
  <2> HIDE DEF Goods, puts
  <2>1. KeptBy(Goods, n, K, vis, P)  BY <1>4, <1>5 DEF KeptBy
  <2> QED  BY <2>1, StepsKeep
<1>8. Rec(J)
  <2>1. PICK F \in [0 .. n -> K] : Recurs(F, n, K, vis, P)  BY <1>7
  <2>2. \A i \in 1 .. n : F[i - 1] \in K /\ F[i] = P[<<i, F[i - 1]>>]
    BY <1>i, <2>1 DEF Recurs
  <2>3. \A i \in 1 .. n : F[i] = put(F[i - 1], i)  BY <1>6, <2>2
  <2>4. \A i \in 0 .. n : i # 0 => i \in 1 .. n  OBVIOUS
  <2>5. Rec(F)  BY <2>1, <2>3, <2>4 DEF Recurs
  <2> HIDE DEF Rec
  <2> QED  BY <2>5
<1>9. UnqueuedAll(ds) = J[n]  BY DEF UnqueuedAll, put
<1> HIDE DEF J
<1>10. \A i \in 0 .. n : J[i] = IF i = 0 THEN vis ELSE put(J[i - 1], i)  BY <1>8, Zenon
<1>11. Good(n, J[n])
  <2>1. Recurs(J, n, K, vis, P)  BY <1>6, <1>10, <1>i DEF Recurs
  <2>2. \A i \in 0 .. n : <<i, J[i]>> \in Goods
    <3> HIDE DEF Goods
    <3> QED  BY <1>7, <2>1
  <2>3. <<n, J[n]>> \in Goods  BY <2>2
  <2> QED  BY <2>3
<1> PICK M : M = UnqueuedAll(ds) /\ Good(n, M)  BY <1>9, <1>11
<1>12. off(n) = Entries(ds)  BY DEF Entries
<1> QED  BY <1>12 DEF Good

\* A window is put at the bottom of the stack, or at the top.
LEMMA Stacked ==
  ASSUME NEW s \in Seq(Window), NoRepeats(s), NEW w \in Window \ Entries(s)
  PROVE  /\ Append(s, w) \in Seq(Window) /\ NoRepeats(Append(s, w))
         /\ Entries(Append(s, w)) = Entries(s) \cup {w}
         /\ <<w>> \o s \in Seq(Window) /\ NoRepeats(<<w>> \o s)
         /\ Entries(<<w>> \o s) = Entries(s) \cup {w}
<1>1. Append(s, w) \in Seq(Window) /\ NoRepeats(Append(s, w))
      /\ Entries(Append(s, w)) = Entries(s) \cup {w}
  BY InsertTailProperties DEF TailqInsertTail
<1> PICK n \in Nat : n = Len(s) /\ DOMAIN s = 1 .. n  BY LenProperties
<1> PICK t \in Seq(Window) : t = <<w>> /\ Len(t) = 1 /\ DOMAIN t = 1 .. 1 /\ t[1] = w
  <2>1. <<w>> \in Seq(Window) /\ Len(<<w>>) = 1 /\ <<w>>[1] = w  OBVIOUS
  <2> QED  BY <2>1, LenProperties
<1> PICK r : r = t \o s  OBVIOUS
<1>2. /\ r \in Seq(Window) /\ Len(r) = 1 + n
      /\ \A i \in 1 .. 1 + n : r[i] = IF i <= 1 THEN t[i] ELSE s[i - 1]
  BY ConcatProperties
<1>3. DOMAIN r = 1 .. 1 + n  BY <1>2, LenProperties
<1>4. \A i \in 1 .. 1 + n : i = 1 \/ i - 1 \in 1 .. n  OBVIOUS
<1>5. \A i \in 1 .. 1 + n : r[i] = IF i = 1 THEN w ELSE s[i - 1]  BY <1>2
<1>6. \A i \in 1 .. n : s[i] # w  BY DEF Entries
<1>7. NoRepeats(r)
  <2> SUFFICES ASSUME NEW i \in 1 .. 1 + n, NEW j \in 1 .. 1 + n, r[i] = r[j]  PROVE i = j
    BY <1>3 DEF NoRepeats
  <2>1. ASSUME i # 1, j # 1  PROVE i - 1 = j - 1
    <3>1. i - 1 \in 1 .. n /\ j - 1 \in 1 .. n /\ r[i] = s[i - 1] /\ r[j] = s[j - 1]
      BY <1>4, <1>5, <2>1
    <3> QED  BY <3>1 DEF NoRepeats
  <2>2. i = 1 <=> j = 1  BY <1>4, <1>5, <1>6
  <2> QED  BY <2>1, <2>2
<1>8. Entries(r) = Entries(s) \cup {w}
  <2>1. Entries(t) = {w}  BY DEF Entries
  <2>2. Entries(r) = Entries(t) \cup Entries(s)  BY ConcatOrder
  <2> QED  BY <2>1, <2>2
<1> QED  BY <1>1, <1>2, <1>7, <1>8

\* A window is moved to the top of the stack.
LEMMA RaisedWindow ==
  ASSUME NEW s \in Seq(Window), NoRepeats(s), NEW w \in Entries(s)
  PROVE  LET r == Append(TailqRemove(s, w), w)
         IN  r \in Seq(Window) /\ NoRepeats(r) /\ Entries(r) = Entries(s)
<1> PICK t \in Seq(Window) : t = TailqRemove(s, w) /\ NoRepeats(t) /\ Entries(t) = Entries(s) \ {w}
  BY RemoveProperties
<1>1. w \in Window \ Entries(t)  BY EntriesType
<1>2. Append(t, w) \in Seq(Window) /\ NoRepeats(Append(t, w))
      /\ Entries(Append(t, w)) = Entries(t) \cup {w}
  BY <1>1, Stacked
<1> QED  BY <1>2

\* The focus can go to a window of S only.
LEMMA TopmostOf ==
  ASSUME WindowTypes, NEW S
  PROVE  Topmost(S) \in S \cup {NoWindow}
<1> DEFINE I == {i \in DOMAIN stack : stack[i] \in S \ DenyFocus}
<1> PICK n \in Nat : n = Len(stack) /\ DOMAIN stack = 1 .. n  BY LenProperties DEF WindowTypes
<1>1. ASSUME I # {}  PROVE Max(I) \in I
  <2>1. {n - i : i \in I} \in SUBSET Nat /\ {n - i : i \in I} # {}  BY <1>1
  <2>2. PICK m \in {n - i : i \in I} : \A k \in {n - i : i \in I} : m <= k  BY <2>1, Least
  <2>3. PICK j \in I : m = n - j  OBVIOUS
  <2>4. ASSUME NEW i \in I  PROVE j >= i
    <3>1. m <= n - i  BY <2>2
    <3>2. i \in 1 .. n /\ j \in 1 .. n  OBVIOUS
    <3> QED  BY <2>3, <3>1, <3>2
  <2> HIDE DEF I
  <2> QED  BY <2>4 DEF Max
<1>2. Topmost(S) = IF I = {} THEN NoWindow ELSE stack[Max(I)]  BY DEF Topmost
<1> QED  BY <1>1, <1>2

-----------------------------------------------------------------------------
(* The invariant *)

\* What the parts of the invariant are about.
LEMMA Frames ==
  ASSUME WindowInv
  PROVE  /\ UNCHANGED vis => VisLists'
         /\ UNCHANGED det => DetList'
         /\ UNCHANGED <<stack, freed, detaching, visible, vis, det, pc, quit>> => Places'
         /\ UNCHANGED <<visible, toFocus, focused>> => Focus'
         /\ UNCHANGED <<visible, vis, detaching, fade>> => FadeRight'
         /\ UNCHANGED <<visible, modal>> => ModalRight'
         /\ UNCHANGED <<visible, hiding, calling>> => Hiding'
         /\ UNCHANGED <<pc, calling, cur, visible>> => Calling'
         /\ UNCHANGED <<stack, detaching, visible, vis, pc, cur, calling>> => VisWalk'
         /\ UNCHANGED <<visible, det, pc, cur, calling, hid>> => UnmapWalk'
         /\ UNCHANGED <<stack, freed, visible, det, pc, cur, nxt, calling>> => FreeWalk'
         /\ UNCHANGED <<stack, freed, detaching, owner, subwins, det>> => OwnersRight'
<1> USE DEF WindowInv
<1>1. UNCHANGED vis => VisLists'  BY DEF VisLists, VisOK
<1>2. UNCHANGED det => DetList'  BY DEF DetList
<1>3. UNCHANGED <<stack, freed, detaching, visible, vis, det, pc, quit>> => Places'
  BY DEF Places, Sh, Hd, Dt, Attached
<1>4. UNCHANGED <<visible, toFocus, focused>> => Focus'  BY DEF Focus
<1>5. UNCHANGED <<visible, vis, detaching, fade>> => FadeRight'  BY DEF FadeRight, Sh, Hd
<1>6. UNCHANGED <<visible, modal>> => ModalRight'  BY DEF ModalRight, ModalMatches
<1>7. UNCHANGED <<pc, calling, cur, visible>> => Calling'  BY DEF Calling
<1>8. UNCHANGED <<stack, detaching, visible, vis, pc, cur, calling>> => VisWalk'
  BY DEF VisWalk, Walked, Pending, Attached, Forward
<1>9. UNCHANGED <<visible, det, pc, cur, calling, hid>> => UnmapWalk'
  BY DEF UnmapWalk, Dt, Dq
<1>10. UNCHANGED <<stack, freed, visible, det, pc, cur, nxt, calling>> => FreeWalk'
  BY DEF FreeWalk, Dt, Dq, Attached
<1>11. UNCHANGED <<stack, freed, detaching, owner, subwins, det>> => OwnersRight'
  BY DEF OwnersRight, Owned, Dq, Attached
<1>12. UNCHANGED <<visible, hiding, calling>> => Hiding'  BY DEF Hiding
<1> QED  BY <1>1, <1>2, <1>3, <1>4, <1>5, <1>6, <1>7, <1>8, <1>9, <1>10, <1>11, <1>12

\* The walk of a queue of windows to show or to hide begins.
LEMMA BeginVisWalk ==
  ASSUME WindowInv, NEW q \in {"show", "hide"}, pc' = q, Begins(q, vis, q),
         On(vis', q) = On(vis, q), vis'.next = vis.next,
         q = "show" => Sh \cap visible = {},
         UNCHANGED <<stack, visible, detaching>>
  PROVE  VisWalk' /\ cur' \in On(vis, q) \cup {NoWindow}
<1>1. Listed(vis, q) /\ On(vis, q) \subseteq Attached
  BY DEF WindowInv, VisLists, VisOK, Places, Sh, Hd
<1> PICK s \in Seq(Window) : s = Walk(vis, q) /\ NoRepeats(s)  BY <1>1 DEF Listed
<1>2. Entries(s) = On(vis, q)  BY DEF On
<1>3. /\ cur' = TailqFirst(s, NoWindow)
      /\ \A w \in Entries(s) : vis.next[w] = TailqNext(s, w, NoWindow)
  BY <1>1, <1>2, ListSteps DEF Begins
<1>4. cur' # NoWindow => cur' \in Entries(s)  BY <1>3, NoneBeforeFirst, NoWindowAssumption
<1>5. Forward(vis', s)
  <2> SUFFICES ASSUME NEW x \in Entries(s), vis'.next[x] # NoWindow
               PROVE  Before(s, x, vis'.next[x])
    BY DEF Forward
  <2>1. vis'.next[x] = TailqNext(s, x, NoWindow)  BY <1>3
  <2> QED  BY <2>1, NextIsAfter
<1>6. \A x \in Entries(s) : Pending(x)'
  <2>1. \A x \in Entries(s) : x \in On(vis', q) /\ (q = "show" => x \notin visible)
    BY <1>2 DEF Sh
  <2> QED  BY <2>1 DEF Pending
<1>7. \A x : Before(s, cur', x) => Pending(x)'  BY <1>6, BeforeIsOrder
<1>8. Walked(s)'  BY <1>1, <1>2, <1>4, <1>5, <1>6, <1>7 DEF Walked, Attached
<1>9. VisWalk'  BY <1>8 DEF VisWalk
<1> QED  BY <1>2, <1>4, <1>9

\* The walk of the detach queue begins.
LEMMA BeginDetachWalk ==
  ASSUME WindowInv, NEW p, Begins(p, det, "detach")
  PROVE  /\ cur' = NoWindow => Dt = {}
         /\ cur' # NoWindow => cur' \in Dt
         /\ \A x \in Dt : ~Before(Dq, x, cur')
<1>1. Listed(det, "detach")  BY DEF WindowInv, DetList
<1> PICK s \in Seq(Window) : s = Dq /\ NoRepeats(s)  BY <1>1 DEF Listed, Dq
<1>2. Entries(s) = Dt /\ cur' = TailqFirst(s, NoWindow)
  BY <1>1, ListSteps DEF Begins, Dt, On, Dq
<1>3. /\ cur' = NoWindow => Entries(s) = {}
      /\ cur' # NoWindow => cur' \in Entries(s)
      /\ cur' # NoWindow => \A x : ~Before(s, x, cur')
  BY <1>2, NoneBeforeFirst, NoWindowAssumption
<1> QED  BY <1>2, <1>3

\* And goes on.
LEMMA NextDetachWalk ==
  ASSUME WindowInv, NEW w \in Dt
  PROVE  LET x == det.next[w]
         IN  /\ x # NoWindow => x \in Dt
             /\ \A a \in Dt : x = NoWindow \/ Before(Dq, a, x) <=> a = w \/ Before(Dq, a, w)
<1>1. Listed(det, "detach")  BY DEF WindowInv, DetList
<1> PICK s \in Seq(Window) : s = Dq /\ NoRepeats(s)  BY <1>1 DEF Listed, Dq
<1>2. Entries(s) = Dt /\ det.next[w] = TailqNext(s, w, NoWindow)
  BY <1>1, ListSteps DEF Dt, On, Dq
<1> QED  BY <1>2, BeforeNext, NoWindowAssumption

\* The windows of the queues.
LEMMA QueuedWindows ==
  ASSUME WindowInv
  PROVE  Sh \cup Hd \cup Dt \cup Attached \cup visible \cup freed \cup detaching \subseteq Window
<1>1. Sh \cup Hd \cup Dt \subseteq Window
  BY ListSteps DEF WindowInv, VisLists, VisOK, DetList, Sh, Hd, Dt
<1>2. Attached \subseteq Window  BY EntriesType DEF WindowInv, WindowTypes, Attached
<1> QED  BY <1>1, <1>2 DEF WindowInv, Places, WindowTypes

\* OnShow, for a window that is not visible.
LEMMA ShownKeeps ==
  ASSUME WindowInv, NEW w \in Window \ visible, Shown(w)
  PROVE  visible' = visible \cup {w} /\ ModalRight'
<1>1. visible' = visible \cup {w} /\ modal' = IF w \in Modal THEN Append(modal, w) ELSE modal
  BY DEF Shown
<1>2. modal \in Seq(Window) /\ NoRepeats(modal) /\ Entries(modal) = visible \cap Modal
  BY DEF WindowInv, ModalRight, ModalMatches
<1>3. CASE w \in Modal
  <2>1. modal' = Append(modal, w) /\ w \in Window \ Entries(modal)  BY <1>1, <1>2, <1>3
  <2>2. modal' \in Seq(Window) /\ NoRepeats(modal') /\ Entries(modal') = Entries(modal) \cup {w}
    BY <1>2, <2>1, Stacked
  <2> QED  BY <1>1, <1>2, <1>3, <2>2 DEF ModalRight, ModalMatches
<1>4. CASE w \notin Modal  BY <1>1, <1>2, <1>4 DEF ModalRight, ModalMatches
<1> QED  BY <1>1, <1>3, <1>4

\* OnHide
LEMMA HiddenKeeps ==
  ASSUME WindowInv, NEW w \in Window, Hidden(w)
  PROVE  visible' = visible \ {w} /\ ModalRight' /\ Focus'
<1>1. /\ visible' = visible \ {w}
      /\ modal' = IF w \in Entries(modal) THEN TailqRemove(modal, w) ELSE modal
  BY DEF Hidden
<1>2. modal \in Seq(Window) /\ NoRepeats(modal) /\ Entries(modal) = visible \cap Modal
  BY DEF WindowInv, ModalRight, ModalMatches
<1>3. ModalRight'
  <2>1. CASE w \in Entries(modal)
    <3>1. modal' \in Seq(Window) /\ NoRepeats(modal') /\ Entries(modal') = Entries(modal) \ {w}
      BY <1>1, <1>2, <2>1, RemoveProperties
    <3> QED  BY <1>1, <1>2, <2>1, <3>1 DEF ModalRight, ModalMatches
  <2>2. CASE w \notin Entries(modal)  BY <1>1, <1>2, <2>2 DEF ModalRight, ModalMatches
  <2> QED  BY <2>1, <2>2
<1>4. Topmost(visible \ {w}) \in (visible \ {w}) \cup {NoWindow}
  BY TopmostOf DEF WindowInv
<1>5. Focus'  BY <1>1, <1>4 DEF Hidden, Focus, WindowInv
<1> QED  BY <1>1, <1>3, <1>5

\* The liberties that nobody takes.
LEMMA NoLiberties ==
  ASSUME WindowRules
  PROVE  \A r \in {"pending", "reshow", "closing", "again", "hidden", "onfocus", "late", "stale", "exit"} :
           r \notin Liberties
BY DEF WindowRules

-----------------------------------------------------------------------------
(* Calls *)

\* AG_WindowNew: the new window is on no queue.
LEMMA WindowNewKeeps ==
  ASSUME WindowInv, NEW th, NEW w \in Window, WindowNew(th, w)
  PROVE  WindowInv'
<1> USE DEF WindowInv
<1>1. /\ w \notin Attached \cup detaching
      /\ stack' = IF w \in KeepBelow THEN <<w>> \o stack ELSE Append(stack, w)
      /\ UNCHANGED <<freed, detaching, owner, subwins, visible, modal, fade, hiding, vis, det,
                     toFocus, focused, pc, cur, nxt, calling, hid, quit>>
  BY DEF WindowNew, showvars, linkvars, focusvars, walkvars
<1>2. stack' \in Seq(Window) /\ NoRepeats(stack') /\ Attached' = Attached \cup {w}
  <2>1. stack \in Seq(Window) /\ NoRepeats(stack) /\ w \in Window \ Entries(stack)
    BY <1>1 DEF WindowTypes, Attached
  <2>2. stack' \in Seq(Window) /\ NoRepeats(stack') /\ Entries(stack') = Entries(stack) \cup {w}
    BY <1>1, <2>1, Stacked
  <2> QED  BY <2>2 DEF Attached
<1>3. WindowTypes'  BY <1>1, <1>2 DEF WindowTypes
<1>4. Places'  BY <1>1, <1>2 DEF Places, Sh, Hd, Dt
<1>5. VisWalk'
  <2>1. \A s \in Seq(Window) : Walked(s) => Walked(s)'
    BY <1>1, <1>2 DEF Walked, Forward, Pending
  <2> QED  BY <1>1, <2>1 DEF VisWalk
<1>6. FreeWalk'
  <2>1. w \notin Dt /\ w # NoWindow  BY <1>1, NoWindowAssumption DEF Places
  <2> QED  BY <1>1, <1>2, <2>1 DEF FreeWalk, Dt, Dq
<1>7. OwnersRight'  BY <1>1, <1>2 DEF OwnersRight, Owned, Dq
<1> QED  BY <1>1, <1>3, <1>4, <1>5, <1>6, <1>7, Frames

\* A window comes to depend on another that stays.
LEMMA OwnsKeeps ==
  ASSUME WindowRules, WindowInv, NEW th, NEW o \in Window, NEW w \in Window,
         WindowAttach(th, o, w) \/ MakeTransient(th, o, w) \/ WindowPin(th, o, w)
  PROVE  WindowInv'
<1> USE DEF WindowInv
<1>1. /\ {o, w} \subseteq Attached /\ o \notin detaching /\ w \notin detaching
      /\ UNCHANGED <<stack, freed, detaching, visible, modal, fade, hiding, vis, det,
                     toFocus, focused, pc, cur, nxt, calling, hid, quit>>
  BY NoLiberties
  DEF WindowAttach, MakeTransient, WindowPin, MayOwn, Rule, showvars, linkvars, focusvars, walkvars
<1>2. /\ owner' \in [Window -> [parent : WindowOrNone, transientFor : WindowOrNone,
                                pinnedTo : WindowOrNone]]
      /\ \A x \in Window :
           /\ owner'[x].parent = owner[x].parent \/ (x = w /\ owner'[x].parent = o)
           /\ \/ owner'[x].transientFor = owner[x].transientFor
              \/ x = w /\ owner'[x].transientFor = o
           /\ owner'[x].pinnedTo = owner[x].pinnedTo \/ (x = w /\ owner'[x].pinnedTo = o)
  BY DEF WindowAttach, MakeTransient, WindowPin, WindowTypes, WindowOrNone
<1>3. subwins' \in [Window -> SUBSET Window]
      /\ \A x \in Window : subwins'[x] \subseteq subwins[x] \cup {w}
  <2>1. subwins \in [Window -> SUBSET Window]  BY DEF WindowTypes
  <2>2. \/ subwins' = subwins
        \/ subwins' = [x \in Window |-> IF x = o THEN subwins[x] \cup {w}
                        ELSE IF x = owner[w].parent THEN subwins[x] \ {w} ELSE subwins[x]]
    BY DEF WindowAttach, MakeTransient, WindowPin
  <2> QED  BY <2>1, <2>2
<1>4. WindowTypes'  BY <1>1, <1>2, <1>3 DEF WindowTypes
<1>5. OwnersRight'
  <2> SUFFICES ASSUME NEW x \in Window
               PROVE  /\ Owned(x, owner[x].parent)' /\ Owned(x, owner[x].transientFor)'
                      /\ owner'[x].pinnedTo \notin detaching' /\ subwins'[x] \cap detaching' = {}
                      /\ {owner'[x].parent, owner'[x].transientFor} # {NoWindow}
                         => x \in (Attached \cup detaching)'
    BY DEF OwnersRight
  <2>1. /\ Owned(x, owner[x].parent) /\ Owned(x, owner[x].transientFor)
        /\ owner[x].pinnedTo \notin detaching /\ subwins[x] \cap detaching = {}
        /\ {owner[x].parent, owner[x].transientFor} # {NoWindow} => x \in Attached \cup detaching
    BY DEF OwnersRight
  <2>2. Owned(x, owner[x].parent)'  BY <1>1, <1>2, <2>1 DEF Owned, Dq
  <2>3. Owned(x, owner[x].transientFor)'  BY <1>1, <1>2, <2>1 DEF Owned, Dq
  <2>4. owner'[x].pinnedTo \notin detaching'  BY <1>1, <1>2, <2>1
  <2>5. subwins'[x] \cap detaching' = {}  BY <1>1, <1>3, <2>1
  <2>6. {owner'[x].parent, owner'[x].transientFor} # {NoWindow} => x \in (Attached \cup detaching)'
    BY <1>1, <1>2, <2>1 DEF Attached
  <2> QED  BY <2>2, <2>3, <2>4, <2>5, <2>6
<1> QED  BY <1>1, <1>4, <1>5, Frames

\* A window is put on a queue of windows to show or to hide, by a thread that calls
\* from outside AG_WindowProcessQueued's walks of these.
LEMMA QueuedKeeps ==
  ASSUME WindowInv, NEW q \in {"show", "hide"},
         NEW w \in Attached \ (Sh \cup Hd),
         vis' = LinkInsertTail(vis, q, w, NoWindow),
         ~quit, pc \in {"events", "free"}, q = "show" => w \notin visible \cup detaching,
         pc = "free" => w \notin detaching,
         fade' \in [Window -> {"none", "in", "out"}],
         \A x \in Window : fade'[x] = "out" => fade[x] = "out" /\ x # w,
         UNCHANGED <<stack, freed, detaching, owner, subwins, visible, modal, hiding, det,
                     toFocus, focused, pc, cur, nxt, calling, hid, quit>>
  PROVE  WindowInv'
<1> USE DEF WindowInv
<1> PICK Q : Q = {"show", "hide"}  OBVIOUS
<1>0. w \in Window  BY QueuedWindows
<1>1. /\ vis \in LinksOf(Q, Window, NoWindow) /\ q \in Q /\ Listed(vis, q)
      /\ w \in Window \ On(vis, q)
      /\ \A p \in Q : Listed(vis, p) /\ w \notin On(vis, p)
      /\ \A p \in Q \ {q} : On(vis, p) \cap On(vis, q) = {}
  BY <1>0 DEF VisLists, VisOK, Sh, Hd
<1>2. /\ vis' \in LinksOf(Q, Window, NoWindow) /\ Listed(vis', q)
      /\ On(vis', q) = On(vis, q) \cup {w}
      /\ \A p \in Q \ {q} :
           Listed(vis, p) /\ w \notin On(vis, p) /\ On(vis, p) \cap On(vis, q) = {}
           => Listed(vis', p) /\ On(vis', p) = On(vis, p)
  BY <1>1, ListedInsert
<1>3. \A p \in Q \ {q} : Listed(vis', p) /\ On(vis', p) = On(vis, p)  BY <1>1, <1>2
<1>4. VisLists'  BY <1>1, <1>2, <1>3 DEF VisLists, VisOK
<1>5. /\ Sh' = IF q = "show" THEN Sh \cup {w} ELSE Sh
      /\ Hd' = IF q = "hide" THEN Hd \cup {w} ELSE Hd
  BY <1>2, <1>3 DEF Sh, Hd
<1>6. WindowTypes'  BY DEF WindowTypes
<1>7. Places'  BY <1>5 DEF Places, Dt, Attached
<1>8. FadeRight'  BY <1>5 DEF FadeRight
<1>9. VisWalk'  BY DEF VisWalk
<1> QED  BY <1>4, <1>6, <1>7, <1>8, <1>9, Frames

\* AG_WindowShow: w goes to the show queue, and its fade ends.
LEMMA WindowShowKeeps ==
  ASSUME WindowRules, WindowInv, NEW th \in {"main", "other"}, NEW w \in Window, WindowShow(th, w)
  PROVE  WindowInv'
<1> USE DEF WindowInv
<1>1. /\ w \in Attached \ visible /\ w \notin Entries(hiding) /\ w \notin Sh \cup Hd \cup detaching
      /\ pc \notin {"unmap", "free"} /\ ~quit
      /\ UNCHANGED <<stack, freed, detaching, owner, subwins, det, quit>>
  BY NoLiberties DEF WindowShow, MayCall, Rule, Settled, Sh, Hd, treevars
<1>2. CASE th = "other"
  <2>1. /\ pc = "events" /\ vis' = LinkInsertTail(vis, "show", w, NoWindow)
        /\ UNCHANGED <<visible, modal, fade, hiding, toFocus, focused, pc, cur, nxt, calling, hid>>
    BY <1>1, <1>2 DEF WindowShow, MayCall, showvars, focusvars, walkvars
  <2>2. fade' \in [Window -> {"none", "in", "out"}]  BY <2>1 DEF WindowTypes
  <2>3. \A x \in Window : fade'[x] = "out" => fade[x] = "out" /\ x # w
    BY <1>1, <2>1 DEF FadeRight
  <2> QED  BY <1>1, <2>1, <2>2, <2>3, QueuedKeeps
<1>3. CASE th = "main"
  <2>1. /\ pc = "events" \/ calling \in {"shown", "hidden", "gain", "freed", "lost"}
        /\ Shown(w) /\ Posts("shown", w)
        /\ IF calling = "no" THEN UNCHANGED <<toFocus, fade>> ELSE ShownEnd(w)
        /\ UNCHANGED <<hiding, vis, focused, pc, nxt, hid>>
    BY <1>3 DEF WindowShow, MayCall, Handlers
  <2>2. IF calling = "no" THEN calling' = "shown" /\ cur' = w ELSE UNCHANGED <<calling, cur>>
    BY <2>1 DEF Posts
  <2>3. visible' = visible \cup {w} /\ ModalRight'  BY <1>1, <2>1, ShownKeeps
  <2>4. /\ toFocus' \in {toFocus, w}
        /\ fade' \in [Window -> {"none", "in", "out"}]
        /\ \A x \in Window : fade'[x] = "out" => fade[x] = "out"
    BY <2>1 DEF ShownEnd, WindowTypes
  <2>5. WindowTypes'  BY <1>1, <2>1, <2>2, <2>4 DEF WindowTypes, WindowOrNone
  <2>6. Places'  BY <1>1, <2>1, <2>3 DEF Places, Sh, Hd, Dt, Attached
  <2>7. Focus'  BY <2>1, <2>3, <2>4 DEF Focus
  <2>8. FadeRight'  BY <1>1, <2>1, <2>3, <2>4 DEF FadeRight, Sh, Hd
  <2>9. w # NoWindow  BY NoWindowAssumption
  <2>10. Calling'  BY <1>1, <2>1, <2>2, <2>3, <2>9 DEF Calling
  <2>11. VisWalk'
    <3>1. CASE pc = "events"  BY <2>1, <3>1 DEF VisWalk
    <3>2. CASE pc # "events"
      <4>1. UNCHANGED <<calling, cur>> /\ calling # "no"  BY <2>1, <2>2, <3>2
      <4>2. \A x : Pending(x) => Pending(x)'  BY <1>1, <2>1, <2>3 DEF Pending, Sh
      <4>3. \A s \in Seq(Window) : Walked(s) => Walked(s)'
        BY <1>1, <2>1, <4>1, <4>2 DEF Walked, Forward, Attached
      <4> QED  BY <2>1, <4>3 DEF VisWalk
    <3> QED  BY <3>1, <3>2
  <2>12. UnmapWalk'  BY <1>1, <2>1 DEF UnmapWalk
  <2>13. FreeWalk'  BY <1>1, <2>1 DEF FreeWalk
  <2>14. Hiding'  BY <1>1, <2>1, <2>2, <2>3 DEF Hiding
  <2> QED  BY <1>1, <2>1, <2>3, <2>5, <2>6, <2>7, <2>8, <2>10, <2>11, <2>12, <2>13, <2>14, Frames
<1> QED  BY <1>2, <1>3

\* AG_WindowHide: w goes to the hide queue, at once or when it has faded out.
LEMMA WindowHideKeeps ==
  ASSUME WindowRules, WindowInv, NEW th \in {"main", "other"}, NEW w \in Window, WindowHide(th, w)
  PROVE  WindowInv'
<1> USE DEF WindowInv
<1>1. /\ w \in Attached \cap visible /\ w \notin Sh \cup Hd
      /\ calling \notin {"lost", "gain", "shown"} /\ ~quit
      /\ UNCHANGED <<stack, freed, detaching, owner, subwins, det, quit>>
  BY NoLiberties DEF WindowHide, MayCall, Rule, Settled, Sh, Hd, treevars
<1>2. CASE w \in Fade \ detaching
  <2>1. /\ fade' = [fade EXCEPT ![w] = "out"]
        /\ UNCHANGED <<vis, visible, modal, hiding, toFocus, focused, pc, cur, nxt, calling, hid>>
    BY <1>2 DEF WindowHide, focusvars, walkvars
  <2>2. WindowTypes'  BY <1>1, <2>1 DEF WindowTypes
  <2>3. FadeRight'  BY <1>1, <1>2, <2>1 DEF FadeRight, WindowTypes, Sh, Hd
  <2> QED  BY <1>1, <2>1, <2>2, <2>3, Frames
<1>3. CASE w \notin Fade \ detaching /\ th = "other"
  <2>1. /\ pc = "events" \/ pc = "free"
        /\ vis' = LinkInsertTail(vis, "hide", w, NoWindow)
        /\ UNCHANGED <<visible, modal, fade, hiding, toFocus, focused, pc, cur, nxt, calling, hid>>
    BY <1>1, <1>3 DEF WindowHide, MayCall, showvars, focusvars, walkvars
  <2>2. pc = "free" => w \notin detaching  BY <1>1, <2>1 DEF Places, FreeWalk
  <2>3. fade' \in [Window -> {"none", "in", "out"}]  BY <2>1 DEF WindowTypes
  <2>4. \A x \in Window : fade'[x] = "out" => fade[x] = "out" /\ x # w
    BY <1>3, <2>1 DEF FadeRight
  <2>5. w \in Attached \ (Sh \cup Hd)  BY <1>1
  <2>7. "hide" \in {"show", "hide"} /\ "hide" # "show"  OBVIOUS
  <2> QED  BY <1>1, <2>1, <2>2, <2>3, <2>4, <2>5, <2>7, QueuedKeeps
<1>4. CASE w \notin Fade \ detaching /\ th = "main"
  <2>1. /\ pc = "events" \/ calling \in {"hidden", "freed"}
        /\ Hidden(w) /\ Posts("hidden", w) /\ hiding' = Append(hiding, w)
        /\ UNCHANGED <<vis, fade, pc, nxt, hid>>
    BY <1>1, <1>4 DEF WindowHide, MayCall, Handlers
  <2>2. IF calling = "no" THEN calling' = "hidden" /\ cur' = w ELSE UNCHANGED <<calling, cur>>
    BY <2>1 DEF Posts
  <2>3. visible' = visible \ {w} /\ ModalRight' /\ Focus'  BY <2>1, HiddenKeeps
  <2>4. WindowTypes'
    <3>1. {toFocus', focused'} \subseteq WindowOrNone
      BY <2>3, QueuedWindows DEF Focus, WindowOrNone
    <3> QED  BY <1>1, <2>1, <2>2, <3>1 DEF WindowTypes, WindowOrNone
  <2>5. Places'  BY <1>1, <2>1, <2>3 DEF Places, Sh, Hd, Dt, Attached
  <2>6. FadeRight'
    <3>1. \A x \in Window : fade[x] = "out" => x # w  BY <1>4 DEF FadeRight
    <3> QED  BY <1>1, <2>1, <2>3, <3>1 DEF FadeRight, Sh, Hd
  <2>7. w # NoWindow  BY NoWindowAssumption
  <2>8. Calling'  BY <1>1, <2>1, <2>2, <2>3, <2>7 DEF Calling
  <2>9. VisWalk'
    <3>1. CASE pc = "events"  BY <2>1, <3>1 DEF VisWalk
    <3>2. CASE pc # "events"
      <4>1. UNCHANGED <<calling, cur>> /\ calling # "no"  BY <2>1, <2>2, <3>2
      <4>2. \A x : Pending(x) => Pending(x)'  BY <1>1, <2>1, <2>3 DEF Pending
      <4>3. \A s \in Seq(Window) : Walked(s) => Walked(s)'
        BY <1>1, <2>1, <4>1, <4>2 DEF Walked, Forward, Attached
      <4> QED  BY <2>1, <4>3 DEF VisWalk
    <3> QED  BY <3>1, <3>2
  <2>10. UnmapWalk'
    <3>1. pc = "unmap" => UNCHANGED <<calling, cur>>  BY <2>1, <2>2
    <3> QED  BY <1>1, <2>1, <2>3, <3>1 DEF UnmapWalk, Dt, Dq
  <2>11. FreeWalk'
    <3>1. pc = "free" => UNCHANGED <<calling, cur>>  BY <2>1, <2>2
    <3> QED  BY <1>1, <2>1, <2>3, <3>1 DEF FreeWalk, Dt, Dq, Attached
  <2>12. Hiding'
    <3>1. hiding \in Seq(Window) /\ Entries(hiding) \cap visible = {}  BY DEF Hiding
    <3>2. /\ hiding' \in Seq(Window) /\ Len(hiding') = Len(hiding) + 1
          /\ \A i \in 1 .. Len(hiding) + 1 :
               hiding'[i] = IF i = Len(hiding) + 1 THEN w ELSE hiding[i]
      BY <2>1, <3>1
    <3>3. Entries(hiding') \subseteq Entries(hiding) \cup {w}  BY <3>1, <3>2 DEF Entries
    <3>4. calling' # "no"  BY <2>2
    <3> QED  BY <2>3, <3>1, <3>2, <3>3, <3>4 DEF Hiding
  <2> QED  BY <1>1, <2>1, <2>3, <2>4, <2>5, <2>6, <2>8, <2>9, <2>10, <2>11, <2>12, Frames
<1> QED  BY <1>2, <1>3, <1>4

\* Detach, for windows that come after those that depend on them.
LEMMA DetachKeeps ==
  ASSUME WindowInv, NEW ds \in Seq(Window), NoRepeats(ds), Entries(ds) \cap detaching = {},
         Entries(ds) \subseteq Attached, Ordered(ds), DetachWindows(ds),
         pc # "free", pc = "unmap" => hid,
         UNCHANGED <<stack, freed, visible, modal, hiding, toFocus, focused, pc, cur, nxt, calling,
                     hid, quit>>
  PROVE  WindowInv'
<1> USE DEF WindowInv
<1> PICK E : E = Entries(ds)  OBVIOUS
<1>0. Dt \subseteq detaching /\ freed \subseteq detaching /\ E \subseteq Window /\ E \cap freed = {}
      /\ E \cap detaching = {} /\ E \subseteq Attached
  BY QueuedWindows DEF Places
<1>1. /\ detaching' = detaching \cup E
      /\ fade' = [x \in Window |-> IF x \in E THEN "none" ELSE fade[x]]
      /\ owner' = [x \in Window |-> IF owner[x].pinnedTo \in E
                                    THEN [owner[x] EXCEPT !.pinnedTo = NoWindow] ELSE owner[x]]
      /\ subwins' = [x \in Window |-> subwins[x] \ E]
      /\ det' = QueuedDetach(ds) /\ vis' = UnqueuedAll(ds)
  BY DEF DetachWindows
<1>2. /\ det' \in LinksOf({"detach"}, Window, NoWindow)
      /\ Listed(det', "detach") /\ Dt' = Dt \cup E
      /\ \A a, b : Before(Dq, a, b) \/ Before(ds, a, b) \/ (a \in Dt /\ b \in E)
                   => Before(Dq', a, b)
  <2>1. Entries(ds) \cap Dt = {}  BY <1>0
  <2>2. LET M == QueuedDetach(ds)
        IN  /\ M \in LinksOf({"detach"}, Window, NoWindow)
            /\ Listed(M, "detach") /\ On(M, "detach") = Dt \cup Entries(ds)
            /\ \A a, b : Before(Dq, a, b) \/ Before(ds, a, b) \/ (a \in Dt /\ b \in Entries(ds))
                         => Before(Walk(M, "detach"), a, b)
    BY <2>1, QueuedInOrder
  <2>3. Dt' = On(det', "detach") /\ Dq' = Walk(det', "detach")  BY DEF Dt, Dq
  <2> QED  BY <1>1, <2>2, <2>3
<1>3. /\ VisOK(vis') /\ Sh' = Sh \ E /\ Hd' = Hd \ E
      /\ \A s \in Seq(Window) : NoRepeats(s) /\ Forward(vis, s) => Forward(vis', s)
  <2>1. LET M == UnqueuedAll(ds)
        IN  /\ VisOK(M)
            /\ On(M, "show") = Sh \ Entries(ds) /\ On(M, "hide") = Hd \ Entries(ds)
            /\ \A s \in Seq(Window) : NoRepeats(s) /\ Forward(vis, s) => Forward(M, s)
    BY UnqueuedEach
  <2>2. Sh' = On(vis', "show") /\ Hd' = On(vis', "hide")  BY DEF Sh, Hd
  <2> QED  BY <1>1, <2>1, <2>2
<1>4. WindowTypes'
  <2>1. \A x \in Window :
          /\ owner[x] \in [parent : WindowOrNone, transientFor : WindowOrNone, pinnedTo : WindowOrNone]
          /\ [owner[x] EXCEPT !.pinnedTo = NoWindow]
             \in [parent : WindowOrNone, transientFor : WindowOrNone, pinnedTo : WindowOrNone]
    BY DEF WindowTypes, WindowOrNone
  <2>2. owner' \in [Window -> [parent : WindowOrNone, transientFor : WindowOrNone,
                               pinnedTo : WindowOrNone]]
    BY <1>1, <2>1
  <2>3. subwins' \in [Window -> SUBSET Window] /\ fade' \in [Window -> {"none", "in", "out"}]
    BY <1>1 DEF WindowTypes
  <2> QED  BY <1>0, <1>1, <2>2, <2>3 DEF WindowTypes
<1>5. VisLists' /\ DetList'  BY <1>2, <1>3 DEF VisLists, DetList, VisOK
<1>6. Places'  BY <1>0, <1>1, <1>2, <1>3 DEF Places, Attached
<1>7. FadeRight'  BY <1>1, <1>3 DEF FadeRight
<1>8. VisWalk'
  <2>1. pc \in {"show", "hide"} => \A x : Pending(x) => Pending(x)'
    BY <1>1, <1>3 DEF Pending, Sh, Hd
  <2>2. pc \in {"show", "hide"} => \A s \in Seq(Window) : Walked(s) => Walked(s)'
    BY <1>3, <2>1 DEF Walked, Attached
  <2> QED  BY <2>2 DEF VisWalk
<1>9. UnmapWalk'  BY <1>2 DEF UnmapWalk
<1>10. FreeWalk'  BY DEF FreeWalk
<1>11. OwnersRight'
  <2> SUFFICES ASSUME NEW x \in Window
               PROVE  /\ Owned(x, owner[x].parent)' /\ Owned(x, owner[x].transientFor)'
                      /\ owner'[x].pinnedTo \notin detaching' /\ subwins'[x] \cap detaching' = {}
                      /\ {owner'[x].parent, owner'[x].transientFor} # {NoWindow}
                         => x \in (Attached \cup detaching)'
    BY DEF OwnersRight
  <2>1. /\ Owned(x, owner[x].parent) /\ Owned(x, owner[x].transientFor)
        /\ owner[x].pinnedTo \notin detaching /\ subwins[x] \cap detaching = {}
        /\ {owner[x].parent, owner[x].transientFor} # {NoWindow} => x \in Attached \cup detaching
    BY DEF OwnersRight
  <2>2. owner'[x].parent = owner[x].parent /\ owner'[x].transientFor = owner[x].transientFor
        /\ owner'[x].pinnedTo = IF owner[x].pinnedTo \in E THEN NoWindow ELSE owner[x].pinnedTo
    <3>1. owner[x] \in [parent : WindowOrNone, transientFor : WindowOrNone, pinnedTo : WindowOrNone]
      BY DEF WindowTypes
    <3> QED  BY <1>1, <3>1
  <2>3. NoWindow \notin detaching \cup E  BY <1>0, NoWindowAssumption DEF WindowTypes
  <2>4. ASSUME NEW o \in {owner[x].parent, owner[x].transientFor}, Owned(x, o)
        PROVE  o # x /\ o \in detaching' =>
                 x \in detaching' /\ (x \in freed \/ (o \notin freed /\ Before(Dq', x, o)))
    <3>1. CASE o \in detaching  BY <1>1, <1>2, <2>4, <3>1 DEF Owned
    <3>2. CASE o \in E /\ o # x
      <4>1. x \in Attached \cup detaching /\ Depends(x, o) /\ o \notin freed
        BY <1>0, <2>1, <2>3, <3>2 DEF Depends
      <4>2. CASE x \in Attached
        <5>1. Before(ds, x, o)  BY <3>2, <4>1, <4>2 DEF Ordered
        <5>2. x \in E  BY <5>1, BeforeIsOrder
        <5> QED  BY <1>1, <1>2, <4>1, <5>1, <5>2
      <4>3. CASE x \in detaching
        <5>1. x \in Dt \/ x \in freed  BY <4>3 DEF Places
        <5> QED  BY <1>1, <1>2, <3>2, <4>1, <4>3, <5>1
      <4> QED  BY <4>1, <4>2, <4>3
    <3> QED  BY <1>1, <3>1, <3>2
  <2>5. Owned(x, owner[x].parent)' /\ Owned(x, owner[x].transientFor)'
    BY <2>1, <2>2, <2>4 DEF Owned
  <2>6. owner'[x].pinnedTo \notin detaching'  BY <1>1, <2>1, <2>2, <2>3
  <2>7. subwins'[x] \cap detaching' = {}  BY <1>1, <2>1
  <2>8. {owner'[x].parent, owner'[x].transientFor} # {NoWindow} => x \in (Attached \cup detaching)'
    BY <1>1, <2>1, <2>2 DEF Attached
  <2> QED  BY <2>5, <2>6, <2>7, <2>8
<1> QED  BY <1>4, <1>5, <1>6, <1>7, <1>8, <1>9, <1>10, <1>11, Frames

\* AG_ObjectDetach: w goes to the detach queue after the windows that depend on it.
LEMMA ObjectDetachKeeps ==
  ASSUME WindowRules, WindowInv, NEW th \in {"main", "other"}, NEW w \in Window, ObjectDetach(th, w)
  PROVE  WindowInv'
<1> PICK ds : ds = DetachOrder(w)  OBVIOUS
<1>1. /\ w \in Attached /\ NoRepeats(ds) /\ Entries(ds) \cap detaching = {} /\ DetachWindows(ds)
      /\ pc # "free"
      /\ UNCHANGED <<stack, freed, visible, modal, hiding, toFocus, focused, pc, cur, nxt, calling,
                     hid, quit>>
  BY NoLiberties DEF ObjectDetach, Rule, focusvars, walkvars
<1>2. pc = "unmap" => hid
  <2>1. pc = "unmap" => calling # "no"  BY DEF ObjectDetach, MayCall, Handlers
  <2> QED  BY <2>1 DEF WindowInv, UnmapWalk
<1>3. ds \in Seq(Window) /\ Entries(ds) \subseteq Attached /\ Ordered(ds)
  BY <1>1, DetachInOrder DEF WindowInv
<1> QED  BY <1>1, <1>2, <1>3, DetachKeeps

\* AG_DestroyGUI: every window goes to the detach queue.
LEMMA DestroyGUIKeeps ==
  ASSUME WindowRules, WindowInv, DestroyGUI
  PROVE  WindowInv'
<1>0. stack \in Seq(Window) /\ Attached \subseteq Window
  BY EntriesType DEF WindowInv, WindowTypes, Attached
<1> PICK f : f = [w \in Window |-> DetachOrder(w)]  OBVIOUS
<1> PICK ds : ds = Joined(stack, f)  OBVIOUS
<1>1. /\ NoRepeats(ds) /\ Entries(ds) \cap detaching = {} /\ DetachWindows(ds) /\ pc = "events"
      /\ UNCHANGED <<stack, freed, visible, modal, hiding, toFocus, focused, pc, cur, nxt, calling,
                     hid, quit>>
  BY NoLiberties DEF DestroyGUI, Rule, focusvars, walkvars
<1>2. /\ f \in [Window -> Seq(Window)]
      /\ \A w \in Attached : Entries(f[w]) \subseteq Attached
      /\ \A w \in Window : NoRepeats(f[w]) => Ordered(f[w])
  <2>1. \A w \in Window :
          /\ DetachOrder(w) \in Seq(Window) /\ Entries(DetachOrder(w)) \subseteq Attached \cup {w}
          /\ NoRepeats(DetachOrder(w)) => Ordered(DetachOrder(w))
    BY DetachInOrder DEF WindowInv
  <2> QED  BY <1>0, <2>1
<1>3. /\ ds \in Seq(Window)
      /\ \A a : a \in Entries(ds) <=> \E x \in Entries(stack) : a \in Entries(f[x])
      /\ \A x \in Entries(stack) : \A a, b : Before(f[x], a, b) => Before(ds, a, b)
  BY <1>0, <1>2, JoinedOrder
<1>4. Entries(ds) \subseteq Attached  BY <1>2, <1>3 DEF Attached
<1>5. Ordered(ds)
  <2>1. ~ \E a : Before(ds, a, a)  BY <1>1, <1>3, NoneBeforeItself
  <2>2. \A w \in Attached : ~ \E a : Before(f[w], a, a)  BY <1>3, <2>1 DEF Attached
  <2>3. \A w \in Attached : NoRepeats(f[w])
    <3> SUFFICES ASSUME NEW w \in Attached  PROVE NoRepeats(f[w])  OBVIOUS
    <3>1. f[w] \in Seq(Window)  BY <1>0, <1>2
    <3> QED  BY <2>2, <3>1, NoneBeforeItself
  <2> SUFFICES ASSUME NEW x \in Entries(ds), NEW y \in Attached, Depends(y, x)
               PROVE  Before(ds, y, x)
    BY DEF Ordered
  <2>4. PICK v \in Attached : x \in Entries(f[v])  BY <1>3 DEF Attached
  <2>5. Before(f[v], y, x)  BY <1>0, <1>2, <2>3, <2>4 DEF Ordered
  <2> QED  BY <1>3, <2>5 DEF Attached
<1>6. pc # "free" /\ (pc = "unmap" => hid)  BY <1>1
<1> QED  BY <1>1, <1>3, <1>4, <1>5, <1>6, DetachKeeps

\* The focus goes to a window that is visible, or nowhere.
LEMMA FocusKeeps ==
  ASSUME WindowInv, {toFocus', focused'} \subseteq visible \cup {NoWindow},
         UNCHANGED <<stack, freed, detaching, owner, subwins, visible, modal, fade, hiding, vis, det,
                     pc, cur, nxt, calling, hid, quit>>
  PROVE  WindowInv'
<1> USE DEF WindowInv
<1>1. Focus'  BY DEF Focus
<1>2. {toFocus', focused'} \subseteq WindowOrNone  BY QueuedWindows DEF WindowOrNone
<1>3. WindowTypes'  BY <1>2 DEF WindowTypes
<1> QED  BY <1>1, <1>3, Frames

\* Calls of the application and of the user, between two passes over the queues.
LEMMA EventsKeep ==
  ASSUME WindowRules, WindowInv, NEW w \in Window,
         \/ \E th \in {"main", "other"} : WindowFocus(th, w)
         \/ MouseButtonDown(w) \/ FocusIn(w) \/ FocusOut(w)
  PROVE  WindowInv'
<1>1. {toFocus, focused} \subseteq visible \cup {NoWindow}  BY DEF WindowInv, Focus
<1>2. {toFocus', focused'} \subseteq visible \cup {NoWindow}
  BY <1>1, NoLiberties DEF WindowFocus, MouseButtonDown, FocusIn, FocusOut, Rule
<1>3. UNCHANGED <<stack, freed, detaching, owner, subwins, visible, modal, fade, hiding, vis, det,
                  pc, cur, nxt, calling, hid, quit>>
  BY DEF WindowFocus, MouseButtonDown, FocusIn, FocusOut, treevars, showvars, linkvars, walkvars
<1> QED  BY <1>2, <1>3, FocusKeeps

\* AG_WindowFadeTimeout: a window that has faded out goes to the hide queue.
LEMMA FadeTimeoutKeeps ==
  ASSUME WindowInv, NEW w \in Window, FadeTimeout(w)
  PROVE  WindowInv'
<1> USE DEF WindowInv
<1>1. /\ pc = "events" /\ calling = "no" /\ ~quit
      /\ UNCHANGED <<stack, freed, detaching, owner, subwins, visible, modal, hiding, det,
                     toFocus, focused, pc, cur, nxt, calling, hid, quit>>
  BY DEF FadeTimeout, Idle, treevars, focusvars
<1>2. CASE fade' \in {fade, [fade EXCEPT ![w] = "none"]} /\ UNCHANGED vis
  <2>1. fade' \in [Window -> {"none", "in", "out"}]
        /\ \A x \in Window : fade'[x] = "out" => fade[x] = "out"
    BY <1>2 DEF WindowTypes
  <2>2. WindowTypes'  BY <1>1, <2>1 DEF WindowTypes
  <2>3. FadeRight'  BY <1>1, <1>2, <2>1 DEF FadeRight, Sh, Hd
  <2> QED  BY <1>1, <1>2, <2>2, <2>3, Frames
<1>3. CASE /\ fade[w] = "out" /\ fade' = [fade EXCEPT ![w] = "none"]
           /\ vis' = LinkInsertTail(vis, "hide", w, NoWindow)
  <2>1. w \in Attached \ (Sh \cup Hd)  BY <1>3 DEF FadeRight, Places
  <2>2. fade' \in [Window -> {"none", "in", "out"}]
        /\ \A x \in Window : fade'[x] = "out" => fade[x] = "out" /\ x # w
    BY <1>3 DEF WindowTypes
  <2>3. "hide" \in {"show", "hide"} /\ "hide" # "show" /\ pc # "free"  BY <1>1
  <2> QED  BY <1>1, <1>3, <2>1, <2>2, <2>3, QueuedKeeps
<1>4. fade[w] \in {"in", "out"}  BY DEF FadeTimeout, WindowTypes
<1> QED  BY <1>2, <1>3, <1>4 DEF FadeTimeout

-----------------------------------------------------------------------------
(* AG_WindowProcessQueued *)

\* AG_WindowProcessQueued: a pass begins with the focus, or with the show queue.
LEMMA ProcessQueuedKeeps ==
  ASSUME WindowInv, ProcessQueued
  PROVE  WindowInv'
<1> USE DEF WindowInv
<1>1. /\ pc = "events" /\ calling = "no"
      /\ UNCHANGED <<stack, freed, detaching, owner, subwins, visible, modal, fade, hiding, vis, det,
                     focused, nxt, hid, quit>>
  BY DEF ProcessQueued, treevars, showvars, linkvars
<1>2. CASE /\ toFocus # NoWindow /\ pc' = "focus" /\ cur' = toFocus
           /\ calling' = "lost" /\ UNCHANGED toFocus
  <2>1. cur' \in visible /\ cur' # NoWindow  BY <1>2 DEF Focus
  <2>2. WindowTypes'  BY <1>1, <1>2 DEF WindowTypes
  <2>3. Places'  BY <1>1, <1>2 DEF Places, Sh, Hd, Dt, Attached
  <2>4. Calling'  BY <1>1, <1>2, <2>1 DEF Calling
  <2>5. VisWalk' /\ UnmapWalk' /\ FreeWalk'
    BY <1>1, <1>2 DEF VisWalk, UnmapWalk, FreeWalk
  <2>6. Hiding'  BY <1>1, <1>2 DEF Hiding
  <2> QED  BY <1>1, <1>2, <2>2, <2>3, <2>4, <2>5, <2>6, Frames
<1>3. CASE Begins("show", vis, "show") /\ toFocus' = NoWindow /\ UNCHANGED calling
  <2>1. pc' = "show"  BY <1>3 DEF Begins
  <2>2. VisWalk' /\ cur' \in Sh \cup {NoWindow}
    <3>1. "show" \in {"show", "hide"} /\ Sh \cap visible = {}  BY <1>1 DEF Places
    <3>2. On(vis', "show") = On(vis, "show") /\ vis'.next = vis.next  BY <1>1
    <3>3. VisWalk' /\ cur' \in On(vis, "show") \cup {NoWindow}
      BY <1>1, <1>3, <2>1, <3>1, <3>2, BeginVisWalk
    <3> QED  BY <3>3 DEF Sh
  <2>3. cur' \in WindowOrNone  BY <2>2, QueuedWindows DEF WindowOrNone
  <2>4. WindowTypes'  BY <1>1, <1>3, <2>3 DEF WindowTypes, WindowOrNone
  <2>5. Places'  BY <1>1, <2>1 DEF Places, Sh, Hd, Dt, Attached
  <2>6. Focus'  BY <1>1, <1>3 DEF Focus
  <2>7. Calling'  BY <1>1, <1>3, <2>1 DEF Calling
  <2>8. UnmapWalk' /\ FreeWalk'  BY <1>1, <2>1 DEF UnmapWalk, FreeWalk
  <2> QED  BY <1>1, <1>3, <2>2, <2>4, <2>5, <2>6, <2>7, <2>8, Frames
<1> QED  BY <1>2, <1>3 DEF ProcessQueued

\* The focus handlers of the single window: the one that loses it, then the one that gains it.
LEMMA GainFocusKeeps ==
  ASSUME WindowInv, GainFocus
  PROVE  WindowInv'
<1> USE DEF WindowInv
<1>1. /\ pc = "focus" /\ cur \in visible /\ cur # NoWindow
      /\ focused' = cur /\ calling' = "gain"
      /\ stack' = IF cur \in KeepBelow THEN stack ELSE Append(TailqRemove(stack, cur), cur)
      /\ UNCHANGED <<freed, detaching, owner, subwins, visible, modal, fade, hiding, vis, det,
                     toFocus, pc, cur, nxt, hid, quit>>
  BY DEF GainFocus, Calling, showvars, linkvars
<1>2. stack' \in Seq(Window) /\ NoRepeats(stack') /\ Attached' = Attached
  <2>1. stack \in Seq(Window) /\ NoRepeats(stack) /\ cur \in Entries(stack)
    BY <1>1 DEF WindowTypes, Places, Attached
  <2> QED  BY <1>1, <2>1, RaisedWindow DEF Attached
<1>3. WindowTypes'  BY <1>1, <1>2 DEF WindowTypes
<1>4. Places'  BY <1>1, <1>2 DEF Places, Sh, Hd, Dt
<1>5. Focus'  BY <1>1 DEF Focus
<1>6. Calling'  BY <1>1 DEF Calling
<1>7. VisWalk' /\ UnmapWalk' /\ FreeWalk'  BY <1>1 DEF VisWalk, UnmapWalk, FreeWalk
<1>8. OwnersRight'  BY <1>1, <1>2 DEF OwnersRight, Owned, Dq
<1>9. Hiding'  BY <1>1 DEF Hiding
<1> QED  BY <1>1, <1>3, <1>4, <1>5, <1>6, <1>7, <1>8, <1>9, Frames

\* The focus has changed: the pass goes on with the show queue.
LEMMA FocusChangedKeeps ==
  ASSUME WindowInv, FocusChanged
  PROVE  WindowInv'
<1> USE DEF WindowInv
<1>1. /\ pc = "focus" /\ hiding = << >> /\ toFocus' = NoWindow /\ calling' = "no" /\ Begins("show", vis, "show")
      /\ UNCHANGED <<stack, freed, detaching, owner, subwins, visible, modal, fade, hiding, vis, det,
                     focused, nxt, hid, quit>>
  BY DEF FocusChanged, Calling, treevars, showvars, linkvars
<1>2. pc' = "show"  BY <1>1 DEF Begins
<1>3. VisWalk' /\ cur' \in Sh \cup {NoWindow}
  <2>1. "show" \in {"show", "hide"} /\ Sh \cap visible = {}  BY <1>1 DEF Places
  <2>2. On(vis', "show") = On(vis, "show") /\ vis'.next = vis.next  BY <1>1
  <2>3. VisWalk' /\ cur' \in On(vis, "show") \cup {NoWindow}
    BY <1>1, <1>2, <2>1, <2>2, BeginVisWalk
  <2> QED  BY <2>3 DEF Sh
<1>4. cur' \in WindowOrNone  BY <1>3, QueuedWindows DEF WindowOrNone
<1>5. WindowTypes'  BY <1>1, <1>4 DEF WindowTypes, WindowOrNone
<1>6. Places'  BY <1>1, <1>2 DEF Places, Sh, Hd, Dt, Attached
<1>7. Focus'  BY <1>1 DEF Focus
<1>8. Calling'  BY <1>1, <1>2 DEF Calling
<1>9. UnmapWalk' /\ FreeWalk'  BY <1>1, <1>2 DEF UnmapWalk, FreeWalk
<1>10. Hiding'  BY <1>1 DEF Hiding
<1> QED  BY <1>1, <1>3, <1>5, <1>6, <1>7, <1>8, <1>9, <1>10, Frames

\* AG_WindowProcessShowQueue: one window is made visible and told so.
LEMMA ShowEntryKeeps ==
  ASSUME WindowInv, ShowEntry
  PROVE  WindowInv'
<1> USE DEF WindowInv
<1>1. /\ pc = "show" /\ calling = "no" /\ cur # NoWindow /\ Shown(cur) /\ calling' = "shown"
      /\ UNCHANGED <<stack, freed, detaching, owner, subwins, fade, hiding, vis, det,
                     toFocus, focused, pc, cur, nxt, hid, quit>>
  BY DEF ShowEntry, treevars, linkvars, focusvars
<1>2. PICK s \in Seq(Window) : Walked(s)  BY <1>1 DEF VisWalk
<1>3. cur \in Attached \ visible  BY <1>1, <1>2 DEF Walked, Pending
<1>4. cur \in Window \ visible  BY <1>3, QueuedWindows
<1>5. visible' = visible \cup {cur} /\ ModalRight'  BY <1>1, <1>4, ShownKeeps
<1>6. WindowTypes'  BY <1>1 DEF WindowTypes
<1>7. Places'  BY <1>1, <1>3, <1>5 DEF Places, Sh, Hd, Dt, Attached
<1>8. Focus'  BY <1>1, <1>5 DEF Focus
<1>9. FadeRight'  BY <1>1, <1>5 DEF FadeRight, Sh, Hd
<1>10. Calling'  BY <1>1, <1>5 DEF Calling
<1>11. VisWalk'
  <2>1. \A x : Pending(x) /\ x # cur => Pending(x)'  BY <1>1, <1>5 DEF Pending
  <2>2. \A x \in Window : Before(s, cur, x) => Pending(x)'
    BY <1>2, <2>1, BeforeIsOrder DEF Walked
  <2>3. Walked(s)'  BY <1>1, <1>2, <2>2 DEF Walked, Forward, Attached
  <2> QED  BY <2>3 DEF VisWalk
<1>12. UnmapWalk' /\ FreeWalk'  BY <1>1 DEF UnmapWalk, FreeWalk
<1>13. Hiding'
  <2>1. hiding' \in Seq(Window) /\ hiding' = << >> /\ Entries(hiding') = {}
    BY <1>1, EmptySeq DEF Hiding, Entries
  <2> QED  BY <2>1 DEF Hiding
<1> QED  BY <1>1, <1>5, <1>6, <1>7, <1>8, <1>9, <1>10, <1>11, <1>12, <1>13, Frames

\* A queue of windows to show or to hide is emptied.
LEMMA VisEmptied ==
  ASSUME WindowInv, NEW q \in {"show", "hide"}, vis' = LinkInit(vis, q, NoWindow)
  PROVE  /\ VisLists' /\ vis'.next = vis.next /\ On(vis', q) = {}
         /\ \A p \in {"show", "hide"} \ {q} :
              On(vis', p) = On(vis, p) /\ vis'.first[p] = vis.first[p]
<1> PICK Q : Q = {"show", "hide"}  OBVIOUS
<1>0. /\ vis \in LinksOf(Q, Window, NoWindow) /\ q \in Q /\ \A p \in Q : Listed(vis, p)
  BY DEF WindowInv, VisLists, VisOK
<1>1. /\ vis' \in LinksOf(Q, Window, NoWindow) /\ vis'.next = vis.next
      /\ Listed(vis', q) /\ On(vis', q) = {}
      /\ \A p \in Q \ {q} : /\ Listed(vis, p) => Listed(vis', p) /\ On(vis', p) = On(vis, p)
                            /\ vis'.first[p] = vis.first[p]
  BY <1>0, ListedInit
<1>2. VisLists'  BY <1>0, <1>1 DEF VisLists, VisOK
<1> QED  BY <1>0, <1>1, <1>2

\* The show queue is emptied, and the pass goes on with the hide queue.
LEMMA ShowEndKeeps ==
  ASSUME WindowInv, ShowEnd
  PROVE  WindowInv'
<1> USE DEF WindowInv
<1>1. /\ pc = "show" /\ calling = "no"
      /\ vis' = LinkInit(vis, "show", NoWindow) /\ Begins("hide", vis, "hide")
      /\ UNCHANGED <<stack, freed, detaching, owner, subwins, visible, modal, fade, hiding, det,
                     toFocus, focused, nxt, calling, hid, quit>>
  BY DEF ShowEnd, treevars, showvars, focusvars
<1>2. pc' = "hide"  BY <1>1 DEF Begins
<1>3. VisLists' /\ vis'.next = vis.next /\ Sh' = {} /\ On(vis', "hide") = On(vis, "hide")
  <2>1. "show" \in {"show", "hide"} /\ "hide" \in {"show", "hide"} \ {"show"}  OBVIOUS
  <2> QED  BY <1>1, <2>1, VisEmptied DEF Sh
<1>4. VisWalk' /\ cur' \in Hd \cup {NoWindow}
  <2>1. "hide" \in {"show", "hide"} /\ "hide" # "show"  OBVIOUS
  <2>2. VisWalk' /\ cur' \in On(vis, "hide") \cup {NoWindow}
    BY <1>1, <1>2, <1>3, <2>1, BeginVisWalk
  <2> QED  BY <2>2 DEF Hd
<1>5. cur' \in WindowOrNone  BY <1>4, QueuedWindows DEF WindowOrNone
<1>6. WindowTypes'  BY <1>1, <1>5 DEF WindowTypes
<1>7. Hd' = Hd  BY <1>3 DEF Hd
<1>8. Places'  BY <1>1, <1>2, <1>3, <1>7 DEF Places, Dt, Attached
<1>9. FadeRight'  BY <1>1, <1>3, <1>7 DEF FadeRight
<1>10. Calling'  BY <1>1, <1>2 DEF Calling
<1>11. UnmapWalk' /\ FreeWalk'  BY <1>1, <1>2 DEF UnmapWalk, FreeWalk
<1> QED  BY <1>1, <1>3, <1>4, <1>6, <1>8, <1>9, <1>10, <1>11, Frames

\* AG_WindowProcessHideQueue: one window is made invisible and told so.
LEMMA HideEntryKeeps ==
  ASSUME WindowInv, HideEntry
  PROVE  WindowInv'
<1> USE DEF WindowInv
<1>1. /\ pc = "hide" /\ calling = "no" /\ cur # NoWindow /\ Hidden(cur) /\ calling' = "hidden"
      /\ UNCHANGED <<stack, freed, detaching, owner, subwins, fade, hiding, vis, det,
                     pc, cur, nxt, hid, quit>>
  BY DEF HideEntry, treevars, linkvars
<1>2. PICK s \in Seq(Window) : Walked(s)  BY <1>1 DEF VisWalk
<1>3. cur \in Attached /\ cur \in Hd \cup detaching  BY <1>1, <1>2 DEF Walked, Pending, Hd
<1>4. cur \in Window  BY <1>3, QueuedWindows
<1>5. visible' = visible \ {cur} /\ ModalRight' /\ Focus'  BY <1>1, <1>4, HiddenKeeps
<1>6. {toFocus', focused'} \subseteq WindowOrNone
  BY <1>5, QueuedWindows DEF Focus, WindowOrNone
<1>7. WindowTypes'  BY <1>1, <1>6 DEF WindowTypes
<1>8. Places'  BY <1>1, <1>5 DEF Places, Sh, Hd, Dt, Attached
<1>9. FadeRight'
  <2>1. \A x \in Window : fade[x] = "out" => x # cur  BY <1>3 DEF FadeRight
  <2> QED  BY <1>1, <1>5, <2>1 DEF FadeRight, Sh, Hd
<1>10. Calling'  BY <1>1 DEF Calling
<1>11. VisWalk'
  <2>1. \A x : Pending(x) => Pending(x)'  BY <1>1 DEF Pending
  <2>2. Walked(s)'  BY <1>1, <1>2, <2>1 DEF Walked, Forward, Attached
  <2> QED  BY <2>2 DEF VisWalk
<1>12. UnmapWalk' /\ FreeWalk'  BY <1>1 DEF UnmapWalk, FreeWalk
<1>13. Hiding'  BY <1>1, <1>5 DEF Hiding
<1> QED  BY <1>1, <1>5, <1>7, <1>8, <1>9, <1>10, <1>11, <1>12, <1>13, Frames

\* The hide queue is emptied, and the pass goes on with the detach queue.
LEMMA HideEndKeeps ==
  ASSUME WindowInv, HideEnd
  PROVE  WindowInv'
<1> USE DEF WindowInv
<1>1. /\ pc = "hide" /\ calling = "no"
      /\ vis' = LinkInit(vis, "hide", NoWindow) /\ Begins("unmap", det, "detach")
      /\ UNCHANGED <<stack, freed, detaching, owner, subwins, visible, modal, fade, hiding, det,
                     toFocus, focused, nxt, calling, hid, quit>>
  BY DEF HideEnd, treevars, showvars, focusvars
<1>2. pc' = "unmap"  BY <1>1 DEF Begins
<1>3. VisLists' /\ Hd' = {} /\ Sh' = Sh
  <2>1. "hide" \in {"show", "hide"} /\ "show" \in {"show", "hide"} \ {"hide"}  OBVIOUS
  <2> QED  BY <1>1, <2>1, VisEmptied DEF Sh, Hd
<1>4. /\ cur' = NoWindow => Dt = {}
      /\ cur' # NoWindow => cur' \in Dt
      /\ \A x \in Dt : ~Before(Dq, x, cur')
  BY <1>1, BeginDetachWalk
<1>5. cur' \in WindowOrNone  BY <1>4, QueuedWindows DEF WindowOrNone
<1>6. WindowTypes'  BY <1>1, <1>5 DEF WindowTypes
<1>7. Places'  BY <1>1, <1>2, <1>3 DEF Places, Dt, Attached
<1>8. FadeRight'  BY <1>1, <1>3 DEF FadeRight
<1>9. Calling'  BY <1>1, <1>2 DEF Calling
<1>10. UnmapWalk'  BY <1>1, <1>2, <1>4 DEF UnmapWalk, Dt, Dq
<1>11. VisWalk' /\ FreeWalk'  BY <1>2 DEF VisWalk, FreeWalk
<1> QED  BY <1>1, <1>3, <1>6, <1>7, <1>8, <1>9, <1>10, <1>11, Frames

\* AG_WindowProcessDetachQueue: a window that is not visible is passed over.
LEMMA UnmapSkipKeeps ==
  ASSUME WindowInv, UnmapSkip
  PROVE  WindowInv'
<1> USE DEF WindowInv
<1>1. /\ pc = "unmap" /\ calling = "no" /\ cur # NoWindow /\ cur \notin visible
      /\ cur' = det.next[cur]
      /\ UNCHANGED <<stack, freed, detaching, owner, subwins, visible, modal, fade, hiding, vis, det,
                     toFocus, focused, pc, nxt, calling, hid, quit>>
  BY DEF UnmapSkip, treevars, showvars, linkvars, focusvars
<1>2. cur \in Dt  BY <1>1 DEF UnmapWalk
<1>3. /\ cur' # NoWindow => cur' \in Dt
      /\ \A a \in Dt : cur' = NoWindow \/ Before(Dq, a, cur') <=> a = cur \/ Before(Dq, a, cur)
  BY <1>1, <1>2, NextDetachWalk
<1>4. cur' \in WindowOrNone  BY <1>3, QueuedWindows DEF WindowOrNone
<1>5. WindowTypes'  BY <1>1, <1>4 DEF WindowTypes
<1>6. Calling'  BY <1>1 DEF Calling
<1>7. UnmapWalk'
  <2>1. ~hid => \A x \in Dt : x = cur \/ Before(Dq, x, cur) => x \notin visible
    BY <1>1 DEF UnmapWalk
  <2>2. ~hid => \A x \in Dt : cur' = NoWindow \/ Before(Dq, x, cur') => x \notin visible
    BY <1>3, <2>1
  <2>3. Dt' = Dt /\ Dq' = Dq  BY <1>1 DEF Dt, Dq
  <2> QED  BY <1>1, <1>3, <2>2, <2>3 DEF UnmapWalk
<1>8. VisWalk' /\ FreeWalk'  BY <1>1 DEF VisWalk, FreeWalk
<1> QED  BY <1>1, <1>5, <1>6, <1>7, <1>8, Frames

\* A visible window of the detach queue is made invisible and told so.
LEMMA UnmapEntryKeeps ==
  ASSUME WindowInv, UnmapEntry
  PROVE  WindowInv'
<1> USE DEF WindowInv
<1>1. /\ pc = "unmap" /\ calling = "no" /\ cur \in visible /\ Hidden(cur)
      /\ hid' = TRUE /\ calling' = "hidden"
      /\ UNCHANGED <<stack, freed, detaching, owner, subwins, fade, hiding, vis, det,
                     pc, cur, nxt, quit>>
  BY DEF UnmapEntry, treevars, linkvars
<1>2. cur \in Window /\ cur # NoWindow  BY <1>1, QueuedWindows, NoWindowAssumption
<1>3. cur \in Dt /\ cur \in detaching  BY <1>1, <1>2 DEF UnmapWalk, Places
<1>4. visible' = visible \ {cur} /\ ModalRight' /\ Focus'  BY <1>1, <1>2, HiddenKeeps
<1>5. {toFocus', focused'} \subseteq WindowOrNone
  BY <1>4, QueuedWindows DEF Focus, WindowOrNone
<1>6. WindowTypes'  BY <1>1, <1>5 DEF WindowTypes
<1>7. Places'  BY <1>1, <1>4 DEF Places, Sh, Hd, Dt, Attached
<1>8. FadeRight'
  <2>1. \A x \in Window : fade[x] = "out" => x # cur  BY <1>3 DEF FadeRight
  <2> QED  BY <1>1, <1>4, <2>1 DEF FadeRight, Sh, Hd
<1>9. Calling'  BY <1>1, <1>2 DEF Calling
<1>10. UnmapWalk'  BY <1>1, <1>3 DEF UnmapWalk, Dt
<1>11. VisWalk' /\ FreeWalk'  BY <1>1 DEF VisWalk, FreeWalk
<1>12. Hiding'  BY <1>1, <1>4 DEF Hiding
<1> QED  BY <1>1, <1>4, <1>6, <1>7, <1>8, <1>9, <1>10, <1>11, <1>12, Frames

\* No window of the detach queue is visible any more: the second walk begins.
LEMMA UnmapEndKeeps ==
  ASSUME WindowInv, UnmapEnd
  PROVE  WindowInv'
<1> USE DEF WindowInv
<1>1. /\ pc = "unmap" /\ calling = "no" /\ cur = NoWindow /\ hid' = FALSE
      /\ IF hid THEN pc' = "events" /\ UNCHANGED cur ELSE Begins("free", det, "detach")
      /\ UNCHANGED <<stack, freed, detaching, owner, subwins, visible, modal, fade, hiding, vis, det,
                     toFocus, focused, nxt, calling, quit>>
  BY DEF UnmapEnd, treevars, showvars, linkvars, focusvars
<1>2. CASE hid
  <2>1. WindowTypes'  BY <1>1, <1>2 DEF WindowTypes
  <2>2. Places'  BY <1>1, <1>2 DEF Places, Sh, Hd, Dt, Attached
  <2>3. Calling'  BY <1>1, <1>2 DEF Calling
  <2>4. VisWalk' /\ UnmapWalk' /\ FreeWalk'  BY <1>1, <1>2 DEF VisWalk, UnmapWalk, FreeWalk
  <2> QED  BY <1>1, <2>1, <2>2, <2>3, <2>4, Frames
<1>3. CASE ~hid
  <2>1. pc' = "free" /\ Begins("free", det, "detach")  BY <1>1, <1>3 DEF Begins
  <2>2. /\ cur' = NoWindow => Dt = {}
        /\ cur' # NoWindow => cur' \in Dt
        /\ \A x \in Dt : ~Before(Dq, x, cur')
    BY <2>1, BeginDetachWalk
  <2>3. Dt' = Dt /\ Dq' = Dq  BY <1>1 DEF Dt, Dq
  <2>4. cur' \in WindowOrNone  BY <2>2, QueuedWindows DEF WindowOrNone
  <2>5. WindowTypes'  BY <1>1, <2>4 DEF WindowTypes
  <2>6. Places'  BY <1>1, <2>1 DEF Places, Sh, Hd, Dt, Attached
  <2>7. Calling'  BY <1>1, <2>1 DEF Calling
  <2>8. FreeWalk'
    <3>1. Dt \cap visible = {}  BY <1>1, <1>3 DEF UnmapWalk
    <3>2. Dt \cap freed = {}  BY <1>1 DEF Places
    <3> QED  BY <1>1, <2>1, <2>2, <2>3, <3>1, <3>2 DEF FreeWalk
  <2>9. VisWalk' /\ UnmapWalk'  BY <1>1, <2>1 DEF VisWalk, UnmapWalk
  <2> QED  BY <1>1, <2>5, <2>6, <2>7, <2>8, <2>9, Frames
<1> QED  BY <1>2, <1>3

\* A window is detached from its driver, and its next entry is remembered.
LEMMA FreeEntryKeeps ==
  ASSUME WindowInv, FreeEntry
  PROVE  WindowInv'
<1> USE DEF WindowInv
<1>1. /\ pc = "free" /\ calling = "no" /\ cur # NoWindow
      /\ nxt' = det.next[cur] /\ calling' = "freed"
      /\ stack' = IF cur \in Attached THEN TailqRemove(stack, cur) ELSE stack
      /\ UNCHANGED <<freed, detaching, owner, subwins, visible, modal, fade, hiding, vis, det,
                     toFocus, focused, pc, cur, hid, quit>>
  BY DEF FreeEntry, showvars, linkvars, focusvars
<1>2. cur \in Dt /\ cur \in detaching  BY <1>1 DEF FreeWalk, Places
<1>3. stack' \in Seq(Window) /\ NoRepeats(stack') /\ Attached' = Attached \ {cur}
  <2>1. stack \in Seq(Window) /\ NoRepeats(stack)  BY DEF WindowTypes
  <2>2. CASE cur \in Attached
    <3>1. cur \in Entries(stack) /\ stack' = TailqRemove(stack, cur)  BY <1>1, <2>2 DEF Attached
    <3> QED  BY <2>1, <3>1, RemoveProperties DEF Attached
  <2>3. CASE cur \notin Attached
    <3>1. stack' = stack  BY <1>1, <2>3
    <3> QED  BY <2>1, <2>3, <3>1 DEF Attached
  <2> QED  BY <2>2, <2>3
<1>4. nxt' \in WindowOrNone
  <2>1. nxt' # NoWindow => nxt' \in Dt  BY <1>1, <1>2, NextDetachWalk
  <2> QED  BY <2>1, QueuedWindows DEF WindowOrNone
<1>5. WindowTypes'  BY <1>1, <1>3, <1>4 DEF WindowTypes
<1>6. cur \notin Sh \cup Hd \cup visible  BY <1>1, <1>2 DEF Places, FreeWalk
<1>7. Sh' = Sh /\ Hd' = Hd /\ Dt' = Dt /\ Dq' = Dq  BY <1>1 DEF Sh, Hd, Dt, Dq
<1>8. Places'  BY <1>1, <1>3, <1>6, <1>7 DEF Places
<1>9. Calling'  BY <1>1 DEF Calling
<1>10. FreeWalk'  BY <1>1, <1>2, <1>3, <1>7 DEF FreeWalk
<1>11. OwnersRight'  BY <1>1, <1>2, <1>3, <1>7 DEF OwnersRight, Owned
<1>12. VisWalk' /\ UnmapWalk'  BY <1>1 DEF VisWalk, UnmapWalk
<1>13. Hiding'  BY <1>1 DEF Hiding
<1> QED  BY <1>1, <1>5, <1>8, <1>9, <1>10, <1>11, <1>12, <1>13, Frames

\* A window is destroyed: no window that stays refers to it.
LEMMA FreeDoneKeeps ==
  ASSUME WindowInv, FreeDone
  PROVE  WindowInv'
<1> USE DEF WindowInv
<1>1. /\ pc = "free" /\ calling = "freed" /\ cur # NoWindow /\ hiding = << >>
      /\ freed' = freed \cup {cur} /\ cur' = nxt /\ nxt' = NoWindow /\ calling' = "no"
      /\ UNCHANGED <<stack, detaching, owner, subwins, visible, modal, fade, hiding, vis, det,
                     toFocus, focused, pc, hid, quit>>
  BY DEF FreeDone, Calling, showvars, linkvars, focusvars
<1>2. cur \in Dt /\ cur \in Window /\ cur \in detaching /\ cur \notin Attached
      /\ nxt = det.next[cur]
  BY <1>1, QueuedWindows DEF FreeWalk, Places
<1>3. /\ cur' # NoWindow => cur' \in Dt
      /\ \A a \in Dt : cur' = NoWindow \/ Before(Dq, a, cur') <=> a = cur \/ Before(Dq, a, cur)
  BY <1>1, <1>2, NextDetachWalk
<1>4. \A x \in Dt : x \in freed <=> Before(Dq, x, cur)  BY <1>1 DEF FreeWalk
<1>5. Sh' = Sh /\ Hd' = Hd /\ Dt' = Dt /\ Dq' = Dq /\ Attached' = Attached
  BY <1>1 DEF Sh, Hd, Dt, Dq, Attached
<1>6. WindowTypes'
  <2>1. cur' \in WindowOrNone  BY <1>1 DEF WindowTypes
  <2> QED  BY <1>1, <1>2, <2>1 DEF WindowTypes, WindowOrNone
<1>7. Places'  BY <1>1, <1>2, <1>5 DEF Places
<1>8. Calling'  BY <1>1 DEF Calling
<1>9. FreeWalk'
  <2>1. \A x \in Dt : x \in freed' <=> cur' = NoWindow \/ Before(Dq, x, cur')
    BY <1>1, <1>3, <1>4
  <2>2. Dt \cap visible = {}  BY <1>1 DEF FreeWalk
  <2> QED  BY <1>1, <1>3, <1>5, <2>1, <2>2 DEF FreeWalk
<1>10. OwnersRight'
  <2>1. ASSUME NEW w \in Window, NEW o, Owned(w, o)
        PROVE  o # w /\ o \in detaching =>
                 w \in detaching /\ (w \in freed' \/ (o \notin freed' /\ Before(Dq, w, o)))
    <3> SUFFICES ASSUME o # w, o \in detaching, w \notin freed'
                 PROVE  w \in detaching /\ o \notin freed' /\ Before(Dq, w, o)
      BY <2>1 DEF Owned
    <3>1. w \in detaching /\ o \notin freed /\ Before(Dq, w, o)  BY <1>1, <2>1 DEF Owned
    <3>2. w \in Dt  BY <1>1, <3>1 DEF Places
    <3>3. o # cur  BY <1>1, <1>4, <3>1, <3>2
    <3> QED  BY <1>1, <3>1, <3>3
  <2>2. \A w \in Window : Owned(w, owner[w].parent) /\ Owned(w, owner[w].transientFor)
    BY DEF OwnersRight
  <2>3. \A w \in Window : Owned(w, owner[w].parent)' /\ Owned(w, owner[w].transientFor)'
    BY <1>1, <1>5, <2>1, <2>2 DEF Owned
  <2> QED  BY <1>1, <1>5, <2>3 DEF OwnersRight
<1>11. VisWalk' /\ UnmapWalk'  BY <1>1 DEF VisWalk, UnmapWalk
<1>12. Hiding'  BY <1>1 DEF Hiding
<1> QED  BY <1>1, <1>6, <1>7, <1>8, <1>9, <1>10, <1>11, <1>12, Frames

\* The detach queue is emptied, and the pass ends.
LEMMA FreeEndKeeps ==
  ASSUME WindowInv, FreeEnd
  PROVE  WindowInv'
<1> USE DEF WindowInv
<1>1. /\ pc = "free" /\ calling = "no" /\ cur = NoWindow /\ pc' = "events"
      /\ det' = LinkInit(det, "detach", NoWindow) /\ quit' \in BOOLEAN
      /\ UNCHANGED <<stack, freed, detaching, owner, subwins, visible, modal, fade, hiding, vis,
                     toFocus, focused, cur, nxt, calling, hid>>
  BY DEF FreeEnd, WindowTypes, treevars, showvars, focusvars
<1>2. Dt \subseteq freed  BY <1>1 DEF FreeWalk
<1>3. DetList' /\ Dt' = {}
  <2> PICK Q : Q = {"detach"} /\ "detach" \in Q  OBVIOUS
  <2>1. det \in LinksOf(Q, Window, NoWindow)  BY DEF DetList
  <2>2. /\ det' \in LinksOf(Q, Window, NoWindow)
        /\ Listed(det', "detach") /\ On(det', "detach") = {}
    BY <1>1, <2>1, ListedInit
  <2> QED  BY <2>2 DEF DetList, Dt
<1>4. Sh' = Sh /\ Hd' = Hd /\ Attached' = Attached  BY <1>1 DEF Sh, Hd, Attached
<1>5. WindowTypes'  BY <1>1 DEF WindowTypes
<1>6. Places'  BY <1>1, <1>2, <1>3, <1>4 DEF Places
<1>7. Calling'  BY <1>1 DEF Calling
<1>8. OwnersRight'
  <2>1. detaching = freed  BY <1>2 DEF Places
  <2> QED  BY <1>1, <1>4, <2>1 DEF OwnersRight, Owned
<1>9. VisWalk' /\ UnmapWalk' /\ FreeWalk'  BY <1>1 DEF VisWalk, UnmapWalk, FreeWalk
<1> QED  BY <1>1, <1>3, <1>5, <1>6, <1>7, <1>8, <1>9, Frames

\* The loop has ended: what is left on the detach queue is destroyed.
LEMMA DestroyQueuedKeeps ==
  ASSUME WindowInv, DestroyQueued
  PROVE  WindowInv'
<1> USE DEF WindowInv
<1>1. /\ pc = "events" /\ calling = "no" /\ quit /\ Begins("unmap", det, "detach")
      /\ UNCHANGED <<stack, freed, detaching, owner, subwins, visible, modal, fade, hiding, vis, det,
                     toFocus, focused, nxt, calling, hid, quit>>
  BY DEF DestroyQueued, treevars, showvars, linkvars, focusvars
<1>2. pc' = "unmap"  BY <1>1 DEF Begins
<1>3. /\ cur' = NoWindow => Dt = {}
      /\ cur' # NoWindow => cur' \in Dt
      /\ \A x \in Dt : ~Before(Dq, x, cur')
  BY <1>1, BeginDetachWalk
<1>4. cur' \in WindowOrNone  BY <1>3, QueuedWindows DEF WindowOrNone
<1>5. WindowTypes'  BY <1>1, <1>4 DEF WindowTypes
<1>6. Places'  BY <1>1, <1>2 DEF Places, Sh, Hd, Dt, Attached
<1>7. Calling'  BY <1>1, <1>2 DEF Calling
<1>8. UnmapWalk'
  <2>1. Dt' = Dt /\ Dq' = Dq  BY <1>1 DEF Dt, Dq
  <2> QED  BY <1>1, <1>2, <1>3, <2>1 DEF UnmapWalk
<1>9. VisWalk' /\ FreeWalk'  BY <1>2 DEF VisWalk, FreeWalk
<1> QED  BY <1>1, <1>5, <1>6, <1>7, <1>8, <1>9, Frames

\* AG_WindowHide returns: the window it hid was hidden all the while.
LEMMA HideReturnsKeeps ==
  ASSUME WindowInv, HideReturns
  PROVE  WindowInv'
<1> USE DEF WindowInv
<1> PICK n : n = Len(hiding)  OBVIOUS
<1>1. /\ hiding # << >> /\ visible' = visible \ {hiding[n]}
      /\ hiding' = SubSeq(hiding, 1, n - 1)
      /\ \/ pc = "events" /\ calling' = "no" /\ cur' = NoWindow /\ n = 1
         \/ UNCHANGED <<calling, cur>>
      /\ UNCHANGED <<stack, freed, detaching, owner, subwins, modal, fade, vis, det,
                     toFocus, focused, pc, nxt, hid, quit>>
  BY DEF HideReturns, treevars, linkvars, focusvars
<1>2. /\ hiding \in Seq(Window) /\ Entries(hiding) \cap visible = {} /\ calling # "no"
  BY <1>1 DEF Hiding
<1>3. /\ hiding[n] \in Entries(hiding) /\ n \in Nat /\ n # 0
      /\ hiding' \in Seq(Window) /\ Len(hiding') = n - 1
      /\ \A i \in 1 .. n - 1 : hiding'[i] = hiding[i]
  BY <1>1, <1>2 DEF Entries
<1>4. UNCHANGED visible  BY <1>1, <1>2, <1>3
<1>5. Entries(hiding') \subseteq Entries(hiding)  BY <1>2, <1>3 DEF Entries
<1>6. n = 1 => hiding' = << >>  BY <1>3
<1>7. Hiding'  BY <1>1, <1>2, <1>3, <1>4, <1>5, <1>6 DEF Hiding
<1>8. WindowTypes'  BY <1>1 DEF WindowTypes, WindowOrNone
<1>9. Calling'  BY <1>1, <1>4 DEF Calling
<1>10. VisWalk' /\ UnmapWalk' /\ FreeWalk'
  <2>1. CASE pc = "events"  BY <1>1, <2>1 DEF VisWalk, UnmapWalk, FreeWalk
  <2>2. CASE UNCHANGED <<calling, cur>>  BY <1>1, <1>4, <2>2, Frames
  <2> QED  BY <1>1, <2>1, <2>2
<1> QED  BY <1>1, <1>4, <1>7, <1>8, <1>9, <1>10, Frames

\* A handler returns, and the walk goes on with the entry after cur.
LEMMA HandlerReturnsKeeps ==
  ASSUME WindowInv, HandlerReturns
  PROVE  WindowInv'
<1> USE DEF WindowInv
<1>1. /\ calling \in {"shown", "hidden"} /\ calling' = "no" /\ hiding = << >>
      /\ cur' = CASE pc = "events" -> NoWindow [] pc = "unmap" -> det.next[cur]
                  [] OTHER -> vis.next[cur]
      /\ IF calling = "shown" THEN ShownEnd(cur) ELSE UNCHANGED <<toFocus, fade>>
      /\ UNCHANGED <<stack, freed, detaching, owner, subwins, visible, modal, hiding, vis, det,
                     focused, pc, nxt, hid, quit>>
  BY DEF HandlerReturns, treevars, linkvars
<1>2. pc \in {"events", "show", "hide", "unmap"} /\ cur # NoWindow
      /\ (calling = "shown" => cur \in visible)
  BY <1>1 DEF Calling
<1>3. /\ toFocus' \in {toFocus} \cup visible
      /\ fade' \in [Window -> {"none", "in", "out"}]
      /\ \A x \in Window : fade'[x] = "out" => fade[x] = "out"
  BY <1>1, <1>2 DEF ShownEnd, WindowTypes
<1>4. /\ pc = "unmap" => cur \in Dt /\ hid /\ (cur' # NoWindow => cur' \in Dt)
      /\ cur' \in WindowOrNone
  <2>1. CASE pc = "events"  BY <1>1, <2>1 DEF WindowOrNone
  <2>2. CASE pc = "unmap"
    <3>1. cur \in Dt /\ hid /\ cur' = det.next[cur]  BY <1>1, <1>2, <2>2 DEF UnmapWalk
    <3>2. cur' # NoWindow => cur' \in Dt  BY <3>1, NextDetachWalk
    <3> QED  BY <3>1, <3>2, QueuedWindows DEF WindowOrNone
  <2>3. CASE pc \in {"show", "hide"}
    <3>1. PICK s \in Seq(Window) : Walked(s)  BY <2>3 DEF VisWalk
    <3>2. cur \in Entries(s) /\ cur' = vis.next[cur]  BY <1>1, <1>2, <2>3, <3>1 DEF Walked
    <3>3. cur' # NoWindow => Before(s, cur, cur')  BY <3>1, <3>2 DEF Walked, Forward
    <3>4. cur' # NoWindow => cur' \in Entries(s)  BY <3>1, <3>3, BeforeIsOrder DEF Walked
    <3> QED  BY <2>3, <3>4, EntriesType DEF WindowOrNone
  <2> QED  BY <1>2, <2>1, <2>2, <2>3
<1>5. WindowTypes'
  <2>1. toFocus' \in WindowOrNone  BY <1>3, QueuedWindows DEF WindowTypes, WindowOrNone
  <2> QED  BY <1>1, <1>3, <1>4, <2>1 DEF WindowTypes
<1>6. Focus'  BY <1>1, <1>3 DEF Focus
<1>7. FadeRight'  BY <1>1, <1>3 DEF FadeRight, Sh, Hd
<1>8. Calling'  BY <1>1, <1>2 DEF Calling
<1>9. VisWalk'
  <2> SUFFICES ASSUME pc \in {"show", "hide"}  PROVE \E s \in Seq(Window) : Walked(s)'
    BY <1>1 DEF VisWalk
  <2>1. PICK s \in Seq(Window) : Walked(s)  BY DEF VisWalk
  <2>2. cur \in Entries(s) /\ cur' = vis.next[cur]  BY <1>1, <1>2, <2>1 DEF Walked
  <2>3. cur' # NoWindow => Before(s, cur, cur')  BY <2>1, <2>2 DEF Walked, Forward
  <2>4. \A x \in Window : Before(s, cur, x) => Pending(x)'
    BY <1>1, <2>1 DEF Walked, Pending
  <2>5. cur' # NoWindow => cur' \in Entries(s) /\ cur' \in Window
    BY <2>1, <2>3, BeforeIsOrder, EntriesType DEF Walked
  <2>6. cur' # NoWindow => Pending(cur)'
    <3>1. \A x \in Window : Before(s, cur, x)
            => x \in On(vis, pc) \cup detaching /\ (pc = "show" => x \notin visible)
      BY <2>1 DEF Walked, Pending
    <3> QED  BY <1>1, <2>3, <2>5, <3>1 DEF Pending
  <2>7. \A x \in Window : Before(s, cur', x) => Pending(x)'
    <3>1. ASSUME NEW x \in Window, Before(s, cur', x)  PROVE Before(s, cur, x)
      <4>1. cur' \in Entries(s)  BY <2>1, <3>1, BeforeIsOrder DEF Walked
      <4>2. cur' # NoWindow  BY <4>1, EntriesType, NoWindowAssumption
      <4> QED  BY <2>1, <2>3, <3>1, <4>2, BeforeIsOrder DEF Walked
    <3> QED  BY <2>4, <3>1
  <2>8. Walked(s)'  BY <1>1, <2>1, <2>5, <2>6, <2>7 DEF Walked, Forward, Attached
  <2> QED  BY <2>8
<1>10. UnmapWalk'  BY <1>1, <1>4 DEF UnmapWalk, Dt
<1>11. FreeWalk'  BY <1>1, <1>2 DEF FreeWalk
<1>12. Hiding'  BY <1>1 DEF Hiding
<1> QED  BY <1>1, <1>5, <1>6, <1>7, <1>8, <1>9, <1>10, <1>11, <1>12, Frames

-----------------------------------------------------------------------------
(* The theorems *)

\* The application starts with windows that nothing refers to.
LEMMA WindowInitInv == WindowInit => WindowInv
<1> SUFFICES ASSUME WindowInit  PROVE WindowInv  OBVIOUS
<1> USE DEF WindowInit
<1>e. << >> \in Seq(Window) /\ NoRepeats(<< >>) /\ Entries(<< >>) = {}
  <2>1. << >> \in Seq(Window) /\ DOMAIN << >> = {}  BY EmptySeq
  <2> QED  BY <2>1 DEF NoRepeats, Entries
<1>1. /\ vis \in LinksOf({"show", "hide"}, Window, NoWindow)
      /\ Links(vis, "show", << >>, NoWindow) /\ Links(vis, "hide", << >>, NoWindow)
  <2> PICK Q : Q = {"show", "hide"}  OBVIOUS
  <2>1. "show" \in Q /\ "hide" \in Q  OBVIOUS
  <2> QED  BY <2>1, EmptyLists
<1>2. det \in LinksOf({"detach"}, Window, NoWindow) /\ Links(det, "detach", << >>, NoWindow)
  <2> PICK Q : Q = {"detach"} /\ "detach" \in Q  OBVIOUS
  <2> QED  BY EmptyLists
<1>3. VisLists /\ DetList /\ Sh = {} /\ Hd = {} /\ Dt = {}
  <2>1. /\ Listed(vis, "show") /\ Listed(vis, "hide") /\ Listed(det, "detach")
        /\ On(vis, "show") = {} /\ On(vis, "hide") = {} /\ On(det, "detach") = {}
    BY <1>e, <1>1, <1>2, ListWalk
  <2> QED  BY <1>1, <1>2, <2>1 DEF VisLists, VisOK, DetList, Sh, Hd, Dt
<1>4. WindowTypes  BY MadeAssumption DEF WindowTypes, WindowOrNone
<1>5. Places /\ Focus /\ FadeRight /\ Hiding /\ Calling
  BY <1>e, <1>3 DEF Places, Focus, FadeRight, Hiding, Calling
<1>6. ModalRight  BY <1>e DEF ModalRight, ModalMatches
<1>7. VisWalk /\ UnmapWalk /\ FreeWalk  BY DEF VisWalk, UnmapWalk, FreeWalk
<1>8. OwnersRight  BY DEF OwnersRight, Owned
<1> QED  BY <1>3, <1>4, <1>5, <1>6, <1>7, <1>8 DEF WindowInv

\* What the three properties below rest on: where the windows of each queue can be,
\* who may depend on them, and what is ahead of a walk.
THEOREM WindowsInvariant == WindowRules => (WindowSpec => []WindowInv)
<1> SUFFICES ASSUME WindowRules  PROVE WindowSpec => []WindowInv  OBVIOUS
<1>1. WindowInit => WindowInv  BY WindowInitInv
<1>2. WindowInv /\ [WindowNext]_windowvars => WindowInv'
  <2> SUFFICES ASSUME WindowInv, [WindowNext]_windowvars  PROVE WindowInv'  OBVIOUS
  <2>1. CASE UNCHANGED windowvars
    <3>1. UNCHANGED <<stack, freed, detaching, owner, subwins, visible, modal, fade, hiding, vis, det,
                      toFocus, focused, pc, cur, nxt, calling, hid, quit>>
      BY <2>1 DEF windowvars, treevars, showvars, linkvars, focusvars, walkvars
    <3>2. WindowTypes'  BY <3>1 DEF WindowInv, WindowTypes
    <3> QED  BY <3>1, <3>2, Frames DEF WindowInv
  <2>2. CASE Pass
    BY <2>2, ProcessQueuedKeeps, GainFocusKeeps, FocusChangedKeeps, ShowEntryKeeps, ShowEndKeeps,
       HideEntryKeeps, HideEndKeeps, UnmapSkipKeeps, UnmapEntryKeeps, UnmapEndKeeps,
       FreeEntryKeeps, FreeDoneKeeps, FreeEndKeeps, HideReturnsKeeps, HandlerReturnsKeeps,
       DestroyGUIKeeps, DestroyQueuedKeeps DEF Pass
  <2>3. CASE Events
    <3>1. PICK w \in Window : MouseButtonDown(w) \/ FocusIn(w) \/ FocusOut(w) \/ FadeTimeout(w)
      BY <2>3 DEF Events
    <3> QED  BY <3>1, EventsKeep, FadeTimeoutKeeps
  <2>4. ASSUME NEW th \in {"main", "other"}, Application(th)  PROVE WindowInv'
    <3>1. PICK w \in Window :
            \/ WindowNew(th, w) \/ WindowShow(th, w) \/ WindowHide(th, w)
            \/ WindowFocus(th, w) \/ ObjectDetach(th, w)
            \/ \E o \in Window :
                 WindowAttach(th, o, w) \/ MakeTransient(th, o, w) \/ WindowPin(th, o, w)
      BY <2>4 DEF Application
    <3> QED  BY <3>1, WindowNewKeeps, WindowShowKeeps, WindowHideKeeps, EventsKeep,
                ObjectDetachKeeps, OwnsKeeps
  <2> QED  BY <2>1, <2>2, <2>3, <2>4 DEF WindowNext
<1> QED  BY <1>1, <1>2, PTL DEF WindowSpec

\* An application that keeps to the rules, so that it asks for no window while a request
\* for it is queued, never breaks a queue of windows, whatever its handlers detach under
\* the walks and other threads ask for between them, and no window is on both of those
\* that use one field: every walk of AG_WindowProcessQueued ends and meets every window.
THEOREM WindowQueuesSound == WindowRules => (WindowSpec => []QueuesSound)
<1> SUFFICES ASSUME WindowRules  PROVE WindowSpec => []QueuesSound  OBVIOUS
<1>1. WindowInv => QueuesSound
  <2> SUFFICES ASSUME WindowInv  PROVE QueuesSound  OBVIOUS
  <2>1. /\ Listed(vis, "show") /\ Listed(vis, "hide") /\ Listed(det, "detach")
        /\ On(vis, "show") \cap On(vis, "hide") = {}
    BY DEF WindowInv, VisLists, VisOK, DetList
  <2>2. WellLinked(vis, "show", N, NoWindow) /\ WellLinked(vis, "hide", N, NoWindow)
        /\ WellLinked(det, "detach", N, NoWindow)
    BY <2>1, ListSteps
  <2>3. pc = "events" => On(det, "detach") = detaching \ freed
    BY DEF WindowInv, Places, Dt
  <2> QED  BY <2>1, <2>2, <2>3 DEF QueuesSound
<1>2. WindowSpec => []WindowInv  BY WindowsInvariant
<1> QED  BY <1>1, <1>2, PTL

\* In such an application nothing that the window system keeps refers to a window
\* that was destroyed.
THEOREM NoDanglingWindow == WindowRules => (WindowSpec => []NoDangling)
<1> SUFFICES ASSUME WindowRules  PROVE WindowSpec => []NoDangling  OBVIOUS
<1>1. WindowInv => NoDangling
  <2> SUFFICES ASSUME WindowInv  PROVE NoDangling  OBVIOUS
  <2>1. /\ Attached \cap freed = {} /\ Sh \cup Hd \cup visible \subseteq Attached
        /\ freed \subseteq detaching /\ NoWindow \notin freed
    BY NoWindowAssumption DEF WindowInv, Places, WindowTypes
  <2>2. {focused, toFocus} \subseteq visible \cup {NoWindow} /\ Entries(modal) \subseteq visible
    BY DEF WindowInv, Focus, ModalRight, ModalMatches
  <2>3. freed \cap ({focused, toFocus} \cup Entries(modal)
                    \cup On(vis, "show") \cup On(vis, "hide")) = {}
    BY <2>1, <2>2 DEF Sh, Hd
  <2>4. ASSUME NEW w \in Attached
        PROVE  freed \cap ({owner[w].parent, owner[w].transientFor, owner[w].pinnedTo}
                         \cup subwins[w]) = {}
    <3>1. w \in Window /\ w \notin freed  BY <2>1, QueuedWindows
    <3>2. /\ Owned(w, owner[w].parent) /\ Owned(w, owner[w].transientFor)
          /\ owner[w].pinnedTo \notin detaching /\ subwins[w] \cap detaching = {}
      BY <3>1 DEF WindowInv, OwnersRight
    <3>3. \A o : Owned(w, o) => o \notin freed  BY <2>1, <3>1 DEF Owned
    <3> QED  BY <2>1, <3>2, <3>3
  <2> QED  BY <2>3, <2>4 DEF NoDangling
<1>2. WindowSpec => []WindowInv  BY WindowsInvariant
<1> QED  BY <1>1, <1>2, PTL

\* Nor does a window that is hidden or destroyed stay on the stack of modal windows, or a
\* window come to be on it twice; one of the rules is that the handlers of a hide do not
\* show the window again.
THEOREM ModalStackMatches == WindowRules => (WindowSpec => []ModalMatches)
<1> SUFFICES ASSUME WindowRules  PROVE WindowSpec => []ModalMatches  OBVIOUS
<1>1. WindowInv => ModalMatches  BY DEF WindowInv, ModalRight
<1>2. WindowSpec => []WindowInv  BY WindowsInvariant
<1> QED  BY <1>1, <1>2, PTL
=============================================================================
