----------------------------- MODULE ObjectTree -----------------------------
(***************************************************************************)
(* The object hierarchy ("VFS") of core/object.c: objects are created and  *)
(* named, attached to a parent, moved among their siblings, detached and   *)
(* destroyed with all they contain; each has a table of the objects it     *)
(* refers to, with reference counts, and may have timers running.          *)
(*                                                                         *)
(* The layout of a tree is edited under the lock of its root (AG_LockVFS), *)
(* so an operation is one step; for AG_ObjectNew, which takes and drops    *)
(* that lock twice, the application holds it around the call.  Objects are *)
(* those without a custom attach or detach function (windows have one, and *)
(* queue their detachment).                                                *)
(*                                                                         *)
(* Rules is what the application keeps to:                                 *)
(*   "leaves"  it detaches only objects without children (what has some it *)
(*             deletes whole, with AG_ObjectDelete): what a detached object *)
(*             contains is left with the root of the tree it came from;    *)
(*   "names"   it never gives an object the name of a sibling.             *)
(***************************************************************************)
EXTENDS AgQueue, FiniteSets

CONSTANTS
  Object,     \* structures that can hold an object
  Name,       \* names chosen by the application
  Nil,        \* the NULL pointer, and the empty name
  Preserving, \* the objects with AG_OBJECT_PRESERVE_DEPS
  DepMax,     \* AG_OBJECT_DEP_MAX: a count that reaches it is "wired"
  Rules,      \* see above
  Holder,     \* bound: the objects that refer to others
  Ticking,    \* bound: the objects that start timers
  MaxDeps,    \* bound: entries in all dependency tables together
  MaxRefs     \* bound: references held by all objects together

VARIABLES
  alive,      \* the initialised objects
  parent,     \* ob->parent
  root,       \* ob->root
  children,   \* ob->children, in order
  name,       \* ob->name: given, generated (a number) or empty
  onattach,   \* the objects with AG_OBJECT_NAME_ONATTACH
  timed,      \* the objects with a running timer in ob->timers
  deps,       \* ob->deps: the count of the entry for each object, Nil without one
  refs        \* the references object o holds on d: calls of AG_ObjectAddDep
              \* less those of AG_ObjectDelDep

links == <<alive, parent, root, children>>
vars == <<links, name, onattach, timed, deps, refs>>

ASSUME NilAssumption == Nil \notin Object \cup Name \cup Nat
ASSUME ObjectAssumption == IsFiniteSet(Object)
ASSUME DepMaxAssumption == DepMax \in Nat \ {0, 1}

\* An empty dependency table.
NoEntries == [d \in Object |-> Nil]

Init ==
  /\ alive = {}
  /\ parent = [o \in Object |-> Nil] /\ root = [o \in Object |-> o]
  /\ children = [o \in Object |-> << >>]
  /\ name = [o \in Object |-> Nil] /\ onattach = {}
  /\ timed = {}
  /\ deps = [o \in Object |-> NoEntries]
  /\ refs = [o \in Object |-> [d \in Object |-> 0]]

-----------------------------------------------------------------------------
(* Walking the tree *)

\* o and all it contains: what a walk of the lists of children reaches from o.
Closed(S) == \A x \in Object : \A y \in Entries(children[x]) : x \in S => y \in S
Subtree(o) == {x \in Object : \A S \in SUBSET Object : o \in S /\ Closed(S) => x \in S}

\* AG_ObjectFindChild: the first child of the name.
Hits(p, n) == {i \in DOMAIN children[p] : name[children[p][i]] = n}
FindChild(p, n) ==
  IF Hits(p, n) = {} THEN Nil
  ELSE children[p][CHOOSE i \in Hits(p, n) : \A j \in Hits(p, n) : i <= j]

\* FindObjectByName descends into the first child of each name in the path, and
\* does not come back to try another.
FindS(r, path) ==
  LET At[i \in 0..Len(path)] ==
        IF i = 0 THEN r
        ELSE IF At[i - 1] = Nil THEN Nil ELSE FindChild(At[i - 1], path[i])
  IN At[Len(path)]

\* AG_ObjectCopyName (GenerateObjectPath): the names below ob->root.
CopyName(ob) ==
  LET Path[o \in Object] ==
        IF parent[o] = root[o] \/ parent[o] = Nil
        THEN <<name[o]>> ELSE Append(Path[parent[o]], name[o])
  IN Path[ob]

\* AG_ObjectGenName: the class name and the least number no child of p has.
GenName(p) ==
  CHOOSE i \in 0..Cardinality(Object) :
    /\ p # Nil => FindChild(p, i) = Nil
    /\ \A j \in 0..(i - 1) : p # Nil /\ FindChild(p, j) # Nil

\* The objects o has an entry for.
DepObjs(o) == {d \in Object : deps[o][d] # Nil}

\* FindObjectInUse, from the root the object points to.
Used(o) == \E u \in Object \ {o} : o \in DepObjs(u) /\ u \in Subtree(root[o])

\* AG_ObjectInUse
InUse(o) == \E x \in Object : Used(x) /\ x \in Subtree(o)

NameFree(p, n) == "names" \in Rules => FindChild(p, n) = Nil

-----------------------------------------------------------------------------
(* Creation *)

\* AG_ObjectInit
Initialised(o, n, onatt) ==
  /\ o \notin alive
  /\ alive' = alive \cup {o}
  /\ name' = [name EXCEPT ![o] = n]
  /\ onattach' = IF onatt THEN onattach \cup {o} ELSE onattach
  /\ timed' = timed \ {o}
  /\ UNCHANGED <<deps, refs>>

\* AG_ObjectInitNamed without a name: one is generated when it is attached.
InitNamed(o) ==
  /\ Initialised(o, Nil, TRUE)
  /\ UNCHANGED <<parent, root, children>>

\* The linkage AG_ObjectAttach makes: c becomes the last child of p.
Linkage(p, c) ==
  /\ parent' = [parent EXCEPT ![c] = p]
  /\ root' = [root EXCEPT ![c] = root[p]]
  /\ children' = [children EXCEPT ![p] = TailqInsertTail(@, c)]

\* AG_ObjectNew: a name is made, or looked for among the children; the object is
\* initialised, and attached.
New(o, p, n) ==
  /\ p \in alive \cup {Nil}
  /\ n # Nil /\ p # Nil => FindChild(p, n) = Nil
  /\ Initialised(o, IF n = Nil THEN GenName(p) ELSE n, FALSE)
  /\ IF p = Nil THEN UNCHANGED <<parent, root, children>> ELSE Linkage(p, o)

-----------------------------------------------------------------------------
(* The layout *)

\* (Mutant: the flag is honoured only for objects without a name.)
AttachedNameOnce(p, c) == IF c \in onattach /\ name[c] = Nil THEN GenName(p) ELSE name[c]

\* The name an object is attached under.
AttachedName(p, c) == IF c \in onattach THEN GenName(p) ELSE name[c]

\* AG_ObjectAttach. An object is in one place of a tree at a time: it is not
\* attached yet, and p is not within it; what it contains keeps its root. (What the "attached" and "detached" events
\* set off is not part of this module.)
Attach(p, c) ==
  /\ {p, c} \subseteq alive /\ parent[c] = Nil /\ p \notin Subtree(c)
  /\ c \notin onattach => NameFree(p, name[c])
  /\ name' = [name EXCEPT ![c] = AttachedName(p, c)]
  /\ Linkage(p, c)
  /\ UNCHANGED <<alive, onattach, timed, deps, refs>>

\* AG_ObjectAttachToNamed: the path, here that of q, is looked up from r.
AttachToNamed(r, q, c) ==
  /\ {r, q} \subseteq alive /\ r = root[q]
  /\ LET p == IF q = r THEN r ELSE FindS(r, CopyName(q)) IN p # Nil /\ Attach(p, c)

\* (Mutant: the object stays in the list.)
OthersAll(c) == children[parent[c]]

\* The list of the parent without c.
Others(c) == TailqRemove(children[parent[c]], c)

\* AG_ObjectDetach: the timers of the object itself are cancelled; what it
\* contains stays as it is.
Detach(c) ==
  /\ c \in alive /\ parent[c] # Nil
  /\ "leaves" \in Rules => children[c] = << >>
  /\ timed' = timed \ {c}
  /\ children' = [children EXCEPT ![parent[c]] = Others(c)]
  /\ parent' = [parent EXCEPT ![c] = Nil]
  /\ root' = [root EXCEPT ![c] = c]
  /\ UNCHANGED <<alive, name, onattach, deps, refs>>

\* The child o of its parent is put at position i among its siblings.
Place(o, i) ==
  children' = [children EXCEPT ![parent[o]] = InsertAt(Others(o), i, o)]

Siblings(o) == children[parent[o]]

\* The four moves; only MoveUp and MoveDown have an object to pass. (The lock of
\* the parent's tree is taken before the parent is compared with NULL.)
Movable(o) == o \in alive /\ parent[o] # Nil
Moved == UNCHANGED <<alive, parent, root, name, onattach, timed, deps, refs>>
MoveUp(o) ==
  Movable(o) /\ o # Head(Siblings(o)) /\ Place(o, Pos(Siblings(o), o) - 1) /\ Moved
MoveDown(o) ==
  Movable(o) /\ o # Last(Siblings(o)) /\ Place(o, Pos(Siblings(o), o) + 1) /\ Moved
MoveToHead(o) == Movable(o) /\ Place(o, 1) /\ Moved
MoveToTail(o) == Movable(o) /\ Place(o, Len(Siblings(o))) /\ Moved

-----------------------------------------------------------------------------
(* Destruction *)

\* The objects AG_ObjectDelete detaches: the object, if it is attached, and
\* everything in it (FreeChildObject).
DetachedByDelete(o) == (Subtree(o) \ {o}) \cup (IF parent[o] # Nil THEN {o} ELSE {})

\* AG_ObjectDelete: detach the object, free its children, depth first, then its
\* table and the object. The application asks AG_ObjectInUse before. Timers are only
\* cancelled where an object is detached.
Delete(o) ==
  /\ o \in alive /\ ~InUse(o)
  /\ LET X == Subtree(o) IN
     /\ alive' = alive \ X
     /\ children' = [p \in Object |-> IF p \in X THEN << >>
                                      ELSE IF p = parent[o] THEN Others(o)
                                      ELSE children[p]]
     /\ parent' = [x \in Object |-> IF x \in X THEN Nil ELSE parent[x]]
     /\ root' = [x \in Object |-> IF x \in X THEN x ELSE root[x]]
     /\ name' = [x \in Object |-> IF x \in X THEN Nil ELSE name[x]]
     /\ onattach' = onattach \ X
     /\ timed' = timed \ DetachedByDelete(o)
     /\ deps' = [x \in Object |-> IF x \in X THEN NoEntries ELSE deps[x]]
     /\ refs' = [x \in Object |-> IF x \in X THEN [d \in Object |-> 0] ELSE refs[x]]

-----------------------------------------------------------------------------
(* Dependencies and timers *)

NumDeps == Cardinality(UNION {{<<o, d>> : d \in DepObjs(o)} : o \in Object})
NumRefs == MapThenSumSet(LAMBDA od : refs[od[1]][od[2]], Object \X Object)

\* One more reference: the count stays at its limit.
Raised(n) == IF n + 1 > DepMax THEN DepMax ELSE n + 1

\* AG_ObjectAddDep: the entry is made, or its count raised.
AddDep(o, d) ==
  /\ o \in Holder /\ {o, d} \subseteq alive /\ NumRefs < MaxRefs
  /\ d \notin DepObjs(o) => NumDeps < MaxDeps
  /\ deps' = [deps EXCEPT ![o][d] = IF @ = Nil THEN 1 ELSE Raised(@)]
  /\ refs' = [refs EXCEPT ![o][d] = @ + 1]
  /\ UNCHANGED <<links, name, onattach, timed>>

\* (Mutant: wired entries are counted down.)
ReleasedWired(n, keep) == IF n = 1 /\ ~keep THEN Nil ELSE n - 1

\* One reference less: an entry that is wired stays so, one without references
\* goes, unless the table is to be preserved.
Released(n, keep) ==
  IF n = DepMax THEN DepMax ELSE IF n = 1 /\ ~keep THEN Nil ELSE n - 1

\* AG_ObjectDelDep, for a reference that is held.
DelDep(o, d) ==
  /\ o \in alive /\ refs[o][d] > 0
  /\ deps' = [deps EXCEPT ![o][d] = Released(@, o \in Preserving)]
  /\ refs' = [refs EXCEPT ![o][d] = @ - 1]
  /\ UNCHANGED <<links, name, onattach, timed>>

\* AG_ObjectFreeDummyDeps: entries without references go, throughout the object.
FreeDummyDeps(o) ==
  /\ o \in alive
  /\ deps' = [x \in Object |-> [d \in Object |->
                IF x \in Subtree(o) /\ deps[x][d] = 0 THEN Nil ELSE deps[x][d]]]
  /\ UNCHANGED <<links, name, onattach, timed, refs>>

\* AG_ObjectPageOut and AG_ObjectFreeDataset: unless the object is in use its data
\* is dropped, and with it the references the data holds; their entries stay,
\* whatever the flag, for AG_ObjectPageIn. (An object that is not persistent, has
\* AG_OBJECT_REMAIN_DATA or cannot be saved stays as it is.)
PageOut(o) ==
  /\ o \in alive /\ ~InUse(o)
  /\ deps' = [deps EXCEPT ![o] = [d \in Object |->
                IF @[d] \in {Nil, DepMax} THEN @[d] ELSE 0]]
  /\ refs' = [refs EXCEPT ![o] = [d \in Object |-> 0]]
  /\ UNCHANGED <<links, name, onattach, timed>>

\* AG_AddTimer and AG_DelTimer, in brief (TimerQueues has the whole): on any object,
\* attached or not.
StartTimer(o) ==
  /\ o \in Ticking /\ o \in alive
  /\ timed' = timed \cup {o}
  /\ UNCHANGED <<links, name, onattach, deps, refs>>
StopTimer(o) ==
  /\ o \in alive
  /\ timed' = timed \ {o}
  /\ UNCHANGED <<links, name, onattach, deps, refs>>

Next ==
  \/ \E o \in Object : \/ InitNamed(o) \/ Detach(o) \/ Delete(o)
                       \/ MoveUp(o) \/ MoveDown(o) \/ MoveToHead(o) \/ MoveToTail(o)
                       \/ FreeDummyDeps(o) \/ PageOut(o) \/ StartTimer(o) \/ StopTimer(o)
  \/ \E o \in Object, p \in Object \cup {Nil}, n \in Name \cup {Nil} : New(o, p, n)
  \/ \E p, c \in Object : Attach(p, c) \/ AddDep(p, c) \/ DelDep(p, c)
  \/ \E r, q, c \in Object : AttachToNamed(r, q, c)

Spec == Init /\ [][Next]_vars

-----------------------------------------------------------------------------
(* Properties *)

\* The types of the variables.
TypeOK ==
  /\ alive \subseteq Object
  /\ parent \in [Object -> Object \cup {Nil}]
  /\ root \in [Object -> Object]
  /\ children \in [Object -> Seq(Object)]
  /\ name \in [Object -> Name \cup Nat \cup {Nil}]
  /\ onattach \subseteq Object /\ timed \subseteq Object
  /\ deps \in [Object -> [Object -> 0..DepMax \cup {Nil}]]
  /\ refs \in [Object -> [Object -> Nat]]

\* A parent pointer and the list of children it answers agree...
Linked == \A p, c \in Object : c \in Entries(children[p]) <=> parent[c] = p
\* ... no object is in a list twice, only live objects are in one...
ListsProper ==
  /\ \A p \in Object : NoRepeats(children[p])
  /\ \A c \in Object : parent[c] # Nil => {c, parent[c]} \subseteq alive
\* ... and no object contains itself.
Acyclic == \A S \in SUBSET Object : S # {} => \E o \in S : parent[o] \notin S

\* Attach, detach, move and delete keep the objects a forest: the two links
\* between a parent and a child agree, nothing freed is linked, no cycles.
TreeConsistent == Linked /\ ListsProper /\ Acyclic

\* ob->root is the root of the tree the object is in, which AG_LockVFS locks and
\* AG_ObjectRoot returns (AG_Object.3: the root of the VFS which the given object is
\* attached to).
\* (Not true of this code: see the README's Findings.)
RootsAgree == \A o \in alive : root[o] = IF parent[o] = Nil THEN o ELSE root[parent[o]]

\* The path AG_ObjectCopyName gives for an attached object leads back to it with
\* AG_ObjectFindS: no object is hidden behind a sibling of the same name.
PathFinds ==
  \A o \in alive : parent[o] # Nil => FindS(root[o], CopyName(o)) = o

\* An application that destroys objects only when AG_ObjectInUse says they are
\* not in use (AG_Object.3: not referenced by another object) leaves no entry for a
\* freed object in a table.
\* (Not true of this code: see the README's Findings.)
NoDanglingDep == \A o \in alive : DepObjs(o) \subseteq alive

\* The entry for an object stays in the table as long as references to it are
\* held, also once the count has reached its limit.
RefsCounted ==
  \A o \in alive, d \in Object :
    deps[o][d] \in IF refs[o][d] = 0 THEN {Nil, 0, DepMax} ELSE {refs[o][d], DepMax}

\* No timer is left for an object that was freed (AG_Timer.3: if its parent object is
\* destroyed or detached, callbacks are guaranteed to be cancelled).
\* (Not true of this code: see the README's Findings.)
NoOrphanTimer == timed \subseteq alive
=============================================================================
